SPECIFICATION RelaySpec
CONSTANTS
  None = None
  Conns = {c1, c2}
  Addrs = {any, lo, routable}
  AnyAddrs = {any}
  LoopbackAddrs = {lo}
  LoopbackIPv4 = lo
  Ports = {p1, p2}
  Ids = {l1, l2}
  Inbounds = {r1}
INVARIANTS NoOrphanListener TableIsLive
PROPERTIES DisconnectEndsRelays DisconnectClosesForwards
CHECK_DEADLOCK FALSE
