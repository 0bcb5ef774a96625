SPECIFICATION Spec
CONSTANTS
  None = None
  Conns = {c1, c2}
  Addrs = {any, lo, routable}
  AnyAddrs = {any}
  LoopbackAddrs = {lo}
  LoopbackIPv4 = lo
  Ports = {p1}
  Ids = {l1, l2, l3}
PROPERTY TeardownClosesOwn
CHECK_DEADLOCK FALSE
