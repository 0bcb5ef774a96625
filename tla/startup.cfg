SPECIFICATION StartupSpec
CONSTANTS
  Servers = {s1, s2}
  Lone = s1
  Keys = {k1, k2, k3}
  NoKey = NoKey
  MaxDeaths = 2
  Unset = Unset
  Junk = Junk
  LoopbackIPs = {"127.0.0.1", "::1"}
  PeerHosts = {"", "*", "localhost", "127.0.0.1", "10.0.0.7"}
  Inputs <- MCInputs
  ClientEnvs <- MCClientEnvs
CONSTRAINT Explored
SYMMETRY KeySymmetry
INVARIANTS PathNeverPartial ServedIsInstalled NoLitter ServesOnlyLoopback SessionAtHome
PROPERTIES KeyKept FingerprintStable
CHECK_DEADLOCK FALSE
