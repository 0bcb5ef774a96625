SPECIFICATION Spec
CONSTANTS
  Unset = Unset
  Junk = Junk
  DefaultPingInterval = 6
  DefaultPingTimeout = 12
  DefaultTargetHealthInterval = 6
  targetHealthDialTimeout = 2
  Pings = {0, 1, 2, 4, 7}
  Envs <- MCEnvs
  Holds = {0, 1, 2}
  Answers = {0, 1, 3}
  MaxDial = 1
  writeWait = 2
  MaxSilence = 13
INVARIANT HealthyKept
PROPERTY DeadPeerCut
CHECK_DEADLOCK FALSE
