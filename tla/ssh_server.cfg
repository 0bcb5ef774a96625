SPECIFICATION ServerSpec
CONSTANTS
  Clients = {k1, k2}
  Channels = {c1, c2, c3}
  MaxSessions = 2
INVARIANTS SessionsAccounting SessionLimitHolds DrainSpares UnaskedExitIsError
PROPERTIES RefusalNeedsContention ProcessEnds
