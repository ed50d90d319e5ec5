SPECIFICATION Spec
CONSTANTS
  i1 = i1
  i2 = i2
  None = None
  Proc = {i1, i2}
  Request = {r1}
  Player = {p1}
  SidOf <- Sids
  Lease = 3
  MaxFaults = 4
  HasFencer = FALSE
  Logins = FALSE
  Guard = 1
  RefreshInterval = 1
  LoopOnTime = TRUE
  EvictPrompt = FALSE
  EvictWait = 1
  RedisLag = 0
  PassLag = 0
  MaxCrashes = 1
  TxnTicks = 0
INVARIANT NoStaleWrite
SYMMETRY Symmetry
