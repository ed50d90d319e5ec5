SPECIFICATION Spec
CONSTANTS
  i1 = i1
  i2 = i2
  None = None
  Proc = {i1, i2}
  Request = {r1}
  Player = {p1}
  SidOf <- Sids
  Lease = 5
  MaxFaults = 2
  HasFencer = TRUE
  Logins = FALSE
  Guard = 2
  RefreshInterval = 1
  LoopOnTime = TRUE
  EvictPrompt = FALSE
  EvictWait = 1
  RedisLag = 0
  PassLag = 1
  MaxCrashes = 1
  TxnTicks = 1
INVARIANTS NoCopyLeftBehind HandBackUndisturbed
SYMMETRY Symmetry
