SPECIFICATION FairSpec
CONSTANTS
  i1 = i1
  i2 = i2
  None = None
  Proc = {i1}
  Request = {r1}
  Player = {p1}
  SidOf <- Sids
  Lease = 4
  MaxFaults = 0
  HasFencer = TRUE
  Logins = TRUE
  Guard = 2
  RefreshInterval = 1
  LoopOnTime = TRUE
  EvictPrompt = TRUE
  EvictWait = 1
  RedisLag = 0
  PassLag = 1
  MaxCrashes = 1
  TxnTicks = 1
PROPERTY IdleLeaseHandedBack
