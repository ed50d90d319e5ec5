SPECIFICATION FairSpec
CONSTANTS
  g1 = g1
  g2 = g2
  o1 = o1
  o2 = o2
  none = none
  Groups = {g1}
  Counts = {0, 1, 2}
  MaxId = 4
  Operators = {o1, o2}
  MaxFaults = 1
  MaxReloads = 1
  None = none
INVARIANTS RespawnRespected NoOrphans
PROPERTY SlotsRefilled
CHECK_DEADLOCK FALSE
