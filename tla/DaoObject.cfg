SPECIFICATION Spec
CONSTANTS
  Values = {v1, v2}
  Gems = {"g1"}
  Keys = {"k1", "k2"}
  PathKeys = {"k1"}
  Items = {1, 2}
  Persist = {"score", "equips", "squad"}
  Sync = {"score", "mount", "equips"}
  StartDocs <- ConstStartDocs
  MaxOps = 3
  MaxTx = 2
  MaxFaults = 1
SYMMETRY SameValues
CHECK_DEADLOCK FALSE
INVARIANTS ReportsToItsHolder StoredIsObject ClientIsCurrent
PROPERTIES RollbackRestores
