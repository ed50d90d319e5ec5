SPECIFICATION Spec
SYMMETRY Symmetry
CONSTANTS
  p1 = p1
  p2 = p2
  m1 = m1
  w1 = w1
  w2 = w2
  none = none
  Player = {p1, p2}
  Monster = {}
  Caller = {w1, w2}
  Position = {0}
  EnterRadius = 1
  LeaveRadius = 2
  Nowhere = none
  MaxNotices = 1
  MaxFaults = 0
  MaxLogins = 2
INVARIANTS SceneAgrees QueueExact ClaimsCounted
