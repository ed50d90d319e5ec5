SPECIFICATION FairSpec
CONSTANTS
  p1 = p1
  p2 = p2
  m1 = m1
  w1 = w1
  w2 = w2
  none = none
  Player = {p1, p2}
  Monster = {m1}
  Caller = {w1}
  Position = {0, 3}
  EnterRadius = 1
  LeaveRadius = 2
  Nowhere = none
  MaxNotices = 1
  MaxFaults = 1
  MaxLogins = 0
INVARIANTS SerialAgrees
PROPERTY GhostsLeave
