SPECIFICATION FairSpec
CONSTANTS
  Protocol <- Protocols
  PushId = {5}
  MessageId = {0, 1}
  Width = 6
  Pusher = {p1, p2}
  Pushed = {4}
  MaxPushes = 3
  NoDef = NoDef
INVARIANTS HandlersGuarded FramesApart
CHECK_DEADLOCK FALSE
PROPERTIES NoReplay RequestsEnd
