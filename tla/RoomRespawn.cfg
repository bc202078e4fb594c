SPECIFICATION TurnSpec
CONSTANTS
  Session = {s1}
  s1 = s1
  Masks <- OneMask
  Width = 4
  InboxCap = 3
  SendCap = 0
  MaxPerTick = 3
INVARIANTS JoinedAtCentre
CHECK_DEADLOCK FALSE
