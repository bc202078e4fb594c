SPECIFICATION CornersSpec
CONSTANTS
  Session = {s1, s2}
  s1 = s1
  Masks <- Diagonals
  Width = 2
  InboxCap = 2
  SendCap = 1
  MaxPerTick = 2
INVARIANTS TypeOK MembersAreActors MembershipFollowsTopic TickDrains
PROPERTIES MemberHeard CancelReturns
CHECK_DEADLOCK FALSE
