SPECIFICATION System
CONSTANTS
  Session = {s1, s2}
  Masks <- OneMask
  Width = 0
  InboxCap = 1
  SendCap = 0
  MaxPerTick = 1
  NoRoom = NoRoom
  DefaultRoom = Lobby
  Player = {s1}
  MaxInputs = 1
  DownCap = 1
INVARIANTS ShownIncludesSelf InputsFindTheRoom ViewsAgreeUnlessLost
CHECK_DEADLOCK FALSE
