SPECIFICATION FairSystem
CONSTANTS
  Session = {s1, s2}
  Masks <- OneMask
  Width = 0
  InboxCap = 1
  SendCap = 0
  MaxPerTick = 1
  NoRoom = NoRoom
  DefaultRoom = Lobby
  Player = {}
  MaxInputs = 0
  DownCap = 1
PROPERTIES LinksKept Welcomed
CHECK_DEADLOCK FALSE
