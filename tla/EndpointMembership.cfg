SPECIFICATION Spec
CONSTANTS
  Room = {r1, r2}
  NoRoom = NoRoom
  r2 = r2
  DefaultRoom = r1
  ClientFrame <- Moves
  ForceCaller = {}
  IdleTimeout = 1
  CtrlCap = 1
  WriteCap = 1
  MsgCap = 1
  MaxFrames = 0
  MaxClient = 3
  MaxTraffic = 3
INVARIANTS RoomIDTellsMembership
CHECK_DEADLOCK FALSE
