SPECIFICATION Spec
CONSTANTS
  Room = {r1}
  NoRoom = NoRoom
  r2 = r2
  DefaultRoom = r1
  ClientFrame <- OneJoin
  ForceCaller = {}
  IdleTimeout = 1
  CtrlCap = 1
  WriteCap = 1
  MsgCap = 1
  MaxFrames = 0
  MaxClient = 1
  MaxTraffic = 1
PROPERTIES ReadKeepsAlive
CHECK_DEADLOCK FALSE
