SPECIFICATION Spec
CONSTANTS
  SelfId <- MySession
  DefaultRoom <- Lobby
  Message <- Messages
  MaxCut = 139
INVARIANTS ReadersAgree SentIsUnderstood CutIsRejectedOrSame LengthTellsSize
CHECK_DEADLOCK FALSE
