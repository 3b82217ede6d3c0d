CONSTANTS
  KeepAlive = 4
  SocketTimeout = 1
  Stalls = 0
  LoopGap = 1
  CallbackTime = 1
  IdSpace = 2
  HasCallback = TRUE
  HasStream = FALSE
  WriteMayFail = FALSE
  CallbackMayReconnect = FALSE
  Prompt = TRUE
  MaxInbox = 2
  MaxTime = 12
SPECIFICATION Spec
INVARIANTS NoSpuriousTimeout
CHECK_DEADLOCK FALSE
