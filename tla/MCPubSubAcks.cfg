CONSTANTS
  KeepAlive = 1
  SocketTimeout = 1
  Stalls = 1
  LoopGap = 1
  CallbackTime = 0
  IdSpace = 3
  HasCallback = TRUE
  HasStream = TRUE
  WriteMayFail = TRUE
  CallbackMayReconnect = FALSE
  Prompt = FALSE
  MaxInbox = 2
  MaxTime = 2
SPECIFICATION Spec
INVARIANTS SessionConsistent OnePing
PROPERTY AckOnlyHandled
CHECK_DEADLOCK FALSE
