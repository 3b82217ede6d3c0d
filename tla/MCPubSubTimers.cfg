CONSTANTS
  KeepAlive = 2
  SocketTimeout = 1
  Stalls = 1
  LoopGap = 1
  CallbackTime = 1
  IdSpace = 2
  HasCallback = TRUE
  HasStream = FALSE
  WriteMayFail = FALSE
  CallbackMayReconnect = FALSE
  Prompt = FALSE
  MaxInbox = 1
  MaxTime = 9
SPECIFICATION Spec
INVARIANTS IInv KeepAliveHonoured DeadPeerDetected
CHECK_DEADLOCK FALSE
