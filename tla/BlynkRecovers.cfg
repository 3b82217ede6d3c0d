CONSTANTS
  Heartbeat = 4
  Timeout = 1
  Retry = 2
  ConnectTimeout = 5
  Gap = 1
  ConnectTime = 1
  HandlerTime = 0
  Calls = {"once", "begin"}
  Messages = {"ping", "oversized", "redirect"}
  MayHeal = TRUE
  Paced = TRUE
  MaxInbox = 1
SPECIFICATION FairSpec
PROPERTIES StaysConnected ConnectReturnsInTime BeginSucceeds Recovers
