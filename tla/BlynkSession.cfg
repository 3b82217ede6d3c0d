CONSTANTS
  Heartbeat = 10
  Timeout = 2
  Retry = 5
  ConnectTimeout = 6
  Gap = 1
  ConnectTime = 1
  HandlerTime = 1
  Calls = {"once"}
  Messages = {"hardware", "ping", "redirect", "garbled", "oversized", "unknown"}
  MayHeal = FALSE
  Paced = FALSE
  MaxInbox = 1
SPECIFICATION Spec
INVARIANTS SessionOpen DeadPeerDetected KeepAlive IInv
PROPERTIES DisconnectSticks Backoff
