---------------------------- MODULE BlynkProtocol ----------------------------
(***************************************************************************)
(* The session with the Blynk server of Blynk/src/Blynk/BlynkProtocol.h,   *)
(* the transport Blynk/src/Adapters/BlynkArduinoClient.h under it, the     *)
(* sketch that calls it and the server.                                    *)
(*                                                                         *)
(* run() handles at most one message and then looks at its timers.  It is  *)
(* cut where time passes or user code runs: while the transport connects   *)
(* or waits for the rest of a message, and in a handler.  tconn is its     *)
(* local, read once at the start.                                          *)
(*                                                                         *)
(* The code compares differences of millis() values only, so the model     *)
(* keeps the differences: the age of each time stamp, up to a value above  *)
(* everything it is compared with.  No clock has to be bounded.            *)
(***************************************************************************)
EXTENDS Naturals, Sequences, FiniteSetsExt

CONSTANTS
  Heartbeat,      \* 1000 * BLYNK_HEARTBEAT
  Timeout,        \* BLYNK_TIMEOUT_MS
  Retry,          \* the 5000 ms between two logins
  ConnectTimeout, \* the argument of connect(), 3 * BLYNK_TIMEOUT_MS
  Gap,            \* longest time the sketch leaves between two calls of run()
  ConnectTime,    \* longest time the transport takes to connect
  HandlerTime,    \* longest time a handler takes
  Calls,          \* how the sketch waits for a connection: "once", "begin"
  Messages,       \* what the server sends unasked
  MayHeal,        \* the network may become reliable, see Heal
  Paced,          \* from then on the message limit cuts off no command, see sendCmd
  MaxInbox        \* bound: unread messages the server sent unasked, and one answer

ASSUME DurationsAssumption ==
  /\ Heartbeat \in Nat /\ Timeout \in Nat /\ Retry \in Nat
  /\ ConnectTimeout \in Nat /\ Gap \in Nat \ {0}
  /\ ConnectTime \in Nat /\ HandlerTime \in Nat
  /\ Retry > Timeout
ASSUME SwitchesAssumption ==
  /\ Calls \subseteq {"once", "begin"}
  /\ Messages \subseteq {"hardware", "ping", "redirect", "garbled", "oversized", "unknown"}
  /\ MayHeal \in BOOLEAN /\ Paced \in BOOLEAN /\ MaxInbox \in Nat

VARIABLES
  (* the connection *)
  link,      \* "none" (!isConn), "up", or "lost" (the peer hung up)
  session,   \* the server's view of it; "reopened" is "new" without a login to come
  inbox,     \* messages that have arrived and are not read
  owed,      \* answers the server has still to give
  (* the object *)
  state,
  ageIn, ageOut, ageBeat, \* of lastActivityIn, -Out, and lastHeartbeat = lastLogin
  (* the control state *)
  pc, spent, \* where the client is, and for how long
  tconn,     \* the local of run()
  waiting,   \* "no", or the sketch is inside connect() or begin()
  ageStart,  \* of the local started of connect()
  (* the world *)
  healthy,   \* the network and the server do their job from now on
  sound,     \* they did so already when this connection was made
  ageTry,    \* how long ago the client last tried to log in
  excused    \* it was redirected since, or its login could not be written

wire    == <<link, session, inbox, owed>>
ages    == <<ageIn, ageOut, ageBeat>>
control == <<pc, spent, tconn>>
caller  == <<waiting, ageStart>>
world   == <<healthy, sound, ageTry, excused>>
vars    == <<wire, state, ages, control, caller, world>>

\* How long a live connection can be silent, see the properties.
Pause    == Max({Timeout, ConnectTime, HandlerTime}) \* in one run()
InBound  == Max({Heartbeat + 3 * Timeout + Gap + Max({Timeout, ConnectTime}), HandlerTime})
OutBound == Max({Heartbeat, Timeout}) + Gap + Pause

(***************************************************************************)
(* The ages are exact below their caps.                                    *)
(***************************************************************************)
InCap   == InBound + 1
BeatCap == Retry + 1
OutCap  == Max({BeatCap, OutBound + 1})

Older(age, cap) == IF age < cap THEN age + 1 ELSE cap
AtMost(age, cap) == Min({age, cap})

Places == {"idle", "input", "reading", "reopening", "info", "pong", "handler",
           "timers", "connecting"}

Answers == {"login", "ping", "deny"}

Message == {"ready", "refused", "denied", "answer", "hardware", "ping",
            "redirect", "garbled", "oversized", "unknown"}

FlagType ==
  /\ tconn \in BOOLEAN /\ healthy \in BOOLEAN /\ sound \in BOOLEAN
  /\ excused \in BOOLEAN

WireType ==
  /\ link \in {"none", "up", "lost"} /\ session \in {"new", "asked", "open", "reopened"}
  /\ inbox \in Seq(Message) /\ owed \subseteq Answers
  /\ link # "up" => inbox = <<>> /\ owed = {}

AgeType ==
  /\ ageIn \in 0 .. InCap /\ ageOut \in 0 .. OutCap /\ ageBeat \in 0 .. BeatCap
  /\ ageStart \in 0 .. ConnectTimeout /\ ageTry \in 0 .. BeatCap

ControlType ==
  /\ state \in {"CONNECTING", "CONNECTED", "DISCONNECTED"}
  /\ pc \in Places /\ spent \in Nat
  /\ waiting \in {"no", "once", "begin"}

TypeOK == FlagType /\ WireType /\ AgeType /\ ControlType

\* All time stamps are 0; millis() is anything when the sketch gets going.
Init ==
  /\ link = "none" /\ session = "new" /\ inbox = <<>> /\ owed = {}
  /\ state = "CONNECTING"
  /\ \E boot \in 0 .. Max({InCap, OutCap}) :
       /\ ageIn = AtMost(boot, InCap) /\ ageOut = AtMost(boot, OutCap)
       /\ ageBeat = AtMost(boot, BeatCap)
  /\ pc = "idle" /\ spent = 0 /\ tconn = FALSE
  /\ waiting = "no" /\ ageStart = 0
  /\ healthy = FALSE /\ sound = FALSE /\ ageTry = BeatCap /\ excused = FALSE

-----------------------------------------------------------------------------
(* Steps that several actions share *)

At(place) == pc' = place /\ spent' = 0

\* conn.disconnect()
Drop == link' = "none" /\ session' = "new" /\ inbox' = <<>> /\ owed' = {}

\* What a command makes the server answer.
Asks(cmd) ==
  IF cmd = "RESPONSE" THEN {}
  ELSE IF session # "open" THEN {"deny"}
  ELSE IF cmd = "PING" THEN {"ping"} ELSE {}

\* Commands other than responses and pings are for an open session only.
Skipped(cmd) == link # "up" \/ (cmd \notin {"RESPONSE", "PING"} /\ state # "CONNECTED")

\* A write is cut short, and the client hangs up.
WriteFails ==
  /\ ~healthy
  /\ Drop /\ state' = "CONNECTING"
  /\ UNCHANGED ageOut

\* "flood-error": the command is written, but the average time between two
\* (BlynkMsgLimit) has become too short.  That is a matter of how fast the
\* sketch sends and the server pings, and not of the network.  A login is not
\* cut off, as it starts the average at 1000 ms, if the limit is above 1.
FloodError ==
  /\ ~(healthy /\ Paced)
  /\ Drop /\ state' = "CONNECTING"
  /\ ageOut' = 0

\* Mutant: a command that is skipped brings the client back to connecting.
sendCmdRevives(cmd) ==
  \/ /\ Skipped(cmd)
     /\ state' = "CONNECTING" /\ UNCHANGED <<wire, ageOut>>
  \/ /\ ~Skipped(cmd)
     /\ ageOut' = 0 /\ owed' = owed \cup Asks(cmd)
     /\ UNCHANGED <<link, session, inbox, state>>
  \/ ~Skipped(cmd) /\ (WriteFails \/ FloodError)

\* sendCmd: the command is skipped; or written; or the client hangs up.
sendCmd(cmd) ==
  \/ /\ Skipped(cmd)
     /\ UNCHANGED <<wire, state, ageOut>>
  \/ /\ ~Skipped(cmd)
     /\ ageOut' = 0 /\ owed' = owed \cup Asks(cmd)
     /\ UNCHANGED <<link, session, inbox, state>>
  \/ ~Skipped(cmd) /\ (WriteFails \/ FloodError)

-----------------------------------------------------------------------------
(* The sketch *)

SketchRuns == pc = "handler" \/ (pc = "idle" /\ waiting = "no")

\* virtualWrite() and the other calls that end in sendCmd
SketchSend ==
  /\ SketchRuns
  /\ sendCmd("HARDWARE")
  /\ UNCHANGED <<ageIn, ageBeat, control, caller, world>>

SketchDisconnect ==
  /\ SketchRuns
  /\ Drop /\ state' = "DISCONNECTED"
  /\ UNCHANGED <<ages, control, caller, world>>

\* connect(), from the sketch itself or from begin(), up to its loop
SketchConnect ==
  /\ pc = "idle" /\ waiting = "no"
  /\ waiting' \in Calls /\ ageStart' = 0
  /\ Drop /\ state' = "CONNECTING"
  /\ UNCHANGED <<ages, control, world>>

\* connect() returns; begin() calls it again until it succeeds.
ConnectReturns ==
  /\ pc = "idle" /\ waiting # "no"
  /\ \/ /\ state = "CONNECTED" \/ (waiting = "once" /\ ageStart = ConnectTimeout)
        /\ waiting' = "no"
        /\ UNCHANGED <<wire, state, ageStart>>
     \/ /\ state # "CONNECTED" /\ waiting = "begin" /\ ageStart = ConnectTimeout
        /\ ageStart' = 0
        /\ Drop /\ state' = "CONNECTING"
        /\ UNCHANGED waiting
  /\ UNCHANGED <<ages, control, world>>

-----------------------------------------------------------------------------
(* run() up to the timers *)

\* Mutant: connect() measures its timeout from the last turn of its loop.
RunRestartsClock ==
  /\ pc = "idle" /\ state # "DISCONNECTED"
  /\ waiting # "no" => state # "CONNECTED" /\ ageStart < ConnectTimeout
  /\ tconn' = (link = "up")
  /\ At(IF link = "up" /\ inbox # <<>> THEN "input" ELSE "timers")
  /\ ageStart' = 0
  /\ UNCHANGED <<wire, state, ages, waiting, world>>

Run ==
  /\ pc = "idle" /\ state # "DISCONNECTED"
  /\ waiting # "no" => state # "CONNECTED" /\ ageStart < ConnectTimeout
  /\ tconn' = (link = "up")
  /\ At(IF link = "up" /\ inbox # <<>> THEN "input" ELSE "timers")
  /\ UNCHANGED <<wire, state, ages, caller, world>>

Reads(m) == pc = "input" /\ inbox # <<>> /\ Head(inbox) = m

\* The link went down since: nothing is left to read, or part of a message.
InputGone ==
  /\ pc = "input" /\ inbox = <<>>
  /\ At("timers") \/ At("reading")
  /\ UNCHANGED <<wire, state, ages, tconn, caller, world>>

Pop == inbox' = Tail(inbox) /\ UNCHANGED <<link, session, owed>>

\* processInput returned false: run() hangs up and leaves the state alone.
Fail ==
  /\ Drop /\ At("idle")
  /\ UNCHANGED <<state, tconn, caller, world>>

\* Mutant: any answer to the login opens the session.
ReadReadyAny ==
  /\ Reads("ready") \/ Reads("refused")
  /\ Pop
  /\ ageIn' = 0
  /\ IF state = "CONNECTING"
     THEN ageBeat' = 0 /\ state' = "CONNECTED" /\ At("info")
     ELSE At("timers") /\ UNCHANGED <<ageBeat, state>>
  /\ UNCHANGED <<ageOut, tconn, caller, world>>

ReadReady ==
  /\ Reads("ready")
  /\ Pop
  /\ ageIn' = 0
  /\ IF state = "CONNECTING"
     THEN ageBeat' = 0 /\ state' = "CONNECTED" /\ At("info")
     ELSE At("timers") /\ UNCHANGED <<ageBeat, state>>
  /\ UNCHANGED <<ageOut, tconn, caller, world>>

\* Mutant: BLYNK_NOT_AUTHENTICATED is no error.
ReadRefusalIgnored ==
  \/ Reads("refused") /\ Fail /\ ageIn' = 0 /\ UNCHANGED <<ageOut, ageBeat>>
  \/ /\ Reads("denied")
     /\ Pop
     /\ ageIn' = 0
     /\ At("timers")
     /\ UNCHANGED <<state, ageOut, ageBeat, tconn, caller, world>>

ReadRefusal ==
  /\ Reads("refused") \/ Reads("denied")
  /\ ageIn' = 0
  /\ Fail
  /\ UNCHANGED <<ageOut, ageBeat>>

ReadAnswer ==
  /\ Reads("answer")
  /\ Pop
  /\ ageIn' = 0
  /\ At("timers")
  /\ UNCHANGED <<state, ageOut, ageBeat, tconn, caller, world>>

\* The header or the body does not come in full: readBytes() waits.
ReadGarbled ==
  /\ Reads("garbled")
  /\ Pop /\ At("reading")
  /\ UNCHANGED <<state, ages, tconn, caller, world>>

ReadingEnds ==
  /\ pc = "reading"
  /\ Fail
  /\ UNCHANGED ages

\* A message too long or of unknown type: conn.connect(), and nothing else.
ReadOdd ==
  /\ Reads("oversized") \/ Reads("unknown")
  /\ ageIn' = IF Head(inbox) = "unknown" THEN 0 ELSE ageIn
  /\ Drop /\ At("reopening")
  /\ UNCHANGED <<state, ageOut, ageBeat, tconn, caller, world>>

Reopened ==
  /\ pc = "reopening"
  /\ link' \in IF healthy THEN {"up"} ELSE {"up", "none"}
  /\ session' = "reopened"
  /\ At("timers")
  /\ UNCHANGED <<inbox, owed, state, ages, tconn, caller, world>>

ReadPing ==
  /\ Reads("ping")
  /\ Pop
  /\ ageIn' = 0
  /\ At("pong")
  /\ UNCHANGED <<state, ageOut, ageBeat, tconn, caller, world>>

Pong ==
  /\ pc = "pong"
  /\ sendCmd("RESPONSE")
  /\ At("timers")
  /\ UNCHANGED <<ageIn, ageBeat, tconn, caller, world>>

\* "Reconnect immediately"
ReadRedirect ==
  /\ Reads("redirect")
  /\ ageIn' = 0 /\ ageBeat' = Retry
  /\ Drop /\ state' = "CONNECTING"
  /\ excused' = TRUE
  /\ At("timers")
  /\ UNCHANGED <<ageOut, tconn, caller, healthy, sound, ageTry>>

ReadHardware ==
  /\ Reads("hardware")
  /\ Pop
  /\ ageIn' = 0
  /\ At("handler")
  /\ UNCHANGED <<state, ageOut, ageBeat, tconn, caller, world>>

\* sendInfo(), then BlynkOnConnected()
SendInfo ==
  /\ pc = "info"
  /\ sendCmd("INFO")
  /\ At("handler")
  /\ UNCHANGED <<ageIn, ageBeat, tconn, caller, world>>

HandlerReturns ==
  /\ pc = "handler"
  /\ At("timers")
  /\ UNCHANGED <<wire, state, ages, tconn, caller, world>>

-----------------------------------------------------------------------------
(* The timers of run() *)

\* Mutant: the client takes its own commands for signs of life.
OverdueByOut == ageOut > Heartbeat + 3 * Timeout

Overdue == ageIn > Heartbeat + 3 * Timeout

\* Mutants: only one of the two silences makes a ping due.
PingDueByOut == ageOut > Heartbeat /\ ageBeat > Timeout
PingDueByIn  == ageIn > Heartbeat /\ ageBeat > Timeout

PingDue == (ageIn > Heartbeat \/ ageOut > Heartbeat) /\ ageBeat > Timeout

LinkGone ==
  /\ pc = "timers" /\ state = "CONNECTED" /\ ~tconn
  /\ state' = "CONNECTING" /\ ageBeat' = 0
  /\ At("idle")
  /\ UNCHANGED <<wire, ageIn, ageOut, tconn, caller, world>>

HeartbeatTimeout ==
  /\ pc = "timers" /\ state = "CONNECTED" /\ tconn /\ Overdue
  /\ Drop /\ state' = "CONNECTING"
  /\ At("idle")
  /\ UNCHANGED <<ages, tconn, caller, world>>

Ping ==
  /\ pc = "timers" /\ state = "CONNECTED" /\ tconn /\ ~Overdue /\ PingDue
  /\ sendCmd("PING")
  /\ ageBeat' = 0
  /\ At("idle")
  /\ UNCHANGED <<ageIn, tconn, caller, world>>

LoginTimeout ==
  /\ pc = "timers" /\ state = "CONNECTING" /\ tconn /\ ageBeat > Timeout
  /\ Drop
  /\ At("idle")
  /\ UNCHANGED <<state, ages, tconn, caller, world>>

RetryDue == state = "CONNECTING" /\ ~tconn /\ ageBeat > Retry

Reconnect ==
  /\ pc = "timers" /\ RetryDue
  /\ Drop
  /\ ageTry' = 0 /\ excused' = FALSE
  /\ At("connecting")
  /\ UNCHANGED <<state, ages, tconn, caller, healthy, sound>>

NothingDue ==
  /\ pc = "timers"
  /\ \/ state = "DISCONNECTED"
     \/ state = "CONNECTED" /\ tconn /\ ~Overdue /\ ~PingDue
     \/ state = "CONNECTING" /\ (tconn => ageBeat <= Timeout) /\ ~RetryDue
  /\ At("idle")
  /\ UNCHANGED <<wire, state, ages, tconn, caller, world>>

\* Mutant: a failed attempt is not noted.
ConnectFailsUnnoted ==
  /\ pc = "connecting" /\ ~healthy
  /\ At("idle")
  /\ UNCHANGED <<wire, state, ages, tconn, caller, world>>

\* conn.connect() failed; t was read before it.
ConnectFails ==
  /\ pc = "connecting" /\ ~healthy
  /\ ageBeat' = AtMost(spent, BeatCap)
  /\ At("idle")
  /\ UNCHANGED <<wire, state, ageIn, ageOut, tconn, caller, world>>

\* Mutant: the login is written and not noted.
LoginSentUnnoted ==
  /\ pc = "connecting"
  /\ link' = "up" /\ session' = "asked" /\ owed' = {"login"}
  /\ ageOut' = 0 /\ UNCHANGED ageBeat
  /\ sound' = healthy
  /\ At("idle")
  /\ UNCHANGED <<inbox, state, ageIn, tconn, caller, healthy, ageTry, excused>>

LoginSent ==
  /\ pc = "connecting"
  /\ link' = "up" /\ session' = "asked" /\ owed' = {"login"}
  /\ ageOut' = 0 /\ ageBeat' = 0
  /\ sound' = healthy
  /\ At("idle")
  /\ UNCHANGED <<inbox, state, ageIn, tconn, caller, healthy, ageTry, excused>>

\* The peer hung up at once and the login was skipped, or its write failed:
\* lastLogin becomes the time of an older command.
LoginNotSent ==
  /\ pc = "connecting" /\ ~healthy
  /\ link' \in {"lost", "none"}
  /\ ageBeat' = AtMost(ageOut, BeatCap)
  /\ excused' = TRUE
  /\ At("idle")
  /\ UNCHANGED <<session, inbox, owed, state, ageIn, ageOut, tconn, caller, healthy, sound, ageTry>>

-----------------------------------------------------------------------------
(* The server, the network and the clock *)

Answered(a) ==
  CASE a = "login" -> IF healthy THEN {"ready"} ELSE {"ready", "refused"}
    [] a = "ping"  -> {"answer"}
    [] a = "deny"  -> {"denied"}

ServerAnswers ==
  /\ link = "up" /\ Len(inbox) <= MaxInbox
  /\ \E a \in owed : \E m \in Answered(a) :
       /\ owed' = owed \ {a}
       /\ inbox' = Append(inbox, m)
       /\ session' = IF m = "ready" THEN "open" ELSE session
  /\ UNCHANGED <<link, state, ages, control, caller, world>>

Odd == {"redirect", "garbled", "oversized", "unknown"}

\* A redirect comes before the session is open as well.
ServerSends ==
  /\ link = "up" /\ Len(inbox) < MaxInbox
  /\ \E m \in Messages :
       /\ m \in Odd => ~healthy
       /\ session = "open" \/ (session = "asked" /\ m \in {"redirect", "garbled"})
       /\ inbox' = Append(inbox, m)
  /\ UNCHANGED <<link, session, owed, state, ages, control, caller, world>>

PeerCloses ==
  /\ link = "up" /\ ~healthy
  /\ link' = "lost" /\ inbox' = <<>> /\ owed' = {}
  /\ UNCHANGED <<session, state, ages, control, caller, world>>

\* From here on connections and writes succeed, and the server answers at
\* once, accepts the login and sends nothing out of the ordinary.
Heal ==
  /\ MayHeal /\ ~healthy
  /\ healthy' = TRUE
  /\ UNCHANGED <<wire, state, ages, control, caller, sound, ageTry, excused>>

Limit ==
  CASE pc = "idle"                      -> Gap
    [] pc = "reading"                   -> Timeout
    [] pc \in {"reopening", "connecting"} -> ConnectTime
    [] pc = "handler"                   -> HandlerTime
    [] OTHER                            -> 0

Tick ==
  /\ spent < Limit \/ (pc = "idle" /\ state = "DISCONNECTED")
  /\ healthy /\ link = "up" => owed = {}
  /\ spent' = Older(spent, Limit)
  /\ ageIn' = Older(ageIn, InCap) /\ ageOut' = Older(ageOut, OutCap)
  /\ ageBeat' = Older(ageBeat, BeatCap) /\ ageTry' = Older(ageTry, BeatCap)
  /\ ageStart' = IF waiting = "no" THEN ageStart ELSE Older(ageStart, ConnectTimeout)
  /\ UNCHANGED <<wire, state, pc, tconn, waiting, healthy, sound, excused>>

Sketch == SketchSend \/ SketchDisconnect \/ SketchConnect

Input ==
  \/ InputGone \/ ReadReady \/ ReadRefusal \/ ReadAnswer \/ ReadGarbled
  \/ ReadOdd \/ ReadPing \/ ReadRedirect \/ ReadHardware
  \/ ReadingEnds \/ Reopened \/ Pong \/ SendInfo

Timers ==
  \/ LinkGone \/ HeartbeatTimeout \/ Ping \/ LoginTimeout \/ Reconnect \/ NothingDue

Connecting == ConnectFails \/ LoginSent \/ LoginNotSent

Client == Run \/ Input \/ HandlerReturns \/ Timers \/ Connecting \/ ConnectReturns

Server == ServerAnswers \/ ServerSends

Next == Sketch \/ Client \/ Server \/ PeerCloses \/ Heal \/ Tick

Spec == Init /\ [][Next]_vars

(***************************************************************************)
(* The processor runs and handlers return; time goes on, which the spins   *)
(* of connect() do not stop; and a server that has an answer gives it.     *)
(***************************************************************************)
FairSpec == Spec /\ WF_vars(Client) /\ SF_vars(Tick) /\ WF_vars(ServerAnswers)

-----------------------------------------------------------------------------
(* Properties *)

Up == state = "CONNECTED" /\ link = "up"

\* run(), "Heartbeat timeout": the client gives up a peer from which it has
\* read nothing for so long.
DeadPeerDetected == Up => ageIn <= InBound

\* run(), "Send ping if we didn't either send or receive something for
\* BLYNK_HEARTBEAT seconds": the server hears from a live client in time.
KeepAlive == Up => ageOut <= OutBound

\* processInput: the client takes itself for connected on a live link only
\* when the server accepted its login on that very link, or when a message of
\* odd type or length made it reconnect without a login: see Recovers.
SessionOpen == Up => session \in {"open", "reopened"}

\* BlynkApi.h, disconnect(): "It will not try to reconnect, until connect()
\* is called", whatever run() was doing when a handler called it.
DisconnectSticks ==
  [][ state = "DISCONNECTED" =>
        /\ link' = "none"
        /\ state' = "DISCONNECTED" \/ (pc = "idle" /\ waiting' # "no") ]_vars

\* run(), "t - lastLogin > 5000UL": two attempts to log in are so far apart
\* whatever ended the first, unless it was a redirect or an unwritten login.
Backoff ==
  [][ pc = "timers" /\ pc' = "connecting" => ageTry > Retry \/ excused ]_vars

\* With a server that answers at once, and commands that keep to the message
\* limit (Paced), the client never hangs up by itself: one message per run()
\* and a check of the timer before the answer to a ping is read are enough.
StaysConnected ==
  [][ Up /\ sound => Up' \/ SketchDisconnect \/ SketchConnect ]_vars

\* BlynkApi.h, connect(): "Blocks until connected or timeout happens."
ConnectReturnsInTime == waiting = "once" ~> waiting = "no"

\* begin() comes to an end when the server can be reached and no handler sends
\* too fast (Paced).
BeginSucceeds ==
  healthy /\ waiting = "begin" ~> waiting = "no" \/ state = "DISCONNECTED"

\* Whatever happened before, once the server can be reached the client gets
\* back to an open session by calls of run() alone.
Recovers ==
  healthy ~> (Up /\ session = "open") \/ state = "DISCONNECTED" \/ waiting # "no"

\* BlynkApi.h, connected(): "True if connected to the server"
ConnectedMeansLink == pc = "idle" /\ state = "CONNECTED" => link # "none"

-----------------------------------------------------------------------------
(* The inductive invariant *)

\* There is a connection, or run() is opening it again.
Live == link = "up" \/ pc = "reopening"

\* What the place in run() says about the link and the state.
ControlOK ==
  /\ spent <= Limit
  /\ pc \in {"connecting", "reopening"} => link = "none"
  /\ pc = "connecting" => state = "CONNECTING"
  /\ pc = "info" => state = "CONNECTED"
  /\ pc = "input" /\ link = "up" => inbox # <<>>
  /\ pc \in {"input", "reading", "reopening", "info", "pong", "handler"} => tconn
  /\ pc = "timers" /\ ~tconn => link # "up"
  /\ state = "DISCONNECTED" => link = "none" /\ pc \in {"idle", "handler", "timers"}

\* A login that was accepted is noted by the server, read or not.
SessionOK ==
  /\ \A i \in 1 .. Len(inbox) : inbox[i] = "ready" => session = "open"
  /\ SessionOpen

\* What is left of the server's time, place by place.
InOK ==
  Live /\ state = "CONNECTED" =>
    /\ pc = "idle" => ageIn <= Heartbeat + 3 * Timeout + spent
    /\ pc \in {"input", "reading", "reopening"} =>
         ageIn <= Heartbeat + 3 * Timeout + Gap + spent
    /\ pc \in {"info", "pong", "handler"} => ageIn <= spent
    /\ pc = "timers" => ageIn <= InBound

\* What is left of the client's, which starts before the login is accepted.
OutOK ==
  Live =>
    /\ pc # "info" /\ ageBeat <= Retry => ageOut <= ageBeat
    /\ pc = "idle" => ageOut <= Max({Heartbeat, Timeout}) + spent
    /\ pc \notin {"idle", "timers"} => ageOut <= Max({Heartbeat, Timeout}) + Gap + spent
    /\ pc = "timers" => ageOut <= OutBound

\* lastLogin is no older than the last attempt.
BackoffOK ==
  ~excused => IF pc = "connecting" THEN AtMost(spent, BeatCap) <= ageTry
                                   ELSE ageBeat <= ageTry

\* Together they are kept by every step, see BlynkProtocolProofs: what each
\* place in run() knows of the link, the session and the three silences.
IInv == TypeOK /\ ControlOK /\ SessionOK /\ InOK /\ OutOK /\ BackoffOK
=============================================================================
