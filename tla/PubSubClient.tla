---------------------------- MODULE PubSubClient ----------------------------
(***************************************************************************)
(* The MQTT client of pubsubclient/src/PubSubClient.cpp, the sketch that   *)
(* calls it, the transport under it and the broker at the other end.       *)
(*                                                                         *)
(* The client is one object driven by one thread.  Its calls block: they   *)
(* wait for bytes (connect, readByte) and they call the sketch back in the *)
(* middle of loop().  Every point where a call waits or calls out is a     *)
(* control location (pc), and the network, the broker and the clock move   *)
(* while the client is there.  A call that does not wait is one action.    *)
(*                                                                         *)
(* Time is counted in seconds.  The code takes differences of unsigned     *)
(* millis() values, which the wrap of the counter leaves intact, so a      *)
(* natural number that never wraps stands for the clock.                   *)
(***************************************************************************)
EXTENDS Integers, Sequences

CONSTANTS
  KeepAlive,      \* MQTT_KEEPALIVE
  SocketTimeout,  \* MQTT_SOCKET_TIMEOUT, the longest wait for one byte
  Stalls,         \* bytes of a packet, after the first, that may be late
  LoopGap,        \* longest time the sketch leaves between two calls of loop()
  CallbackTime,   \* longest time a callback runs by itself
  IdSpace,        \* packet ids are uint16_t: 2^16 in the code
  HasCallback,    \* setCallback was called
  HasStream,      \* setStream was called
  WriteMayFail,   \* _client->write may fail while the link stays up
  CallbackMayReconnect, \* the sketch may call connect() in its callback
  Prompt,         \* the peer answers at once and never stalls or hangs up
  MaxInbox,       \* bound: packets the broker has under way
  MaxTime         \* bound: the clock stops here

ASSUME DurationsAssumption ==
  /\ KeepAlive \in Nat /\ SocketTimeout \in Nat \ {0} /\ Stalls \in Nat
  /\ LoopGap \in Nat /\ CallbackTime \in Nat
ASSUME IdSpaceAssumption == IdSpace \in Nat /\ IdSpace > 1
ASSUME SwitchesAssumption ==
  /\ HasCallback \in BOOLEAN /\ HasStream \in BOOLEAN
  /\ WriteMayFail \in BOOLEAN /\ CallbackMayReconnect \in BOOLEAN
  /\ Prompt \in BOOLEAN
ASSUME BoundsAssumption == MaxInbox \in Nat /\ MaxTime \in Nat

VARIABLES
  (* the transport *)
  up,         \* _client->connected()
  inbox,      \* packets on their way to the client, in order
  outbox,     \* packets the broker has still to answer
  stalled,    \* the next byte of Head(inbox) has not arrived
  aligned,    \* the next byte to read is the first of a packet
  (* the fields of the object *)
  state, pingOutstanding, lastInActivity, lastOutActivity, nextMsgId,
  buffer,     \* the packet id in the shared buffer during a callback, else 0
  (* the control state *)
  pc, since,  \* where the client is, and when it last got there
  got,        \* bytes of the current packet read after the first, else 0
  t, msgId,   \* the locals of loop() across its waits and its callback, else 0
  nested,     \* a callback is running and is inside connect()
  now,        \* millis()
  (* the broker's session, and what really happened on the link *)
  unacked,    \* ids of QoS 1 messages the broker keeps until their PUBACK
  pending,    \* the id the running callback is handling, on this connection
  handled,    \* ids whose callback has returned on this connection
  lastSent, lastRead, \* when a packet last left, or was last read whole
  intact      \* no write has failed on this connection

transport == <<up, inbox, outbox, stalled, aligned>>
timers    == <<lastInActivity, lastOutActivity>>
object    == <<state, pingOutstanding, timers, nextMsgId, buffer>>
control   == <<pc, since, got, t, msgId, nested>>
session   == <<unacked, pending, handled>>
truth     == <<lastSent, lastRead, intact>>
vars      == <<transport, object, control, now, session, truth>>

MsgId   == 1 .. IdSpace - 1
States  == {"DISCONNECTED", "CONNECTED", "TIMEOUT", "LOST", "FAILED", "REFUSED"}
Places  == {"idle", "connecting", "connack", "reading", "callback"}

(***************************************************************************)
(* Packets that reach the client.  id is the packet id of a QoS 1 PUBLISH, *)
(* 0 in one of QoS 0; in a CONNACK it is the return code.  BIG is a        *)
(* PUBLISH that does not fit MQTT_MAX_PACKET_SIZE; OTHER is every packet   *)
(* loop() reads and ignores (SUBACK, UNSUBACK).                            *)
(***************************************************************************)
Packet ==
  [type : {"CONNACK"}, id : {0, 1}]
    \cup [type : {"PUBLISH", "BIG"}, id : 0 .. IdSpace - 1]
    \cup [type : {"PINGREQ", "PINGRESP", "OTHER"}, id : {0}]

Connack(code) == [type |-> "CONNACK", id |-> code]
PingResp      == [type |-> "PINGRESP", id |-> 0]
Other         == [type |-> "OTHER", id |-> 0]

(***************************************************************************)
(* Once a read has given up in the middle of a packet, what the client     *)
(* takes for a packet is any bytes at all.                                 *)
(***************************************************************************)
NextPackets == IF aligned THEN {Head(inbox)} ELSE Packet
AfterRead   == IF aligned THEN {Tail(inbox)} ELSE {inbox, Tail(inbox)}

Available == up /\ inbox # <<>> /\ ~stalled

InCall  == pc \in {"connack", "reading"}  \* inside readPacket
CanCall == pc \in {"idle", "callback"}    \* the sketch is running

FlagType ==
  /\ up \in BOOLEAN /\ stalled \in BOOLEAN /\ aligned \in BOOLEAN
  /\ pingOutstanding \in BOOLEAN /\ nested \in BOOLEAN /\ intact \in BOOLEAN

QueueType ==
  inbox \in Seq(Packet) /\ outbox \in Seq({"CONNECT", "PINGREQ"})

TimeType ==
  /\ now \in Nat /\ since \in Nat /\ t \in Nat
  /\ lastInActivity \in Nat /\ lastOutActivity \in Nat
  /\ lastSent \in Nat /\ lastRead \in Nat

ControlType ==
  /\ state \in States /\ pc \in Places /\ got \in 0 .. Stalls
  /\ nextMsgId \in MsgId
  /\ buffer \in 0 .. IdSpace - 1 /\ msgId \in 0 .. IdSpace - 1

SetType ==
  unacked \subseteq MsgId /\ pending \subseteq MsgId /\ handled \subseteq MsgId

TypeOK == FlagType /\ QueueType /\ TimeType /\ ControlType /\ SetType

Init ==
  /\ up = FALSE /\ inbox = <<>> /\ outbox = <<>>
  /\ stalled = FALSE /\ aligned = TRUE
  /\ state = "DISCONNECTED" /\ pingOutstanding = FALSE
  /\ lastInActivity = 0 /\ lastOutActivity = 0
  /\ nextMsgId = 1 /\ buffer = 0
  /\ pc = "idle" /\ since = 0 /\ got = 0 /\ t = 0 /\ msgId = 0 /\ nested = FALSE
  /\ now = 0
  /\ unacked = {} /\ pending = {} /\ handled = {}
  /\ lastSent = 0 /\ lastRead = 0 /\ intact = TRUE

-----------------------------------------------------------------------------
(* Helpers *)

\* What _client->write may report: it cannot succeed on a dead link.
WriteOutcomes == {ok \in BOOLEAN : IF ok THEN up ELSE WriteMayFail \/ ~up}

\* The bytes of one packet are handed to the transport.
Wrote(ok) ==
  /\ lastSent' = IF ok THEN now ELSE lastSent
  /\ intact' = (intact /\ ok)

\* The same for a packet the broker answers.
WroteRequest(ok, p) ==
  /\ Wrote(ok)
  /\ outbox' = IF ok THEN Append(outbox, p) ELSE outbox

\* _client->stop()
Stop ==
  /\ up' = FALSE /\ inbox' = <<>> /\ outbox' = <<>>
  /\ stalled' = FALSE /\ aligned' = TRUE

\* connected() finds the link down.
Lose == state' = IF state = "CONNECTED" THEN "LOST" ELSE state

\* The 16-bit counter of subscribe and unsubscribe, which skips 0.
NextId(id) == IF (id + 1) % IdSpace = 0 THEN 1 ELSE (id + 1) % IdSpace

\* Mutants: one of the two timers is not consulted; >= instead of >.
ExpiredByReadsOnly == now - lastInActivity > KeepAlive
ExpiredByWritesOnly == now - lastOutActivity > KeepAlive
ExpiredTooEarly ==
  now - lastInActivity >= KeepAlive \/ now - lastOutActivity >= KeepAlive

\* loop() decides that the link has been silent for too long.
KeepAliveExpired ==
  now - lastInActivity > KeepAlive \/ now - lastOutActivity > KeepAlive

\* Where connect() returns to.
BackFromConnect ==
  /\ pc' = IF nested THEN "callback" ELSE "idle"
  /\ nested' = FALSE /\ got' = 0
  /\ since' = now

\* loop() returns, and its locals are gone.
BackFromLoop ==
  /\ pc' = "idle" /\ since' = now
  /\ got' = 0 /\ t' = 0 /\ msgId' = 0

-----------------------------------------------------------------------------
(* connect() *)

\* connected() is false and the TCP connection cannot be opened.
ConnectFails ==
  /\ CanCall /\ (pc = "callback" => CallbackMayReconnect)
  /\ ~up
  /\ state' = "FAILED"
  /\ IF state = "CONNECTED" THEN Stop ELSE UNCHANGED transport
  /\ UNCHANGED <<pingOutstanding, timers, nextMsgId, buffer, control, now,
                 session, truth>>

\* The TCP connection opens and CONNECT is written.  The broker starts a
\* clean session: the flag is part of every CONNECT.
Connect ==
  /\ CanCall /\ (pc = "callback" => CallbackMayReconnect)
  /\ ~up
  /\ Lose
  /\ up' = TRUE /\ inbox' = <<>> /\ stalled' = FALSE /\ aligned' = TRUE
  /\ \E ok \in IF WriteMayFail THEN BOOLEAN ELSE {TRUE} :
       /\ outbox' = IF ok THEN <<"CONNECT">> ELSE <<>>
       /\ lastSent' = IF ok THEN now ELSE lastSent
       /\ intact' = ok
  /\ nextMsgId' = 1 /\ buffer' = 0
  /\ lastInActivity' = now /\ lastOutActivity' = now
  /\ nested' = (pc = "callback")
  /\ pc' = "connecting" /\ since' = now
  /\ unacked' = {} /\ pending' = {} /\ handled' = {}
  /\ UNCHANGED <<pingOutstanding, got, t, msgId, now, lastRead>>

\* while (!_client->available()) gives up.
ConnectTimeout ==
  /\ pc = "connecting" /\ ~Available
  /\ now - lastInActivity >= SocketTimeout
  /\ state' = "TIMEOUT"
  /\ Stop
  /\ BackFromConnect
  /\ UNCHANGED <<pingOutstanding, timers, nextMsgId, buffer, t, msgId, now,
                 session, truth>>

\* The first byte of the answer is there.
ConnectAvailable ==
  /\ pc = "connecting" /\ Available
  /\ pc' = "connack" /\ since' = now
  /\ UNCHANGED <<transport, object, got, t, msgId, nested, now, session, truth>>

\* readPacket returned a whole packet; only a CONNACK is four bytes long.
ConnackRead ==
  /\ pc = "connack" /\ got = Stalls
  /\ BackFromConnect
  /\ lastRead' = now
  /\ IF Head(inbox) = Connack(0)
     THEN /\ state' = "CONNECTED" /\ pingOutstanding' = FALSE
          /\ lastInActivity' = now
          /\ inbox' = Tail(inbox)
          /\ UNCHANGED <<up, outbox, stalled, aligned>>
     ELSE /\ state' = IF Head(inbox).type = "CONNACK" THEN "REFUSED" ELSE state
          /\ Stop
          /\ UNCHANGED <<pingOutstanding, lastInActivity>>
  /\ UNCHANGED <<lastOutActivity, nextMsgId, buffer, t, msgId, now, session,
                 lastSent, intact>>

\* Mutant: connect() returns without closing the connection.
ConnackStallLeftOpen ==
  /\ pc = "connack" /\ stalled /\ now - since >= SocketTimeout
  /\ BackFromConnect
  /\ UNCHANGED <<transport, object, t, msgId, now, session, truth>>

\* A byte of the answer did not come: readPacket returns 0, _state stays.
ConnackStall ==
  /\ pc = "connack" /\ stalled /\ now - since >= SocketTimeout
  /\ Stop
  /\ BackFromConnect
  /\ UNCHANGED <<object, t, msgId, now, session, truth>>

-----------------------------------------------------------------------------
(* loop() *)

\* connected() is false: loop(), publish(), subscribe() and connected() alike.
NotConnected ==
  /\ CanCall /\ ~up /\ state = "CONNECTED"
  /\ Lose /\ Stop
  /\ UNCHANGED <<pingOutstanding, timers, nextMsgId, buffer, control, now,
                 session, truth>>

\* Mutant: the connection that timed out is not closed.
LoopTimeoutLeftOpen ==
  /\ pc = "idle" /\ up
  /\ KeepAliveExpired /\ pingOutstanding
  /\ state' = "TIMEOUT"
  /\ since' = now
  /\ UNCHANGED <<transport, pingOutstanding, timers, nextMsgId, buffer, pc, got, t,
                 msgId, nested, now, session, truth>>

LoopTimeout ==
  /\ pc = "idle" /\ up
  /\ KeepAliveExpired /\ pingOutstanding
  /\ state' = "TIMEOUT"
  /\ Stop
  /\ since' = now
  /\ UNCHANGED <<pingOutstanding, timers, nextMsgId, buffer, pc, got, t, msgId,
                 nested, now, session, truth>>

\* The ping, when one is due.
Ping ==
  /\ \E ok \in WriteOutcomes : WroteRequest(ok, "PINGREQ")
  /\ lastOutActivity' = now /\ lastInActivity' = now
  /\ pingOutstanding' = TRUE

\* loop() up to the first wait of readPacket, or to its end when no byte is
\* available.
Loop ==
  /\ pc = "idle" /\ up
  /\ IF KeepAliveExpired
     THEN ~pingOutstanding /\ Ping
     ELSE UNCHANGED <<outbox, lastSent, intact, timers, pingOutstanding>>
  /\ IF Available THEN pc' = "reading" /\ t' = now
                  ELSE UNCHANGED <<pc, t>>
  /\ since' = now
  /\ UNCHANGED <<up, inbox, stalled, aligned, state, nextMsgId, buffer, got, msgId,
                 nested, now, session, lastRead>>

\* One more byte of the packet.
ReadByte ==
  /\ InCall /\ ~stalled /\ got < Stalls
  /\ got' = got + 1 /\ since' = now
  /\ UNCHANGED <<transport, object, pc, t, msgId, nested, now, session, truth>>

\* readByte gives up: loop() ignores the packet and returns, the connection
\* stays open and the rest of the packet is still to come.
LoopStall ==
  /\ pc = "reading" /\ stalled /\ now - since >= SocketTimeout
  /\ aligned' = FALSE
  /\ BackFromLoop
  /\ UNCHANGED <<up, inbox, outbox, stalled, object, nested, now, session, truth>>

\* readPacket has read all of packet p.
ReadWhole(p) ==
  /\ pc = "reading" /\ got = Stalls
  /\ p \in NextPackets
  /\ inbox' \in AfterRead
  /\ UNCHANGED <<up, stalled, aligned, state, nextMsgId, nested, now, unacked,
                 handled>>

\* len is 0 for a packet that does not fit the buffer.
LoopOversized(p) ==
  /\ ReadWhole(p) /\ p.type = "BIG" /\ ~HasStream
  /\ BackFromLoop
  /\ UNCHANGED <<outbox, pingOutstanding, timers, buffer, pending, truth>>

LoopPublish(p) ==
  /\ ReadWhole(p)
  /\ p.type = "PUBLISH" \/ (p.type = "BIG" /\ HasStream)
  /\ lastInActivity' = t /\ lastRead' = now
  /\ IF HasCallback
     THEN /\ pc' = "callback" /\ since' = now /\ got' = 0
          /\ msgId' = p.id /\ buffer' = p.id
          /\ pending' = IF aligned THEN {p.id} \ {0} ELSE {}
          /\ UNCHANGED t
     ELSE BackFromLoop /\ UNCHANGED <<buffer, pending>>
  /\ UNCHANGED <<outbox, pingOutstanding, lastOutActivity, lastSent, intact>>

\* PINGREQ is answered without touching lastOutActivity.
LoopPingReq(p) ==
  /\ ReadWhole(p) /\ p.type = "PINGREQ"
  /\ lastInActivity' = t /\ lastRead' = now
  /\ \E ok \in WriteOutcomes : Wrote(ok)
  /\ BackFromLoop
  /\ UNCHANGED <<outbox, pingOutstanding, lastOutActivity, buffer, pending>>

LoopPingResp(p) ==
  /\ ReadWhole(p) /\ p.type = "PINGRESP"
  /\ lastInActivity' = t /\ lastRead' = now
  /\ pingOutstanding' = FALSE
  /\ BackFromLoop
  /\ UNCHANGED <<outbox, lastOutActivity, buffer, pending, lastSent, intact>>

\* Mutant: any packet counts as the answer to the ping.
LoopOtherClearsPing(p) ==
  /\ ReadWhole(p) /\ p.type \in {"OTHER", "CONNACK"}
  /\ lastInActivity' = t /\ lastRead' = now
  /\ pingOutstanding' = FALSE
  /\ BackFromLoop
  /\ UNCHANGED <<outbox, lastOutActivity, buffer, pending, lastSent, intact>>

LoopOther(p) ==
  /\ ReadWhole(p) /\ p.type \in {"OTHER", "CONNACK"}
  /\ lastInActivity' = t /\ lastRead' = now
  /\ BackFromLoop
  /\ UNCHANGED <<outbox, pingOutstanding, lastOutActivity, buffer, pending,
                 lastSent, intact>>

\* Mutant: the id is taken from the buffer after the callback.
AckIdFromBuffer == buffer

\* The callback returns and a QoS 1 message is acknowledged, from the copy
\* of the id that loop() took before the callback could overwrite buffer.
AckId == msgId

CallbackReturn ==
  /\ pc = "callback"
  /\ BackFromLoop /\ buffer' = 0
  /\ handled' = handled \cup pending /\ pending' = {}
  /\ IF msgId # 0
     THEN /\ \E ok \in WriteOutcomes :
               /\ Wrote(ok)
               /\ unacked' = IF ok THEN unacked \ {AckId} ELSE unacked
          /\ lastOutActivity' = t
     ELSE UNCHANGED <<unacked, lastOutActivity, lastSent, intact>>
  /\ UNCHANGED <<transport, state, pingOutstanding, lastInActivity, nextMsgId,
                 nested, now, lastRead>>

-----------------------------------------------------------------------------
(* The other calls of the sketch, from its loop or from its callback *)

Publish ==
  /\ CanCall /\ up
  /\ \E ok \in WriteOutcomes : Wrote(ok)
  /\ lastOutActivity' = now /\ buffer' = 0
  /\ UNCHANGED <<transport, state, pingOutstanding, lastInActivity, nextMsgId,
                 control, now, session, lastRead>>

\* subscribe() and unsubscribe()
Subscribe ==
  /\ CanCall /\ up
  /\ \E ok \in WriteOutcomes : Wrote(ok)
  /\ nextMsgId' = NextId(nextMsgId)
  /\ buffer' = IF pc = "callback" THEN nextMsgId' ELSE 0
  /\ lastOutActivity' = now
  /\ UNCHANGED <<transport, state, pingOutstanding, lastInActivity, control, now,
                 session, lastRead>>

Disconnect ==
  /\ CanCall
  /\ \E ok \in WriteOutcomes : Wrote(ok)
  /\ state' = "DISCONNECTED"
  /\ Stop
  /\ lastInActivity' = now /\ lastOutActivity' = now /\ buffer' = 0
  /\ UNCHANGED <<pingOutstanding, nextMsgId, control, now, session, lastRead>>

-----------------------------------------------------------------------------
(* The broker, the network and the clock *)

\* The broker reads a packet and answers it.
BrokerAnswer ==
  /\ up /\ outbox # <<>>
  /\ outbox' = Tail(outbox)
  /\ IF Head(outbox) = "CONNECT"
     THEN \E code \in {0, 1} : inbox' = Append(inbox, Connack(code))
     ELSE inbox' = Append(inbox, PingResp)
  /\ UNCHANGED <<up, stalled, aligned, object, control, now, session, truth>>

\* The broker sends a message, or a packet the client ignores, over an
\* established session.
BrokerSend ==
  /\ up /\ outbox = <<>> /\ Len(inbox) < MaxInbox
  /\ state = "CONNECTED"
  /\ \E p \in Packet :
       /\ p.type \in {"PUBLISH", "BIG", "PINGREQ", "OTHER"}
       /\ p.id \notin unacked
       /\ inbox' = Append(inbox, p)
       /\ unacked' = unacked \cup ({p.id} \ {0})
       /\ handled' = handled \ {p.id}
  /\ UNCHANGED <<up, outbox, stalled, aligned, object, control, now, pending, truth>>

\* The rest of a packet is late, and comes.
NetStall ==
  /\ ~Prompt /\ up /\ InCall /\ got < Stalls /\ ~stalled
  /\ stalled' = TRUE
  /\ UNCHANGED <<up, inbox, outbox, aligned, object, control, now, session, truth>>

NetResume ==
  /\ up /\ stalled
  /\ stalled' = FALSE
  /\ UNCHANGED <<up, inbox, outbox, aligned, object, control, now, session, truth>>

\* The link goes down; a packet being read is cut where the reader is.
PeerClose ==
  /\ ~Prompt /\ up
  /\ up' = FALSE /\ outbox' = <<>>
  /\ inbox' = IF InCall THEN <<Head(inbox)>> ELSE <<>>
  /\ stalled' = (InCall /\ got < Stalls)
  /\ UNCHANGED <<aligned, object, control, now, session, truth>>

\* The clock runs while the client waits for a byte, no longer than its
\* timeout, while a callback runs, and between two calls of loop().
Tick ==
  /\ now < MaxTime
  /\ pc = "idle" /\ up => now < since + LoopGap
  /\ pc = "callback" => now < since + CallbackTime
  /\ pc = "connecting" => ~Available /\ now < since + SocketTimeout
  /\ InCall => stalled /\ now < since + SocketTimeout
  /\ Prompt => outbox = <<>>
  /\ now' = now + 1
  /\ UNCHANGED <<transport, object, control, session, truth>>

Sketch == \/ Connect \/ ConnectFails \/ NotConnected
          \/ Publish \/ Subscribe \/ Disconnect

ConnectCall == ConnectTimeout \/ ConnectAvailable \/ ConnackRead \/ ConnackStall

LoopCall ==
  \/ LoopTimeout \/ Loop \/ ReadByte \/ LoopStall \/ CallbackReturn
  \/ \E p \in Packet :
       \/ LoopOversized(p) \/ LoopPublish(p) \/ LoopPingReq(p)
       \/ LoopPingResp(p) \/ LoopOther(p)

Environment == BrokerAnswer \/ BrokerSend \/ NetStall \/ NetResume \/ PeerClose

Next == Sketch \/ ConnectCall \/ LoopCall \/ Environment \/ Tick

Spec == Init /\ [][Next]_vars

-----------------------------------------------------------------------------
(* Properties *)

\* What the waits for the first n late bytes of a packet may add up to.
Waited(n) == n * SocketTimeout
ReadTime  == Waited(Stalls)

Longest == IF KeepAlive > SocketTimeout THEN KeepAlive ELSE SocketTimeout

\* The longest silence of the peer before loop() pings it, and after that.
PingAfter == LoopGap + (IF KeepAlive + ReadTime > CallbackTime
                        THEN KeepAlive + ReadTime ELSE CallbackTime)
DropAfter == LoopGap + KeepAlive + ReadTime

\* While the sketch runs, connected() is true only for a session that the
\* broker has accepted, and no session is announced before its CONNACK: so
\* connect() returning true at once is never a lie (connect, connected).
SessionConsistent ==
  /\ CanCall /\ up => state = "CONNECTED"
  /\ pc \in {"connecting", "connack"} => state # "CONNECTED"

InFlightPings ==
  { <<"out", i>> : i \in {j \in 1 .. Len(outbox) : outbox[j] = "PINGREQ"} }
    \cup { <<"in", i>> : i \in {j \in 1 .. Len(inbox) : inbox[j] = PingResp} }

\* At most one ping is under way, and while none is outstanding no late
\* answer is left that could clear the flag of the next one (loop).
OnePing ==
  aligned /\ up =>
    /\ ~pingOutstanding => InFlightPings = {}
    /\ \A x, y \in InFlightPings : x = y

\* A client whose writes succeed is never silent towards the broker for
\* longer than the keep-alive (or the wait for its CONNACK) and one turn of
\* the sketch: one packet read however late its bytes, one callback, one gap.
\* The stale t that loop() stores can only bring the ping forward.
KeepAliveHonoured ==
  up /\ state = "CONNECTED" /\ intact =>
    now - lastSent <= Longest + ReadTime + CallbackTime + LoopGap

\* A silent peer is pinged and then given up: no connection outlives the
\* last packet it accepted by more than these two silences, whatever the
\* sketch publishes meanwhile and however often a read stalls.
DeadPeerDetected ==
  up /\ state = "CONNECTED" => now - lastRead <= PingAfter + DropAfter

\* The broker forgets a QoS 1 message only when the callback for that very
\* message has returned, whatever the callback did with the shared buffer.
AckOnlyHandled ==
  [][ aligned /\ pc' # "connecting" => unacked \ unacked' \subseteq handled' ]_vars

\* With a peer that answers at once and a sketch whose turns are short
\* against the keep-alive, loop() never drops the connection, although it
\* reads one packet at a time and looks at the timer first.
NoSpuriousTimeout == state # "TIMEOUT"

-----------------------------------------------------------------------------
(* The inductive invariant *)

\* What the control location says about the other variables.
ControlOK ==
  /\ InCall => inbox # <<>>
  /\ InCall /\ stalled => got < Stalls
  /\ ~InCall => got = 0
  /\ pc \in {"idle", "callback", "reading"} => ~nested
  /\ pc = "reading" /\ up => state = "CONNECTED"

\* The clock against the timer of the place the client is in.
WaitOK ==
  /\ since <= now /\ t <= now
  /\ lastSent <= now /\ lastRead <= now
  /\ pc = "idle" /\ up => now <= since + LoopGap
  /\ pc = "callback" => now <= since + CallbackTime
  /\ pc = "connecting" => now <= since + SocketTimeout
  /\ InCall => now <= since + (IF got < Stalls THEN SocketTimeout ELSE 0)
  /\ pc = "reading" => since <= t + Waited(got)

\* The connect() under way, against its CONNECT.
ConnectOK ==
  up /\ pc \in {"connecting", "connack"} =>
    /\ pc = "connecting" => since = lastInActivity
    /\ pc = "connack" => since <= lastInActivity + SocketTimeout + Waited(got)
    /\ intact => lastInActivity <= lastSent

\* What is left of the keep-alive.
SendOK ==
  up /\ intact =>
    /\ lastOutActivity <= lastSent
    /\ pc = "reading" => t <= lastSent + KeepAlive
    /\ pc = "callback" => since <= lastSent + Longest + ReadTime
    /\ pc = "idle" => since <= lastSent + Longest + ReadTime + CallbackTime

\* What is left of the peer's time.
ReceiveOK ==
  up /\ pc \in {"idle", "callback", "reading"} =>
    /\ lastInActivity <= lastRead + (IF pingOutstanding THEN PingAfter ELSE 0)
    /\ pc = "reading" => t <= lastInActivity + KeepAlive
    /\ pc = "callback" => since <= lastRead
    /\ pc = "idle" => \/ since <= lastInActivity + KeepAlive + ReadTime
                     \/ since <= lastRead + CallbackTime

IInv ==
  /\ TypeOK /\ SessionConsistent /\ ControlOK
  /\ WaitOK /\ ConnectOK /\ SendOK /\ ReceiveOK
=============================================================================
