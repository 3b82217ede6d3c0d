-------------------------------- MODULE RF24 --------------------------------
(***************************************************************************)
(* Sending with RF24.cpp.  write() puts a payload into the radio, polls    *)
(* its status, and tells from the flags what has happened.  The radio      *)
(* (external, nRF24L01+) works meanwhile: it sends the first payload of    *)
(* its queue until the receiver acknowledges it or it gives up.  Received  *)
(* payloads are left out.                                                  *)
(***************************************************************************)
EXTENDS Naturals, Sequences

CONSTANT Late  \* the radio may still be at work when write() has waited 500 ms

VARIABLES
  fifo,             \* the radio's queue: payloads of this call ("new") or of earlier ones
  TX_DS, MAX_RT,    \* flags of the status register
  sending,          \* the radio is at work on the first payload
  listening,
  pc, tx_ok, result, \* write(), and what it returned last
  acked             \* the receiver has acknowledged the payload of this call

flags == <<TX_DS, MAX_RT>>
vars  == <<fifo, flags, sending, listening, pc, tx_ok, result, acked>>

ConstantsOK == Late \in BOOLEAN

TypeOK ==
  /\ fifo \in Seq({"old", "new"}) /\ Len(fifo) <= 3
  /\ {TX_DS, MAX_RT, sending, listening, tx_ok, result, acked} \subseteq BOOLEAN
  /\ pc \in {"sketch", "poll", "what", "down", "flush"}

\* After begin().
Init ==
  /\ fifo = <<>> /\ TX_DS = FALSE /\ MAX_RT = FALSE
  /\ sending = FALSE /\ listening = FALSE
  /\ pc = "sketch" /\ tx_ok = FALSE /\ result = FALSE /\ acked = FALSE

\* write() begins.  "Do not call write() while in this mode".
startWrite ==
  /\ pc = "sketch" /\ ~listening /\ Len(fifo) < 3
  /\ fifo' = Append([i \in DOMAIN fifo |-> "old"], "new")
  /\ sending' = ~MAX_RT  \* the flag keeps the radio from sending
  /\ pc' = "poll" /\ acked' = FALSE
  /\ UNCHANGED <<flags, listening, tx_ok, result>>

PollSees ==
  /\ pc = "poll" /\ (TX_DS \/ MAX_RT)
  /\ pc' = "what"
  /\ UNCHANGED <<fifo, flags, sending, listening, tx_ok, result, acked>>

\* "we'll timeout in case the radio is flaky and we get neither"
PollTimeout ==
  /\ pc = "poll" /\ ~(TX_DS \/ MAX_RT) /\ (~Late => ~sending)
  /\ pc' = "what"
  /\ UNCHANGED <<fifo, flags, sending, listening, tx_ok, result, acked>>

\* "Read the status & reset the status in one easy call"
whatHappened ==
  /\ pc = "what" /\ pc' = "down"
  /\ tx_ok' = TX_DS
  /\ TX_DS' = FALSE /\ MAX_RT' = FALSE
  /\ UNCHANGED <<fifo, sending, listening, result, acked>>

powerDown ==
  /\ pc = "down" /\ pc' = "flush"
  /\ sending' = FALSE
  /\ UNCHANGED <<fifo, flags, listening, tx_ok, result, acked>>

\* Mutant: "is this a relic of past experimentation, and not needed anymore??"
flush_txRelic ==
  /\ pc = "flush" /\ pc' = "sketch"
  /\ result' = tx_ok
  /\ UNCHANGED <<fifo, flags, sending, listening, tx_ok, acked>>

\* The end of write().
flush_tx ==
  /\ pc = "flush" /\ pc' = "sketch"
  /\ fifo' = <<>>
  /\ result' = tx_ok
  /\ UNCHANGED <<flags, sending, listening, tx_ok, acked>>

startListening ==
  /\ pc = "sketch" /\ ~listening /\ listening' = TRUE
  /\ TX_DS' = FALSE /\ MAX_RT' = FALSE /\ fifo' = <<>>
  /\ UNCHANGED <<sending, pc, tx_ok, result, acked>>

stopListening ==
  /\ pc = "sketch" /\ listening /\ listening' = FALSE
  /\ fifo' = <<>>
  /\ UNCHANGED <<flags, sending, pc, tx_ok, result, acked>>

\* The receiver acknowledges, the radio gives up, or it hangs.
Acknowledged ==
  /\ sending /\ sending' = FALSE
  /\ TX_DS' = TRUE /\ fifo' = Tail(fifo)
  /\ acked' = (acked \/ Head(fifo) = "new")
  /\ UNCHANGED <<MAX_RT, listening, pc, tx_ok, result>>

GivesUp ==
  /\ sending /\ sending' = FALSE
  /\ MAX_RT' = TRUE
  /\ UNCHANGED <<fifo, TX_DS, listening, pc, tx_ok, result, acked>>

Hangs ==
  /\ sending /\ sending' = FALSE
  /\ UNCHANGED <<fifo, flags, listening, pc, tx_ok, result, acked>>

Write == startWrite \/ PollSees \/ PollTimeout \/ whatHappened \/ powerDown \/ flush_tx

Next == Write \/ startListening \/ stopListening \/ Acknowledged \/ GivesUp \/ Hangs

Spec == Init /\ [][Next]_vars

-----------------------------------------------------------------------------
(* Properties *)

\* write: "True if the payload was delivered successfully false if not": the
\* flags are of the payload of this call, whatever earlier calls have left in
\* the radio (if it is done before write() has waited too long: Late).
TellsDelivery == pc = "sketch" => (result <=> acked)
=============================================================================
