-------------------------------- MODULE LLCP --------------------------------
(***************************************************************************)
(* SNEP over LLCP on the PN532 as a target (snep.cpp, llcp.cpp): each PDU  *)
(* that is read from the peer is followed by one that is written to it,    *)
(* and SYMM fills the turns in which there is nothing to say.  write()     *)
(* puts one message to the peer and read() takes one from it.  The peer    *)
(* is external: one that keeps to LLCP.  The timeouts the functions take   *)
(* are not used by them; a link that breaks makes every link.read() and    *)
(* link.write() after it fail, in 3 s at most.                             *)
(***************************************************************************)
EXTENDS Naturals, Sequences

VARIABLES
  call,     \* "write", "read", or "none" between two
  pc,       \* the place in the call
  mode,     \* 1 if the peer has asked for the connection
  result,   \* of the last call: "ok" for 1 or a length, "failed" for < 0
  air,      \* PDU of the peer that is not read yet, or "none"
  turn,     \* whose turn it is to write, "us" or "peer"
  owes,     \* PDUs the peer has yet to send
  puts,     \* messages the peer has got in this call of write()
  link      \* not broken

us   == <<call, pc, mode, result>>
peer == <<owes, puts>>
vars == <<us, air, turn, peer, link>>

PDU == {"SYMM", "CONNECT", "CC", "I", "RR", "DISC", "DM"}

\* The places of a call: where it reads, named for what it expects, and where
\* it writes a PDU and then goes on to one of the former or returns.
Reads  == {"symm_connect", "cc", "connect", "i", "symm_i", "rr", "symm_disc", "dm"}
Writes == {<<p, next>> : p \in PDU, next \in Reads \cup {"return"}}

TypeOK ==
  /\ call \in {"none", "write", "read"}
  /\ pc \in {<<"idle">>} \cup {<<r>> : r \in Reads} \cup Writes
  /\ mode \in {0, 1} /\ result \in {"ok", "failed"}
  /\ air \in PDU \cup {"none"} /\ turn \in {"us", "peer"}
  /\ owes \in Seq(PDU) /\ Len(owes) <= 4 /\ puts \in 0 .. 2
  /\ link \in BOOLEAN

Init ==
  /\ call = "none" /\ pc = <<"idle">> /\ mode = 0 /\ result = "failed"
  /\ air = "none" /\ turn = "peer" /\ owes = <<>> /\ puts = 0
  /\ link = FALSE

\* activate() succeeds, and connect() or waitForConnection() begins; the
\* peer that puts a message to us has a connection to ask for.
Call(c) ==
  /\ call = "none"
  /\ call' = c /\ mode' = (IF c = "read" THEN 1 ELSE 0)
  /\ pc' = <<IF c = "read" THEN "connect" ELSE "symm_connect">>
  /\ link' = TRUE /\ air' = "none" /\ turn' = "peer"
  /\ owes' = (IF c = "read" THEN <<"CONNECT">> ELSE <<>>) /\ puts' = 0
  /\ UNCHANGED result

Return(r) ==
  /\ call' = "none" /\ pc' = <<"idle">> /\ result' = r /\ link' = FALSE

GoOn(to) == pc' = to /\ UNCHANGED <<call, result, link>>

\* llcp.read(), in a call of read().
Getting == {<<"i">>, <<"SYMM", "i">>, <<"RR", "symm_i">>}

\* A failure in disconnect() is ignored by SNEP::write, and one in the answer
\* by SNEP::read: the message is there.  SNEP::read keeps what llcp.read()
\* returns without a sign, takes a failure for a length, and goes on to the
\* tests of what is in the buffer and, if that passes them, to the answer.
Fails ==
  \/ Return(IF \/ call = "write" /\ (pc[1] \in {"symm_disc", "dm", "DISC"} \/ pc = <<"SYMM", "dm">>)
               \/ call = "read" /\ pc[1] \in {"symm_i", "rr"}
               \/ call = "read" /\ pc \in {<<"I", "rr">>, <<"SYMM", "rr">>, <<"SYMM", "return">>}
            THEN "ok" ELSE "failed")
  \/ call = "read" /\ pc \in Getting /\ GoOn(<<"symm_i">>)

\* How each function goes on: where it reads, the PDU it finds, and the PDU it
\* writes with the place after it.  A function that is done leads to the
\* first place of the one that SNEP calls next.
connect ==
  {<<"symm_connect", "SYMM", <<"CONNECT", "cc">>>>,
   <<"cc", "SYMM", <<"SYMM", "cc">>>>, <<"cc", "CC", <<"I", "rr">>>>}

waitForConnection ==
  {<<"connect", "SYMM", <<"SYMM", "connect">>>>, <<"connect", "CONNECT", <<"CC", "i">>>>}

\* Before its answer it reads a PDU of two bytes, a SYMM or not.
write ==
  {<<"symm_i", p, <<"I", "rr">>>> : p \in {"SYMM", "DISC", "DM", "CC"}} \cup
  {<<"rr", "SYMM", <<"SYMM", "rr">>>>,
   <<"rr", "RR", <<"SYMM", IF mode = 1 THEN "return" ELSE "i">>>>}

read ==
  {<<"i", "SYMM", <<"SYMM", "i">>>>,
   <<"i", "I", <<"RR", IF mode = 1 THEN "symm_i" ELSE "symm_disc">>>>}

disconnect ==
  {<<"symm_disc", "SYMM", <<"DISC", "dm">>>>, <<"dm", "DM", <<"SYMM", "dm">>>>}

Ways     == connect \cup waitForConnection \cup write \cup read \cup disconnect
After(p) == {w[3] : w \in {v \in Ways : v[1] = pc[1] /\ v[2] = p}}

\* Mutant: no SYMM after the RR.
ReadForgetsSYMM ==
  /\ pc[1] \in Reads /\ air # "none"
  /\ air' = "none"
  /\ \/ \E to \in After(air) : GoOn(IF air = "RR" /\ mode = 0 THEN <<"i">> ELSE to)
     \/ After(air) = {} /\ Fails
  /\ UNCHANGED <<mode, turn, peer>>

\* Mutant: the message is written again in the next turn.
ReadSendsAgain ==
  /\ pc[1] \in Reads /\ air # "none"
  /\ air' = "none"
  /\ \/ \E to \in After(air) : GoOn(IF to = <<"SYMM", "rr">> THEN <<"I", "rr">> ELSE to)
     \/ After(air) = {} /\ Fails
  /\ UNCHANGED <<mode, turn, peer>>

\* link.read(), and the tests of what was read.
Read ==
  /\ pc[1] \in Reads /\ air # "none"
  /\ air' = "none"
  /\ \/ \E to \in After(air) : GoOn(to)
     \/ After(air) = {} /\ Fails
  /\ UNCHANGED <<mode, turn, peer>>

\* link.read() fails.  read() keeps its length without a sign, takes the
\* failure for a long PDU, and goes by what is in the buffer.
ReadFails ==
  /\ pc[1] \in Reads /\ ~link
  /\ air' = "none"
  /\ \/ pc = <<"i">> /\ \E to \in After("SYMM") \cup After("I") : GoOn(to)
     \/ Fails
  /\ UNCHANGED <<mode, turn, peer>>

\* What the peer does with a PDU: it answers an I with an RR, or with an I
\* of its own at once.
PeerTakes(p) ==
  CASE p = "CONNECT" -> owes' = Append(owes, "CC") /\ UNCHANGED puts
    [] p = "CC"      -> owes' = Append(owes, "I") /\ UNCHANGED puts
    [] p = "DISC"    -> owes' = Append(owes, "DM") /\ UNCHANGED puts
    [] p = "I" /\ call = "write" ->
         owes' \in {owes \o <<"RR", "I">>, Append(owes, "I")} /\ puts' = puts + 1
    [] p = "I" /\ call = "read"  -> owes' = owes \o <<"RR", "DISC">> /\ UNCHANGED puts
    [] OTHER         -> UNCHANGED peer

\* link.write(), and on to what comes next.  When the I is acknowledged SNEP
\* looks at it: it may be no request or answer that it takes.
Write ==
  /\ pc \in Writes /\ link
  /\ PeerTakes(pc[1]) /\ turn' = "peer"
  /\ \/ /\ pc[2] # "return"
        /\ pc' = <<pc[2]>> /\ UNCHANGED <<call, result, link>>
     \/ pc[2] = "return" /\ Return("ok")
     \/ pc[1] = "RR" /\ Return("failed")
  /\ UNCHANGED <<mode, air>>

WriteFails ==
  /\ pc \in Writes /\ ~link
  /\ Fails
  /\ UNCHANGED <<mode, air, turn, peer>>

LinkBreaks ==
  /\ call # "none" /\ link /\ link' = FALSE
  /\ UNCHANGED <<us, air, turn, peer>>

PeerIdles ==
  /\ link /\ turn = "peer" /\ air = "none"
  /\ air' = "SYMM" /\ turn' = "us"
  /\ UNCHANGED <<us, peer, link>>

PeerSends ==
  /\ link /\ turn = "peer" /\ air = "none" /\ owes # <<>>
  /\ air' = Head(owes) /\ owes' = Tail(owes) /\ turn' = "us"
  /\ UNCHANGED <<us, puts, link>>

Next ==
  \/ \E c \in {"write", "read"} : Call(c)
  \/ Read \/ ReadFails \/ Write \/ WriteFails
  \/ LinkBreaks \/ PeerIdles \/ PeerSends

\* link.read() waits for 3 s and link.write() for as long; the peer uses its
\* turns, and does not put off for ever what it has to send.
Spec ==
  /\ Init /\ [][Next]_vars
  /\ WF_vars(Read \/ ReadFails) /\ WF_vars(Write \/ WriteFails)
  /\ WF_vars(PeerIdles) /\ SF_vars(PeerSends)

-----------------------------------------------------------------------------
(* Properties *)

\* activate .. disconnect: we write in our turn and wait in the peer's, from
\* the end of each function to the beginning of the next, so neither side
\* waits for one that waits itself.
TurnsAlternate ==
  link => IF pc \in Writes THEN turn = "us" /\ air = "none"
          ELSE turn = "us" <=> air # "none"

\* SNEP::write: a message is put to the peer at most once in a call, and the
\* call succeeds only if the peer has got it.
PutOnce == puts <= 1 /\ (call = "write" /\ pc[1] = "symm_disc" => puts = 1)

\* The two together.
Agreement == TurnsAlternate /\ PutOnce

\* write, read: a call comes to its end, though nothing of it looks at its
\* timeout.
CallEnds == call # "none" ~> call = "none"
=============================================================================
