--------------------------- MODULE MCBlynkUtility ---------------------------
(***************************************************************************)
(* The small parts of Blynk on one model: the message limit, the byte      *)
(* queue of one thread and the byte queue of two.  They share no state; a  *)
(* behaviour is a behaviour of the one that `part` names, while the        *)
(* variables of the others keep their initial values.                      *)
(***************************************************************************)
EXTENDS BlynkMsgLimit, Sequences, FiniteSetsExt

CONSTANTS Value, SIZE, RingChunk, N, MaxChunk

VARIABLES
  part,
  buffer, fst, lst, flag, rin, rout,
  _b, _w, _r, wpc, p, wf, wt, rpc, c, rf, dest, rt, in, out

Ring    == INSTANCE BlynkFifo WITH MaxChunk <- RingChunk, in <- rin, out <- rout
Threads == INSTANCE BlynkFifo2

ASSUME PartAssumptions == Ring!SizeOK /\ Threads!SizeOK

ringVars   == <<buffer, fst, lst, flag, rin, rout>>
threadVars == <<_b, _w, _r, wpc, p, wf, wt, rpc, c, rf, dest, rt, in, out>>

MCInit ==
  /\ part \in {"limit", "ring", "threads"}
  /\ Init /\ Ring!Init /\ Threads!Init
  /\ LET v == CHOOSE w \in Value : TRUE  \* no action tells one value from another
     IN  buffer = [s \in Ring!Slot |-> v] /\ _b = [s \in Threads!Slot |-> v]

MCNext ==
  \/ part = "limit"   /\ Next         /\ UNCHANGED <<part, ringVars, threadVars>>
  \/ part = "ring"    /\ Ring!Next    /\ UNCHANGED <<part, vars, threadVars>>
  \/ part = "threads" /\ Threads!Next /\ UNCHANGED <<part, vars, ringVars>>

\* The fairness of BlynkFifo2, when it is the one that runs: each side keeps
\* running.
MCSpec ==
  /\ MCInit /\ [][MCNext]_<<part, vars, ringVars, threadVars>>
  /\ WF_threadVars(part = "threads" /\ Threads!Put)
  /\ WF_threadVars(part = "threads" /\ Threads!Get)

-----------------------------------------------------------------------------
(* Properties *)

\* The type invariants of the three parts.
Types == AboveThreshold /\ Ring!TypeOK /\ Threads!TypeOK

\* BlynkFifo: write, read and clear are those of a queue of SIZE values.
RingIsQueue == Ring!ImplementsFifo

\* BlynkFifo2: put and get, each in its own thread, are those of a queue.
ThreadsAreQueue == Threads!ImplementsFifo

\* BlynkFifo2: a put or get that may not block returns.
NonBlockingReturns == Threads!NonBlockingReturns
=============================================================================
