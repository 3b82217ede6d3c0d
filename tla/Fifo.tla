-------------------------------- MODULE Fifo --------------------------------
(***************************************************************************)
(* What the byte buffers of this repository promise: a bounded first-in    *)
(* first-out queue.  in is the last chunk a caller offered, out the last   *)
(* chunk a caller got.  What does not fit is refused, never what is        *)
(* already stored.                                                         *)
(***************************************************************************)
EXTENDS Naturals, Sequences, FiniteSetsExt

CONSTANTS Value,     \* what the queue holds
          Capacity,  \* how many of them
          MaxChunk   \* bound: the longest chunk

VARIABLES queue, in, out

vars == <<queue, in, out>>

Chunk == UNION {[1 .. n -> Value] : n \in 1 .. MaxChunk}

Init == queue = <<>> /\ in = <<>> /\ out = <<>>

\* The longest prefix of s that fits is stored, all of s in the usual case.
Offer(s) ==
  /\ queue' = queue \o SubSeq(s, 1, Min({Len(s), Capacity - Len(queue)}))
  /\ in' = s
  /\ out' = out

Get(n) ==
  /\ n <= Len(queue)
  /\ out' = SubSeq(queue, 1, n)
  /\ queue' = SubSeq(queue, n + 1, Len(queue))
  /\ in' = in

Clear == queue' = <<>> /\ UNCHANGED <<in, out>>

Next ==
  \/ \E s \in Chunk : Offer(s)
  \/ \E n \in 1 .. MaxChunk : Get(n)
  \/ Clear

Spec == Init /\ [][Next]_vars
=============================================================================
