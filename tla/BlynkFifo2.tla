----------------------------- MODULE BlynkFifo2 -----------------------------
(***************************************************************************)
(* The byte queue of Blynk/src/utility/BlynkFifo2.h.  It has a "writing    *)
(* thread/context API" and a "reading thread/context API" and no lock: the *)
(* radio callback puts while the sketch gets.  A call is cut where the     *)
(* other side can see it: the read of the other position (free, size), the *)
(* memcpy, and the store of the own position.                              *)
(***************************************************************************)
EXTENDS Integers, Sequences, FiniteSetsExt

CONSTANTS Value, N,
          MaxChunk  \* bound: the longest chunk a caller puts or gets

SizeOK == N \in Nat /\ N > 1 /\ MaxChunk \in Nat \ {0}

VARIABLES
  _b, _w, _r,
  wpc, p, wf, wt,  \* put(): place, what is left to store, part under way, t
  rpc, c, rf, dest, rt, \* get(): place, values still wanted, part under way, t
  in, out          \* the last part stored, the last part fetched

ring   == <<_b, _w, _r>>
writer == <<wpc, p, wf, wt>>
reader == <<rpc, c, rf, dest, rt>>
vars   == <<ring, writer, reader, in, out>>

Slot  == 0 .. N - 1
Chunk == UNION {[1 .. n -> Value] : n \in 1 .. MaxChunk}

TypeOK ==
  /\ _b \in [Slot -> Value] /\ _w \in Slot /\ _r \in Slot
  /\ wpc \in {"idle", "wait", "copy", "publish"} /\ wf \in 0 .. MaxChunk
  /\ rpc \in {"idle", "wait", "copy", "publish"} /\ rf \in 0 .. MaxChunk
  /\ p \in Chunk \cup {<<>>} /\ c \in 0 .. MaxChunk /\ dest \in Chunk \cup {<<>>}
  /\ wt \in BOOLEAN /\ rt \in BOOLEAN

Init ==
  /\ \E v \in Value : _b = [s \in Slot |-> v]
  /\ _w = 0 /\ _r = 0
  /\ wpc = "idle" /\ p = <<>> /\ wf = 0 /\ wt = FALSE
  /\ rpc = "idle" /\ c = 0 /\ rf = 0 /\ dest = <<>> /\ rt = FALSE
  /\ in = <<>> /\ out = <<>>

_inc(i, n) == (i + n) % N

\* Mutant: free() counts the slot that tells full from empty.
freeAll == IF _r - _w <= 0 THEN _r - _w + N ELSE _r - _w

free == (IF _r - _w <= 0 THEN _r - _w + N ELSE _r - _w) - 1

size == IF _w - _r < 0 THEN _w - _r + N ELSE _w - _r

-----------------------------------------------------------------------------
(* put(): the one-value form is the blocking form with a chunk of one *)

PutStart(data, t) ==
  /\ wpc = "idle"
  /\ wpc' = "wait" /\ p' = data /\ wt' = t
  /\ UNCHANGED <<ring, wf, reader, in, out>>

\* Mutant: the test of t is inverted.
PutRefusedInverted ==
  /\ wpc = "wait" /\ free = 0 /\ wt
  /\ wpc' = "idle" /\ p' = <<>> /\ wf' = 0
  /\ UNCHANGED <<ring, wt, reader, in, out>>

\* No space and not blocking: put returns how much it stored.
PutRefused ==
  /\ wpc = "wait" /\ free = 0 /\ ~wt
  /\ wpc' = "idle" /\ p' = <<>> /\ wf' = 0
  /\ UNCHANGED <<ring, wt, reader, in, out>>

PutSpace ==
  /\ wpc = "wait" /\ free > 0
  /\ wf' = Min({Len(p), free, N - _w})
  /\ wpc' = "copy"
  /\ UNCHANGED <<ring, p, wt, reader, in, out>>

PutCopy ==
  /\ wpc = "copy"
  /\ _b' = [s \in Slot |-> IF s \in _w .. _w + wf - 1 THEN p[s - _w + 1] ELSE _b[s]]
  /\ wpc' = "publish"
  /\ UNCHANGED <<_w, _r, p, wf, wt, reader, in, out>>

PutPublish ==
  /\ wpc = "publish"
  /\ _w' = _inc(_w, wf)
  /\ in' = SubSeq(p, 1, wf)
  /\ p' = SubSeq(p, wf + 1, Len(p)) /\ wf' = 0
  /\ wpc' = IF p' = <<>> THEN "idle" ELSE "wait"
  /\ UNCHANGED <<_b, _r, wt, reader, out>>

-----------------------------------------------------------------------------
(* get(): likewise *)

GetStart(n, t) ==
  /\ rpc = "idle"
  /\ rpc' = "wait" /\ c' = n /\ rt' = t
  /\ UNCHANGED <<ring, rf, dest, writer, in, out>>

GetRefused ==
  /\ rpc = "wait" /\ size = 0 /\ ~rt
  /\ rpc' = "idle" /\ c' = 0
  /\ UNCHANGED <<ring, rf, dest, rt, writer, in, out>>

GetData ==
  /\ rpc = "wait" /\ size > 0
  /\ rf' = Min({c, size, N - _r})
  /\ rpc' = "copy"
  /\ UNCHANGED <<ring, c, dest, rt, writer, in, out>>

GetCopy ==
  /\ rpc = "copy"
  /\ dest' = [i \in 1 .. rf |-> _b[_r + i - 1]]
  /\ rpc' = "publish"
  /\ UNCHANGED <<ring, c, rf, rt, writer, in, out>>

GetPublish ==
  /\ rpc = "publish"
  /\ _r' = _inc(_r, rf)
  /\ out' = dest
  /\ c' = c - rf /\ rf' = 0 /\ dest' = <<>>
  /\ rpc' = IF c' = 0 THEN "idle" ELSE "wait"
  /\ UNCHANGED <<_b, _w, rt, writer, in>>

\* clear(), which the transports call in connect() outside both calls.
clear ==
  /\ wpc = "idle" /\ rpc = "idle"
  /\ _r' = 0 /\ _w' = 0
  /\ UNCHANGED <<_b, writer, reader, in, out>>

Put == PutRefused \/ PutSpace \/ PutCopy \/ PutPublish
Get == GetRefused \/ GetData \/ GetCopy \/ GetPublish

Next ==
  \/ \E data \in Chunk, t \in BOOLEAN : PutStart(data, t)
  \/ \E n \in 1 .. MaxChunk, t \in BOOLEAN : GetStart(n, t)
  \/ Put \/ Get \/ clear

\* Each side is a thread of its own that keeps running.
Spec == Init /\ [][Next]_vars /\ WF_vars(Put) /\ WF_vars(Get)

-----------------------------------------------------------------------------
(* Properties *)

Content == [i \in 1 .. size |-> _b[(_r + i - 1) % N]]

Queue == INSTANCE Fifo WITH Capacity <- N - 1, queue <- Content

\* Without a lock, and with every interleaving of the two sides, the ring is
\* a queue of N - 1 values: nothing is lost, repeated, reordered or torn.
ImplementsFifo == Queue!Spec

\* A call that may not block returns, however the other side moves the
\* positions under it.
NonBlockingReturns ==
  /\ (wpc = "wait" /\ ~wt) ~> wpc = "idle"
  /\ (rpc = "wait" /\ ~rt) ~> rpc = "idle"
=============================================================================
