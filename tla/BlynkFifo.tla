------------------------------ MODULE BlynkFifo ------------------------------
(***************************************************************************)
(* The byte queue of Blynk/src/utility/BlynkFifo.h, which the AT-command   *)
(* transports fill and empty from one thread: a ring with a flag that      *)
(* tells a full ring from an empty one, so that every slot is used.        *)
(***************************************************************************)
EXTENDS Naturals, Sequences, FiniteSetsExt

CONSTANTS Value, SIZE,
          MaxChunk  \* bound: the longest chunk a caller writes or reads

SizeOK == SIZE \in Nat \ {0} /\ MaxChunk \in Nat \ {0}

VARIABLES buffer, fst, lst, flag,
          in, out  \* the last chunk offered, the last one read

vars == <<buffer, fst, lst, flag, in, out>>

Slot  == 0 .. SIZE - 1
Chunk == UNION {[1 .. n -> Value] : n \in 1 .. MaxChunk}

TypeOK ==
  /\ buffer \in [Slot -> Value] /\ fst \in Slot /\ lst \in Slot /\ flag \in {0, 1}

\* The array is not initialised; one value everywhere stands for its bytes.
Init ==
  /\ \E v \in Value : buffer = [s \in Slot |-> v]
  /\ fst = 0 /\ lst = 0 /\ flag = 0
  /\ in = <<>> /\ out = <<>>

getOccupied ==
  IF lst = fst THEN flag * SIZE
  ELSE IF lst > fst THEN lst - fst
  ELSE SIZE + lst - fst

getFree == SIZE - getOccupied

\* The two memcpy calls: what fits before the end of the array, and the rest.
Filled(data, n) ==
  LET ch1  == Min({n, SIZE - lst})
      lst2 == (lst + ch1) % SIZE
  IN  [s \in Slot |->
         IF s \in lst .. lst + ch1 - 1 THEN data[s - lst + 1]
         ELSE IF s \in lst2 .. lst2 + (n - ch1) - 1 THEN data[ch1 + s - lst2 + 1]
         ELSE buffer[s]]

Taken(n) ==
  LET ch1  == Min({n, SIZE - fst})
      fst2 == (fst + ch1) % SIZE
  IN  [i \in 1 .. n |-> IF i <= ch1 THEN buffer[fst + i - 1]
                                    ELSE buffer[fst2 + (i - ch1) - 1]]

clear ==
  /\ fst' = 0 /\ lst' = 0 /\ flag' = 0
  /\ UNCHANGED <<buffer, in, out>>

\* Mutant: lst is not wrapped.
writeNoWrap(data) ==
  LET n == Min({Len(data), getFree})
  IN  /\ in' = data /\ out' = out
      /\ IF n = 0
         THEN UNCHANGED <<buffer, fst, lst, flag>>
         ELSE /\ buffer' = Filled(data, n)
              /\ lst' = lst + n
              /\ flag' = IF fst = lst' THEN 1 ELSE flag
              /\ fst' = fst

\* write() stores what fits; push() is write() of one value.
write(data) ==
  LET n == Min({Len(data), getFree})
  IN  /\ in' = data /\ out' = out
      /\ IF n = 0
         THEN UNCHANGED <<buffer, fst, lst, flag>>
         ELSE /\ buffer' = Filled(data, n)
              /\ lst' = (lst + n) % SIZE
              /\ flag' = IF fst = lst' THEN 1 ELSE flag
              /\ fst' = fst

\* Mutant: a read that empties a full ring leaves the flag.
readKeepsFlag(k) ==
  LET n == Min({k, getOccupied})
  IN  /\ n > 0
      /\ out' = Taken(n)
      /\ fst' = (fst + n) % SIZE
      /\ UNCHANGED <<buffer, lst, flag, in>>

read(k) ==
  LET n == Min({k, getOccupied})
  IN  /\ n > 0
      /\ out' = Taken(n)
      /\ fst' = (fst + n) % SIZE
      /\ flag' = 0
      /\ UNCHANGED <<buffer, lst, in>>

Next ==
  \/ clear
  \/ \E data \in Chunk : write(data)
  \/ \E k \in 1 .. MaxChunk : read(k)

Spec == Init /\ [][Next]_vars

-----------------------------------------------------------------------------
(* Properties *)

Content == [i \in 1 .. getOccupied |-> buffer[(fst + i - 1) % SIZE]]

Queue == INSTANCE Fifo WITH Capacity <- SIZE, queue <- Content

\* The ring holds SIZE values in order, through every wrap of both ends,
\* and a chunk is cut only when the ring is full afterwards.
ImplementsFifo == Queue!Spec
=============================================================================
