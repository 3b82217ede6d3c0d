------------------------------ MODULE ListSpec ------------------------------
(***************************************************************************)
(* A list as a sequence of values, and what each method of                 *)
(* LinkedList/LinkedList.h does to it, however the nodes are linked.  It   *)
(* is what the comments in the class declaration say, with T() for the     *)
(* "false" of remove() and get(), except for set(): its comment (line 68)  *)
(* says "Increment _size", but the code (229-237) keeps the size, and so   *)
(* does Set.  ret is what the last call returned.  Indices count from 0,   *)
(* as in the code.                                                         *)
(***************************************************************************)
EXTENDS Integers, Sequences, SequencesExt

CONSTANTS Value,
          NoValue,   \* T(), the answer when there is no such element
          MaxIndex   \* bound: the largest index a caller uses

VARIABLES list, ret

vars == <<list, ret>>

Init == list = <<>> /\ ret = NoValue

Add(v) == list' = Append(list, v) /\ ret' = TRUE

AddAt(i, v) ==
  /\ list' = IF i >= Len(list) THEN Append(list, v) ELSE InsertAt(list, i + 1, v)
  /\ ret' = TRUE

Unshift(v) == list' = <<v>> \o list /\ ret' = TRUE

\* The number of elements stays, whatever the comment at the declaration says.
Set(i, v) ==
  IF i \in 0 .. Len(list) - 1 THEN list' = [list EXCEPT ![i + 1] = v] /\ ret' = TRUE
                   ELSE list' = list /\ ret' = FALSE

\* The value at i leaves the list, or there is none and the list stays.
RemoveIndex(i) ==
  IF i \in 0 .. Len(list) - 1 THEN list' = RemoveAt(list, i + 1) /\ ret' = list[i + 1]
                   ELSE list' = list /\ ret' = NoValue

Pop   == IF list = <<>> THEN list' = list /\ ret' = NoValue ELSE RemoveIndex(Len(list) - 1)
Shift == RemoveIndex(0)

Get(i) == list' = list /\ ret' = IF i \in 0 .. Len(list) - 1 THEN list[i + 1] ELSE NoValue

Clear == list' = <<>> /\ UNCHANGED ret

Next ==
  \/ \E v \in Value : Add(v) \/ Unshift(v)
  \/ \E i \in -1 .. MaxIndex : RemoveIndex(i) \/ Get(i)
  \/ \E i \in -1 .. MaxIndex, v \in Value : Set(i, v)
  \/ \E i \in 0 .. MaxIndex, v \in Value : AddAt(i, v)
  \/ Pop \/ Shift \/ Clear

Spec == Init /\ [][Next]_vars
=============================================================================
