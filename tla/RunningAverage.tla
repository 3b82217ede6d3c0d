--------------------------- MODULE RunningAverage ---------------------------
(***************************************************************************)
(* The average of the last _size values (RunningAverage.cpp): a ring, with *)
(* its sum, count, minimum and maximum kept along.  Values are numbers and *)
(* their sums exact; the rounding of a double is left out.                 *)
(***************************************************************************)
EXTENDS Integers, Sequences, FiniteSetsExt

CONSTANTS
  _size,
  Value,  \* the values the sketch adds
  NAN

VARIABLES
  av,     \* the object: _cnt, _idx, _sum, _ar, _min and _max
  window, \* the last _size values added since the last clear(), oldest first
  since   \* all values added since then

vars == <<av, window, since>>

ConstantsOK == _size \in Nat \ {0} /\ Value \subseteq Int /\ NAN \notin Value

TypeOK ==
  /\ DOMAIN av = {"cnt", "idx", "sum", "ar", "min", "max"}
  /\ av.cnt \in 0 .. _size /\ av.idx \in 0 .. _size - 1
  /\ av.sum \in Int /\ av.ar \in [0 .. _size - 1 -> Value \cup {0}]
  /\ {av.min, av.max} \subseteq Value \cup {NAN}

Cleared == [cnt |-> 0, idx |-> 0, sum |-> 0, ar |-> [i \in 0 .. _size - 1 |-> 0],
            min |-> NAN, max |-> NAN]

\* Mutant: the new value is stored before the old one is taken off the sum.
AddedStoresFirst(a, v) ==
  [cnt |-> IF a.cnt < _size THEN a.cnt + 1 ELSE a.cnt,
   idx |-> IF a.idx + 1 = _size THEN 0 ELSE a.idx + 1,
   sum |-> a.sum,
   ar  |-> [a.ar EXCEPT ![a.idx] = v],
   min |-> IF a.cnt = 0 \/ v < a.min THEN v ELSE a.min,
   max |-> IF a.cnt = 0 \/ (v >= a.min /\ v > a.max) THEN v ELSE a.max]

\* The body of addValue(); a value below the minimum is not looked at for the
\* maximum.
Added(a, v) ==
  [cnt |-> IF a.cnt < _size THEN a.cnt + 1 ELSE a.cnt,
   idx |-> IF a.idx + 1 = _size THEN 0 ELSE a.idx + 1,
   sum |-> a.sum - a.ar[a.idx] + v,
   ar  |-> [a.ar EXCEPT ![a.idx] = v],
   min |-> IF a.cnt = 0 \/ v < a.min THEN v ELSE a.min,
   max |-> IF a.cnt = 0 \/ (v >= a.min /\ v > a.max) THEN v ELSE a.max]

LastOf(s) == IF Len(s) > _size THEN SubSeq(s, Len(s) - _size + 1, Len(s)) ELSE s

Init == av = Cleared /\ window = <<>> /\ since = {}

clear == av' = Cleared /\ window' = <<>> /\ since' = {}

addValue(v) ==
  /\ av' = Added(av, v)
  /\ window' = LastOf(Append(window, v)) /\ since' = since \cup {v}

\* "the param number determines how often value is added (weight)"
fillValue(v, number) ==
  LET filled[n \in 0 .. number] == IF n = 0 THEN Cleared ELSE Added(filled[n - 1], v)
  IN  /\ av' = filled[number]
      /\ window' = LastOf([i \in 1 .. number |-> v])
      /\ since' = IF number = 0 THEN {} ELSE {v}

Next ==
  \/ clear
  \/ \E v \in Value : addValue(v) \/ \E n \in 0 .. _size + 1 : fillValue(v, n)

Spec == Init /\ [][Next]_vars

-----------------------------------------------------------------------------
(* Properties *)

Total(s) ==
  LET sum[i \in 0 .. Len(s)] == IF i = 0 THEN 0 ELSE sum[i - 1] + s[i]
  IN  sum[Len(s)]

\* getAverage, getMin, getMax: the sum and the count are those of the last
\* values, also when the ring has come round, and the extremes those of all
\* values since the last clear(), though the value that leaves the ring is
\* found by its place alone.
Statistics ==
  /\ av.cnt = Len(window) /\ av.sum = Total(window)
  /\ since # {} => av.min = Min(since) /\ av.max = Max(since)
=============================================================================
