------------------------- MODULE BlynkUtilityProofs -------------------------
(***************************************************************************)
(* Proofs about the small parts of Blynk: the message limit, the byte      *)
(* queue of one thread, and, from the proofs of BlynkFifo2Proofs, what all *)
(* three keep side by side.                                                *)
(***************************************************************************)
EXTENDS MCBlynkUtility, SequenceTheorems, TLAPS

ThreadProofs == INSTANCE BlynkFifo2Proofs

-----------------------------------------------------------------------------
(* BlynkFifo: arithmetic *)

LEMMA RingMod ==
  ASSUME NEW n \in Nat, n > 0, NEW x \in Nat, x < 2 * n
  PROVE  x % n = IF x < n THEN x ELSE x - n
OBVIOUS

LEMMA RingMin ==
  ASSUME NEW a \in Int, NEW b \in Int
  PROVE  /\ Ring!Min({a, b}) = IF a <= b THEN a ELSE b
         /\ Ring!Queue!Min({a, b}) = IF a <= b THEN a ELSE b
<1> DEFINE m == IF a <= b THEN a ELSE b
<1>1. m \in {a, b} /\ \A y \in {a, b} : m <= y
  OBVIOUS
<1>2. \A x \in {a, b} : (\A y \in {a, b} : x <= y) => x = m
  OBVIOUS
<1> HIDE DEF m
<1>3. Ring!Min({a, b}) = m
  BY <1>1, <1>2 DEF Ring!Min
<1>4. Ring!Queue!Min({a, b}) = m
  BY <1>1, <1>2 DEF Ring!Queue!Min
<1> QED
  BY <1>3, <1>4 DEF m

\* The slot of the i-th value of a ring whose first one is in slot f.
Spot(f, i) == IF f + i - 1 < SIZE THEN f + i - 1 ELSE f + i - 1 - SIZE

LEMMA SizeIs == SIZE \in Nat /\ SIZE > 0 /\ RingChunk \in Nat /\ RingChunk > 0
BY PartAssumptions DEF Ring!SizeOK

LEMMA SpotIs ==
  ASSUME NEW f \in 0 .. SIZE - 1, NEW i \in 1 .. SIZE
  PROVE  (f + i - 1) % SIZE = Spot(f, i) /\ Spot(f, i) \in 0 .. SIZE - 1
<1>1. PICK x \in Nat : x = f + i - 1 /\ x < 2 * SIZE
  BY SizeIs
<1>2. x % SIZE = IF x < SIZE THEN x ELSE x - SIZE
  BY <1>1, SizeIs, RingMod
<1> QED
  BY <1>1, <1>2, SizeIs DEF Spot

LEMMA AdvanceIs ==
  ASSUME NEW a \in 0 .. SIZE - 1, NEW n \in Nat, n <= SIZE
  PROVE  \E y \in 0 .. SIZE - 1 :
           y = (a + n) % SIZE /\ y = IF a + n < SIZE THEN a + n ELSE a + n - SIZE
<1>1. PICK x \in Nat : x = a + n /\ x < 2 * SIZE
  BY SizeIs
<1>2. PICK y : y = IF x < SIZE THEN x ELSE x - SIZE
  OBVIOUS
<1>3. x % SIZE = y
  BY <1>1, <1>2, SizeIs, RingMod
<1>4. y \in 0 .. SIZE - 1
  BY <1>1, <1>2, SizeIs
<1>5. (a + n) % SIZE = y
  BY <1>1, <1>3
<1>6. y = IF a + n < SIZE THEN a + n ELSE a + n - SIZE
  BY <1>1, <1>2, SizeIs
<1> QED
  BY <1>4, <1>5, <1>6, Zenon

LEMMA RingChunkIs ==
  ASSUME NEW s
  PROVE  s \in Ring!Chunk <=> s \in Seq(Value) /\ Len(s) \in 1 .. RingChunk
<1>1. ASSUME s \in Ring!Chunk PROVE s \in Seq(Value) /\ Len(s) \in 1 .. RingChunk
  <2>1. PICK n \in 1 .. RingChunk : s \in [1 .. n -> Value]
    BY <1>1 DEF Ring!Chunk
  <2>2. n \in Nat
    BY <2>1, SizeIs
  <2>3. s \in Seq(Value)
    BY <2>1, <2>2, SeqDef
  <2>4. Len(s) = n
    BY <2>1, <2>2, <2>3, LenProperties
  <2> QED
    BY <2>1, <2>3, <2>4
<1>2. ASSUME s \in Seq(Value), Len(s) \in 1 .. RingChunk PROVE s \in Ring!Chunk
  <2>1. s \in [1 .. Len(s) -> Value]
    BY <1>2, LenProperties
  <2> QED
    BY <1>2, <2>1 DEF Ring!Chunk
<1> QED
  BY <1>1, <1>2

-----------------------------------------------------------------------------
(* BlynkFifo: the invariant *)

\* The flag is set in a full ring only: the positions alone cannot tell it
\* from an empty one.
OneRingInv ==
  /\ buffer \in [0 .. SIZE - 1 -> Value] /\ fst \in 0 .. SIZE - 1 /\ lst \in 0 .. SIZE - 1
  /\ flag \in {0, 1}
  /\ flag = 1 => fst = lst

Occupied(f, l, g) ==
  IF l = f THEN g * SIZE ELSE IF l > f THEN l - f ELSE SIZE + l - f

LEMMA OccupiedIs ==
  /\ Ring!getOccupied = Occupied(fst, lst, flag)
  /\ Ring!getOccupied' = Occupied(fst', lst', flag')
BY DEF Ring!getOccupied, Occupied

LEMMA OccupiedFacts ==
  ASSUME OneRingInv
  PROVE  \E o \in Nat :
           /\ o = Ring!getOccupied /\ o <= SIZE
           /\ (flag = 1) = (o = SIZE)
           /\ lst = IF fst + o < SIZE THEN fst + o ELSE fst + o - SIZE
<1>1. SIZE \in Nat /\ SIZE > 0 /\ fst \in 0 .. SIZE - 1 /\ lst \in 0 .. SIZE - 1
  BY SizeIs DEF OneRingInv
<1>2. CASE flag = 1
  <2>1. lst = fst /\ Ring!getOccupied = SIZE
    BY <1>1, <1>2 DEF OneRingInv, Ring!getOccupied
  <2> QED
    BY <1>1, <1>2, <2>1
<1>3. CASE flag = 0
  <2>1. Ring!getOccupied = IF lst = fst THEN 0 ELSE IF lst > fst THEN lst - fst ELSE SIZE + lst - fst
    BY <1>1, <1>3 DEF Ring!getOccupied
  <2> QED
    BY <1>1, <1>3, <2>1
<1> QED
  BY <1>2, <1>3 DEF OneRingInv

\* A write of n values that fit: their places, and those of the old values.
LEMMA FilledAt ==
  ASSUME OneRingInv, NEW o \in Nat, o = Ring!getOccupied, NEW n \in Nat, n > 0, o + n <= SIZE,
         NEW data \in Seq(Value), n <= Len(data)
  PROVE  /\ Ring!Filled(data, n) \in [0 .. SIZE - 1 -> Value]
         /\ \A i \in 1 .. o : Ring!Filled(data, n)[Spot(fst, i)] = buffer[Spot(fst, i)]
         /\ \A j \in 1 .. n : Ring!Filled(data, n)[Spot(fst, o + j)] = data[j]
<1>1. /\ SIZE \in Nat /\ SIZE > 0 /\ fst \in 0 .. SIZE - 1 /\ lst \in 0 .. SIZE - 1
      /\ lst = IF fst + o < SIZE THEN fst + o ELSE fst + o - SIZE
      /\ buffer \in [0 .. SIZE - 1 -> Value]
  BY SizeIs, OccupiedFacts DEF OneRingInv
<1>2. PICK ch1 \in Nat : ch1 = Ring!Min({n, SIZE - lst}) /\ ch1 = IF n <= SIZE - lst THEN n ELSE SIZE - lst
  BY <1>1, RingMin
<1>3. PICK lst2 \in Nat : lst2 = (lst + ch1) % SIZE /\ lst2 = IF lst + ch1 = SIZE THEN 0 ELSE lst + ch1
  <2>1. PICK x \in Nat : x = lst + ch1 /\ x <= SIZE
    BY <1>1, <1>2, SMTT(30)
  <2>2. x % SIZE = IF x < SIZE THEN x ELSE x - SIZE
    BY <1>1, <2>1, RingMod
  <2> QED
    BY <1>1, <2>1, <2>2
<1>10. /\ ch1 <= n /\ ch1 > 0 /\ lst + ch1 <= SIZE
       /\ n > ch1 => lst + ch1 = SIZE /\ lst2 = 0
  <2>1. ch1 = IF n <= SIZE - lst THEN n ELSE SIZE - lst
    BY <1>2
  <2>2. ch1 <= n /\ ch1 > 0 /\ lst + ch1 <= SIZE /\ (n > ch1 => lst + ch1 = SIZE)
    BY <1>1, <2>1
  <2>3. lst + ch1 = SIZE => lst2 = 0
    BY <1>3
  <2> QED
    BY <2>2, <2>3
<1> DEFINE New == [s \in 0 .. SIZE - 1 |->
                     IF s \in lst .. lst + ch1 - 1 THEN data[s - lst + 1]
                     ELSE IF s \in lst2 .. lst2 + (n - ch1) - 1 THEN data[ch1 + s - lst2 + 1]
                     ELSE buffer[s]]
<1>4. Ring!Filled(data, n) = New
  BY <1>2, <1>3 DEF Ring!Filled, Ring!Slot
<1>5. \A j \in 1 .. n : data[j] \in Value
  BY LenProperties
<1>6. ASSUME NEW s \in 0 .. SIZE - 1 PROVE New[s] \in Value
  <2>1. CASE s \in lst .. lst + ch1 - 1
    <3>1. s - lst + 1 \in 1 .. n
      BY <1>1, <1>10, <2>1
    <3> QED
      BY <1>5, <2>1, <3>1
  <2>2. CASE s \notin lst .. lst + ch1 - 1 /\ s \in lst2 .. lst2 + (n - ch1) - 1
    <3>1. PICK j \in 1 .. n : j = ch1 + s - lst2 + 1
      BY <1>1, <1>2, <1>3, <2>2, SMTT(30)
    <3> QED
      BY <1>5, <2>2, <3>1
  <2>3. CASE s \notin lst .. lst + ch1 - 1 /\ s \notin lst2 .. lst2 + (n - ch1) - 1
    BY <1>1, <2>3
  <2> QED
    BY <2>1, <2>2, <2>3
<1>7. ASSUME NEW i \in 1 .. o PROVE New[Spot(fst, i)] = buffer[Spot(fst, i)]
  <2>1. PICK s \in 0 .. SIZE - 1 : s = Spot(fst, i)
    BY <1>1, SpotIs, SMTT(30)
  <2>2. s = IF fst + i - 1 < SIZE THEN fst + i - 1 ELSE fst + i - 1 - SIZE
    BY <2>1 DEF Spot
  <2>3. s \notin lst .. lst + ch1 - 1
    BY <1>1, <1>2, <2>2
  <2>4. s \notin lst2 .. lst2 + (n - ch1) - 1
    <3>1. CASE ch1 = n
      BY <3>1
    <3>2. CASE n > ch1
      <4>1. lst2 = 0 /\ ch1 = SIZE - lst
        BY <1>1, <1>10, <3>2
      <4>2. s >= n - ch1
        BY <1>1, <2>2, <3>2, <4>1
      <4> QED
        BY <1>1, <4>1, <4>2
    <3> QED
      BY <1>10, <3>1, <3>2
  <2> QED
    BY <2>1, <2>3, <2>4
<1>8. ASSUME NEW j \in 1 .. n PROVE New[Spot(fst, o + j)] = data[j]
  <2>1. o + j \in 1 .. SIZE
    BY <1>1
  <2>2. PICK s \in 0 .. SIZE - 1 : s = Spot(fst, o + j)
    BY <1>1, <2>1, SpotIs
  <2>3. s = IF fst + (o + j) - 1 < SIZE THEN fst + (o + j) - 1 ELSE fst + (o + j) - 1 - SIZE
    BY <2>2 DEF Spot
  <2>4. CASE j <= ch1
    <3>1. s \in lst .. lst + ch1 - 1 /\ s - lst + 1 = j
      BY <1>1, <1>2, <2>3, <2>4
    <3> QED
      BY <2>2, <3>1
  <2>5. CASE j > ch1
    <3>1. s \notin lst .. lst + ch1 - 1
      BY <1>1, <1>2, <2>3, <2>5
    <3>2. s \in lst2 .. lst2 + (n - ch1) - 1 /\ ch1 + s - lst2 + 1 = j
      <4>1. lst2 = 0 /\ ch1 = SIZE - lst
        BY <1>1, <1>10, <2>5
      <4>2. s = j - ch1 - 1
        BY <1>1, <2>3, <2>5, <4>1
      <4> QED
        BY <1>1, <2>5, <4>1, <4>2
    <3> QED
      BY <2>2, <3>1, <3>2
  <2> QED
    BY <1>2, <2>4, <2>5
<1>9. New \in [0 .. SIZE - 1 -> Value]
  BY <1>6
<1> HIDE DEF New
<1> QED
  BY <1>4, <1>7, <1>8, <1>9

-----------------------------------------------------------------------------
(* BlynkFifo implements the queue *)

LEMMA OccupiedBounds ==
  ASSUME NEW f \in 0 .. SIZE - 1, NEW l \in 0 .. SIZE - 1, NEW g \in {0, 1}
  PROVE  Occupied(f, l, g) \in Nat /\ Occupied(f, l, g) <= SIZE
<1>1. CASE g = 0
  BY <1>1, SizeIs DEF Occupied
<1>2. CASE g = 1
  BY <1>2, SizeIs DEF Occupied
<1> QED
  BY <1>1, <1>2

\* What the ring holds, as a sequence.
LEMMA RingContent ==
  ASSUME OneRingInv
  PROVE  \E q \in Seq(Value), o \in Nat :
           /\ q = Ring!Content /\ o = Ring!getOccupied /\ Len(q) = o /\ o <= SIZE
           /\ \A i \in 1 .. o : q[i] = buffer[Spot(fst, i)]
<1>1. PICK o \in Nat : o = Ring!getOccupied /\ o <= SIZE
  BY OccupiedFacts
<1>2. \A i \in 1 .. o : buffer[(fst + i - 1) % SIZE] = buffer[Spot(fst, i)]
                        /\ buffer[(fst + i - 1) % SIZE] \in Value
  <2>1. TAKE i \in 1 .. o
  <2>2. i \in 1 .. SIZE
    BY <1>1, SizeIs
  <2>3. (fst + i - 1) % SIZE = Spot(fst, i) /\ Spot(fst, i) \in 0 .. SIZE - 1
    BY <2>2, SpotIs DEF OneRingInv
  <2> QED
    BY <2>3 DEF OneRingInv
<1> DEFINE q == [i \in 1 .. o |-> buffer[(fst + i - 1) % SIZE]]
<1>3. q \in Seq(Value) /\ Len(q) = o /\ \A i \in 1 .. o : q[i] = buffer[(fst + i - 1) % SIZE]
  BY <1>2, IsASeq
<1>4. Ring!Content = q
  BY <1>1 DEF Ring!Content
<1> QED
  BY <1>1, <1>2, <1>3, <1>4

\* The same one step later.
LEMMA RingContentAfter ==
  ASSUME OneRingInv'
  PROVE  \E q \in Seq(Value), o \in Nat :
           /\ q = Ring!Content' /\ o = Ring!getOccupied' /\ Len(q) = o /\ o <= SIZE
           /\ \A i \in 1 .. o : q[i] = buffer'[Spot(fst', i)]
<1>1. PICK o \in Nat : o = Ring!getOccupied' /\ o <= SIZE
  <2>1. /\ fst' \in 0 .. SIZE - 1 /\ lst' \in 0 .. SIZE - 1 /\ flag' \in {0, 1}
    BY DEF OneRingInv
  <2>2. Occupied(fst', lst', flag') \in Nat /\ Occupied(fst', lst', flag') <= SIZE
    BY <2>1, OccupiedBounds
  <2> QED
    BY <2>2, OccupiedIs
<1>2. \A i \in 1 .. o : buffer'[(fst' + i - 1) % SIZE] = buffer'[Spot(fst', i)]
                        /\ buffer'[(fst' + i - 1) % SIZE] \in Value
  <2>1. TAKE i \in 1 .. o
  <2>2. i \in 1 .. SIZE
    BY <1>1, SizeIs
  <2>3. fst' \in 0 .. SIZE - 1 /\ buffer' \in [0 .. SIZE - 1 -> Value]
    BY DEF OneRingInv
  <2>4. (fst' + i - 1) % SIZE = Spot(fst', i) /\ Spot(fst', i) \in 0 .. SIZE - 1
    BY <2>2, <2>3, SpotIs
  <2> QED
    BY <2>3, <2>4
<1> DEFINE q == [i \in 1 .. o |-> buffer'[(fst' + i - 1) % SIZE]]
<1>3. q \in Seq(Value) /\ Len(q) = o /\ \A i \in 1 .. o : q[i] = buffer'[(fst' + i - 1) % SIZE]
  BY <1>2, IsASeq
<1>4. Ring!Content' = q
  BY <1>1 DEF Ring!Content
<1> QED
  BY <1>1, <1>2, <1>3, <1>4

\* r is q and the first n of d.
Joined(q, d, n, r) ==
  /\ Len(r) = Len(q) + n
  /\ \A i \in 1 .. Len(q) : r[i] = q[i]
  /\ \A j \in 1 .. n : r[Len(q) + j] = d[j]

LEMMA Extended ==
  ASSUME NEW q \in Seq(Value), NEW d \in Seq(Value), NEW r \in Seq(Value),
         NEW n \in Nat, n <= Len(d), Joined(q, d, n, r)
  PROVE  r = q \o SubSeq(d, 1, n)
<1>1. PICK s \in Seq(Value) : s = SubSeq(d, 1, n) /\ Len(s) = n /\ \A j \in 1 .. n : s[j] = d[j]
  <2>1. \A j \in 1 .. n : d[j] \in Value
    BY LenProperties
  <2>2. SubSeq(d, 1, n) = [j \in 1 .. n |-> d[j]]
    BY LenProperties
  <2> DEFINE t == [j \in 1 .. n |-> d[j]]
  <2>3. t \in Seq(Value) /\ Len(t) = n /\ \A j \in 1 .. n : t[j] = d[j]
    BY <2>1, IsASeq
  <2> HIDE DEF t
  <2> QED
    BY <2>2, <2>3 DEF t
<1>2. PICK l \in Nat : l = Len(q)
  BY LenProperties
<1>3. PICK w \in Seq(Value) : w = q \o s
  BY ConcatProperties
<1>4. Len(w) = l + n /\ \A i \in 1 .. l + n : w[i] = IF i <= l THEN q[i] ELSE s[i - l]
  <2>1. Len(q \o s) = Len(q) + Len(s)
        /\ \A i \in 1 .. Len(q) + Len(s) :
             (q \o s)[i] = IF i <= Len(q) THEN q[i] ELSE s[i - Len(q)]
    BY ConcatProperties
  <2> QED
    BY <1>1, <1>2, <1>3, <2>1
<1>5. ASSUME NEW i \in 1 .. l + n PROVE r[i] = w[i]
  <2>1. CASE i <= l
    BY <1>2, <1>4, <2>1 DEF Joined
  <2>2. CASE i > l
    <3>1. PICK j \in 1 .. n : j = i - l /\ i = l + j
      BY <2>2
    <3>2. r[i] = d[j] /\ s[j] = d[j]
      BY <1>1, <1>2, <3>1 DEF Joined
    <3> QED
      BY <1>4, <2>2, <3>1, <3>2
  <2> QED
    BY <2>1, <2>2
<1>6. r = w
  BY <1>2, <1>4, <1>5, SeqEqual DEF Joined
<1> QED
  BY <1>1, <1>3, <1>6

\* How much of the data is stored, as the code and as the queue say it.
LEMMA FitIs ==
  ASSUME OneRingInv, NEW data \in Ring!Chunk, NEW o \in Nat, o = Ring!getOccupied
  PROVE  \E n \in Nat :
           /\ n = Ring!Min({Len(data), Ring!getFree})
           /\ n = Ring!Queue!Min({Len(data), SIZE - o})
           /\ n <= Len(data) /\ o + n <= SIZE
           /\ n = 0 => o = SIZE
<1>1. Len(data) \in 1 .. RingChunk /\ o <= SIZE /\ Ring!getFree = SIZE - o
  BY RingChunkIs, OccupiedFacts DEF Ring!getFree
<1>2. PICK a \in Nat, b \in Nat : a = Len(data) /\ b = SIZE - o /\ a > 0
  BY <1>1, SizeIs
<1>3. /\ Ring!Min({a, b}) = IF a <= b THEN a ELSE b
      /\ Ring!Queue!Min({a, b}) = IF a <= b THEN a ELSE b
  BY RingMin
<1>4. PICK n \in Nat : n = IF a <= b THEN a ELSE b
  OBVIOUS
<1>5. n <= a /\ n <= b /\ (n = 0 => b = 0)
  BY <1>2, <1>4
<1>6. o + n <= SIZE /\ (n = 0 => o = SIZE)
  BY <1>2, <1>5, SizeIs
<1> QED
  BY <1>1, <1>2, <1>3, <1>4, <1>5, <1>6

LEMMA WriteFacts ==
  ASSUME OneRingInv, NEW data \in Ring!Chunk, Ring!write(data), NEW o \in Nat, o = Ring!getOccupied,
         NEW n \in Nat, n = Ring!Min({Len(data), Ring!getFree}), n > 0, n <= Len(data),
         o + n <= SIZE
  PROVE  /\ OneRingInv' /\ Ring!getOccupied' = o + n
         /\ buffer' = Ring!Filled(data, n) /\ fst' = fst
<1>1. /\ buffer' = Ring!Filled(data, n) /\ lst' = (lst + n) % SIZE
      /\ flag' = IF fst = lst' THEN 1 ELSE flag
      /\ fst' = fst
  BY DEF Ring!write
<1>2. /\ SIZE \in Nat /\ SIZE > 0 /\ fst \in 0 .. SIZE - 1 /\ lst \in 0 .. SIZE - 1
      /\ lst = IF fst + o < SIZE THEN fst + o ELSE fst + o - SIZE
      /\ flag = 0
  <2>1. o # SIZE
    BY SizeIs
  <2> QED
    BY <2>1, SizeIs, OccupiedFacts DEF OneRingInv
<1>3. PICK l \in 0 .. SIZE - 1 : l = lst' /\ l = IF lst + n < SIZE THEN lst + n ELSE lst + n - SIZE
  <2>1. n <= SIZE
    BY SizeIs
  <2>2. PICK y \in 0 .. SIZE - 1 :
          y = (lst + n) % SIZE /\ y = IF lst + n < SIZE THEN lst + n ELSE lst + n - SIZE
    BY <1>2, <2>1, AdvanceIs
  <2>3. lst' = y
    BY <1>1, <2>2
  <2> QED
    BY <2>2, <2>3
<1>4. PICK g \in {0, 1} : g = flag' /\ g = IF fst = l THEN 1 ELSE 0
  BY <1>1, <1>2, <1>3
<1>5. Occupied(fst, l, g) = o + n
  BY <1>2, <1>3, <1>4, SMTT(30) DEF Occupied
<1>6. data \in Seq(Value)
  BY RingChunkIs
<1>7. buffer' \in [0 .. SIZE - 1 -> Value]
  BY <1>1, <1>6, FilledAt
<1>8. Ring!getOccupied' = o + n
  BY <1>1, <1>3, <1>4, <1>5, OccupiedIs
<1>9. OneRingInv'
  <2>1. fst' \in 0 .. SIZE - 1 /\ lst' \in 0 .. SIZE - 1 /\ flag' \in {0, 1}
    BY <1>1, <1>2, <1>3, <1>4
  <2>2. flag' = 1 => fst' = lst'
    BY <1>1, <1>3, <1>4
  <2> QED
    BY <1>7, <2>1, <2>2 DEF OneRingInv
<1> QED
  BY <1>1, <1>8, <1>9

LEMMA WriteOffers ==
  ASSUME OneRingInv, NEW data \in Ring!Chunk, Ring!write(data)
  PROVE  OneRingInv' /\ Ring!Queue!Offer(data)
<1>1. data \in Seq(Value)
  BY RingChunkIs
<1>2. PICK q \in Seq(Value), o \in Nat :
        /\ q = Ring!Content /\ o = Ring!getOccupied /\ Len(q) = o /\ o <= SIZE
        /\ \A i \in 1 .. o : q[i] = buffer[Spot(fst, i)]
  BY RingContent
<1>3. PICK n \in Nat : /\ n = Ring!Min({Len(data), Ring!getFree})
                       /\ n = Ring!Queue!Min({Len(data), SIZE - o})
                       /\ n <= Len(data) /\ o + n <= SIZE
  BY <1>2, FitIs
<1>4. rin' = data /\ rout' = rout
  BY DEF Ring!write
<1>5. CASE n = 0
  <2>1. buffer' = buffer /\ fst' = fst /\ lst' = lst /\ flag' = flag
    BY <1>3, <1>5 DEF Ring!write
  <2>2. Ring!Content' = q
    BY <1>2, <2>1 DEF Ring!Content, Ring!getOccupied
  <2>3. q = q \o SubSeq(data, 1, n)
    <3>1. Joined(q, data, n, q)
      BY <1>2, <1>5 DEF Joined
    <3> QED
      BY <1>1, <1>3, <3>1, Extended
  <2>4. OneRingInv'
    BY <2>1 DEF OneRingInv
  <2> QED
    BY <1>2, <1>3, <1>4, <2>2, <2>3, <2>4 DEF Ring!Queue!Offer
<1>6. CASE n > 0
  <2>1. OneRingInv' /\ Ring!getOccupied' = o + n /\ buffer' = Ring!Filled(data, n) /\ fst' = fst
    BY <1>2, <1>3, <1>6, WriteFacts
  <2>2. PICK r \in Seq(Value) :
          /\ r = Ring!Content' /\ Len(r) = o + n
          /\ \A i \in 1 .. o + n : r[i] = buffer'[Spot(fst, i)]
    BY <2>1, RingContentAfter
  <2>3. /\ \A i \in 1 .. o : buffer'[Spot(fst, i)] = buffer[Spot(fst, i)]
        /\ \A j \in 1 .. n : buffer'[Spot(fst, o + j)] = data[j]
    BY <1>1, <1>2, <1>3, <1>6, <2>1, FilledAt, ZenonT(60)
  <2>4. \A i \in 1 .. Len(q) : r[i] = q[i]
    BY <1>2, <2>2, <2>3
  <2>5. \A j \in 1 .. n : r[Len(q) + j] = data[j]
    <3>1. TAKE j \in 1 .. n
    <3>2. o + j \in 1 .. o + n
      OBVIOUS
    <3> QED
      BY <1>2, <2>2, <2>3, <3>2
  <2>6. r = q \o SubSeq(data, 1, n)
    <3>1. Joined(q, data, n, r)
      BY <1>2, <2>2, <2>4, <2>5 DEF Joined
    <3> QED
      BY <1>1, <1>3, <3>1, Extended
  <2> QED
    BY <1>2, <1>3, <1>4, <2>1, <2>2, <2>6 DEF Ring!Queue!Offer
<1> QED
  BY <1>5, <1>6

-----------------------------------------------------------------------------
\* A read of n values drops the first n.
LEMMA ReadFacts ==
  ASSUME OneRingInv, NEW o \in Nat, o = Ring!getOccupied, NEW n \in Nat, n > 0, n <= o,
         fst' = (fst + n) % SIZE, flag' = 0, buffer' = buffer, lst' = lst
  PROVE  /\ OneRingInv' /\ Ring!getOccupied' = o - n
         /\ fst' \in 0 .. SIZE - 1
         /\ fst' = IF fst + n < SIZE THEN fst + n ELSE fst + n - SIZE
<1>1. /\ SIZE \in Nat /\ SIZE > 0 /\ fst \in 0 .. SIZE - 1 /\ lst \in 0 .. SIZE - 1 /\ o <= SIZE
      /\ lst = IF fst + o < SIZE THEN fst + o ELSE fst + o - SIZE
  BY SizeIs, OccupiedFacts DEF OneRingInv
<1>2. PICK f \in 0 .. SIZE - 1 : f = fst' /\ f = IF fst + n < SIZE THEN fst + n ELSE fst + n - SIZE
  <2>1. n <= SIZE
    BY <1>1
  <2>2. PICK y \in 0 .. SIZE - 1 :
          y = (fst + n) % SIZE /\ y = IF fst + n < SIZE THEN fst + n ELSE fst + n - SIZE
    BY <1>1, <2>1, AdvanceIs
  <2>3. fst' = y
    BY <1>1, <2>2
  <2> QED
    BY <2>2, <2>3
<1>3. Occupied(f, lst, 0) = o - n
  BY <1>1, <1>2 DEF Occupied
<1>4. Ring!getOccupied' = o - n
  BY <1>2, <1>3, OccupiedIs
<1>5. buffer' \in [0 .. SIZE - 1 -> Value]
  BY DEF OneRingInv
<1>6. fst' \in 0 .. SIZE - 1 /\ lst' \in 0 .. SIZE - 1 /\ flag' \in {0, 1} /\ flag' # 1
  BY <1>1, <1>2
<1>7. OneRingInv'
  BY <1>5, <1>6 DEF OneRingInv
<1> QED
  BY <1>2, <1>4, <1>7

\* What a read copies out, also round the end of the array.
LEMMA TakenIs ==
  ASSUME OneRingInv, NEW n \in Nat, n > 0, n <= SIZE
  PROVE  Ring!Taken(n) = [i \in 1 .. n |-> buffer[Spot(fst, i)]]
<1>1. SIZE \in Nat /\ SIZE > 0 /\ fst \in 0 .. SIZE - 1
  BY SizeIs DEF OneRingInv
<1>2. PICK ch1 \in Nat : ch1 = Ring!Min({n, SIZE - fst}) /\ ch1 = IF n <= SIZE - fst THEN n ELSE SIZE - fst
  BY <1>1, RingMin
<1>3. PICK fst2 \in Nat : fst2 = (fst + ch1) % SIZE /\ (fst + ch1 = SIZE => fst2 = 0)
  <2>1. PICK x \in Nat : x = fst + ch1 /\ x <= SIZE
    BY <1>1, <1>2
  <2>2. x % SIZE = IF x < SIZE THEN x ELSE x - SIZE
    BY <1>1, <2>1, RingMod
  <2> QED
    BY <1>1, <2>1, <2>2
<1>4. Ring!Taken(n) = [i \in 1 .. n |-> IF i <= ch1 THEN buffer[fst + i - 1]
                                                    ELSE buffer[fst2 + (i - ch1) - 1]]
  BY <1>2, <1>3 DEF Ring!Taken
<1>5. ASSUME NEW i \in 1 .. n
      PROVE  (IF i <= ch1 THEN buffer[fst + i - 1] ELSE buffer[fst2 + (i - ch1) - 1])
               = buffer[Spot(fst, i)]
  <2>1. ch1 = IF n <= SIZE - fst THEN n ELSE SIZE - fst
    BY <1>2
  <2>2. CASE i <= ch1
    <3>1. Spot(fst, i) = fst + i - 1
      BY <1>1, <2>1, <2>2 DEF Spot
    <3> QED
      BY <2>2, <3>1
  <2>3. CASE i > ch1
    <3>1. ch1 = SIZE - fst /\ fst2 = 0
      BY <1>1, <1>3, <2>1, <2>3
    <3>2. Spot(fst, i) = fst + i - 1 - SIZE
      BY <1>1, <2>3, <3>1 DEF Spot
    <3>3. fst2 + (i - ch1) - 1 = fst + i - 1 - SIZE
      BY <1>1, <3>1
    <3> QED
      BY <2>3, <3>2, <3>3
  <2> QED
    BY <2>2, <2>3
<1> QED
  BY <1>4, <1>5

LEMMA ReadGets ==
  ASSUME OneRingInv, NEW k \in 1 .. RingChunk, Ring!read(k)
  PROVE  OneRingInv' /\ \E n \in 1 .. RingChunk : Ring!Queue!Get(n)
<1>1. PICK q \in Seq(Value), o \in Nat :
        /\ q = Ring!Content /\ o = Ring!getOccupied /\ Len(q) = o /\ o <= SIZE
        /\ \A i \in 1 .. o : q[i] = buffer[Spot(fst, i)]
  BY RingContent
<1>2. PICK n \in Nat : n = Ring!Min({k, o}) /\ n <= k /\ n <= o
  <2>1. Ring!Min({k, o}) = IF k <= o THEN k ELSE o
    BY SizeIs, RingMin
  <2>2. PICK n \in Nat : n = (IF k <= o THEN k ELSE o)
    BY SizeIs
  <2> QED
    BY <2>1, <2>2, SizeIs
<1>3. /\ n > 0 /\ rout' = Ring!Taken(n) /\ fst' = (fst + n) % SIZE /\ flag' = 0
      /\ buffer' = buffer /\ lst' = lst /\ rin' = rin
  BY <1>1, <1>2 DEF Ring!read
<1>4. /\ OneRingInv' /\ Ring!getOccupied' = o - n
      /\ fst' \in 0 .. SIZE - 1
      /\ fst' = IF fst + n < SIZE THEN fst + n ELSE fst + n - SIZE
  BY <1>1, <1>2, <1>3, ReadFacts
<1>5. PICK r \in Seq(Value), m \in Nat :
        /\ r = Ring!Content' /\ m = o - n /\ Len(r) = m
        /\ \A i \in 1 .. m : r[i] = buffer[Spot(fst', i)]
  BY <1>3, <1>4, RingContentAfter
<1>6. rout' = SubSeq(q, 1, n)
  <2>1. SubSeq(q, 1, n) = [i \in 1 .. n |-> q[i]]
    BY <1>1, <1>2
  <2>2. Ring!Taken(n) = [i \in 1 .. n |-> buffer[Spot(fst, i)]]
    <3>1. n <= SIZE
      BY <1>1, <1>2, SizeIs
    <3> QED
      BY <1>3, <3>1, TakenIs
  <2>3. \A i \in 1 .. n : q[i] = buffer[Spot(fst, i)]
    BY <1>1, <1>2
  <2> QED
    BY <1>3, <2>1, <2>2, <2>3
<1>7. r = SubSeq(q, n + 1, Len(q))
  <2>1. PICK a \in Nat : a = n + 1
    OBVIOUS
  <2>2. SubSeq(q, a, o) = [i \in 1 .. m |-> q[i + n]]
    <3>1. SubSeq(q, a, o) = [i \in 1 .. (1 + o - a) |-> q[i + a - 1]]
      BY <1>1, <2>1
    <3>2. 1 + o - a = m /\ \A i \in 1 .. m : i + a - 1 = i + n
      BY <1>5, <2>1
    <3> QED
      BY <3>1, <3>2
  <2>3. ASSUME NEW i \in 1 .. m PROVE q[i + n] = r[i]
    <3>1. PICK j \in 1 .. o : j = i + n
      BY <1>5
    <3>2. Spot(fst, j) = Spot(fst', i)
      <4>1. PICK f \in 0 .. SIZE - 1 : f = fst' /\ f = IF fst + n < SIZE THEN fst + n ELSE fst + n - SIZE
        BY <1>4
      <4>2. Spot(fst, j) = Spot(f, i)
        <5>1. /\ fst \in 0 .. SIZE - 1 /\ SIZE \in Nat /\ n <= o /\ o <= SIZE /\ n > 0
              /\ i >= 1 /\ i <= o - n /\ j = i + n /\ i \in Int
          BY <1>1, <1>2, <1>3, <1>5, <3>1, SizeIs DEF OneRingInv
        <5>2. CASE fst + n < SIZE
          <6>1. f = fst + n
            BY <4>1, <5>2
          <6> QED
            BY <5>1, <6>1 DEF Spot
        <5>3. CASE ~(fst + n < SIZE)
          <6>1. f = fst + n - SIZE
            BY <4>1, <5>3
          <6> QED
            BY <5>1, <5>3, <6>1 DEF Spot
        <5> QED
          BY <5>2, <5>3
      <4> QED
        BY <4>1, <4>2
    <3> QED
      BY <1>1, <1>5, <3>1, <3>2
  <2>4. r = [i \in 1 .. m |-> r[i]]
    BY <1>5, LenProperties
  <2> QED
    BY <1>1, <2>1, <2>2, <2>3, <2>4
<1>8. n \in 1 .. RingChunk
  BY <1>2, <1>3, SizeIs
<1>9. Ring!Queue!Get(n)
  BY <1>1, <1>2, <1>3, <1>5, <1>6, <1>7 DEF Ring!Queue!Get
<1> QED
  BY <1>4, <1>8, <1>9

LEMMA RingClears ==
  ASSUME OneRingInv, Ring!clear
  PROVE  OneRingInv' /\ Ring!Queue!Clear
<1>1. /\ fst' = 0 /\ lst' = 0 /\ flag' = 0 /\ buffer' = buffer /\ rin' = rin /\ rout' = rout
  BY DEF Ring!clear
<1>2. OneRingInv'
  BY <1>1, SizeIs DEF OneRingInv
<1>3. Ring!getOccupied' = 0
  BY <1>1, OccupiedIs, SizeIs DEF Occupied
<1>4. Ring!Content' = <<>>
  <2>1. PICK r \in Seq(Value), m \in Nat : r = Ring!Content' /\ m = Ring!getOccupied' /\ Len(r) = m
    BY <1>2, RingContentAfter
  <2> QED
    BY <1>3, <2>1, EmptySeq
<1> QED
  BY <1>1, <1>2, <1>4 DEF Ring!Queue!Clear

LEMMA RingStarts ==
  ASSUME Ring!Init
  PROVE  OneRingInv /\ Ring!Queue!Init
<1>1. /\ buffer \in [0 .. SIZE - 1 -> Value] /\ fst = 0 /\ lst = 0 /\ flag = 0
      /\ rin = <<>> /\ rout = <<>>
  BY DEF Ring!Init, Ring!Slot
<1>2. OneRingInv
  BY <1>1, SizeIs DEF OneRingInv
<1>3. Ring!getOccupied = 0
  BY <1>1, SizeIs DEF Ring!getOccupied
<1>4. Ring!Content = <<>>
  <2>1. PICK r \in Seq(Value), m \in Nat : r = Ring!Content /\ m = Ring!getOccupied /\ Len(r) = m
    BY <1>2, RingContent
  <2> QED
    BY <1>3, <2>1, EmptySeq
<1> QED
  BY <1>1, <1>2, <1>4 DEF Ring!Queue!Init

LEMMA RingSteps ==
  ASSUME OneRingInv, [Ring!Next]_(Ring!vars)
  PROVE  OneRingInv' /\ [Ring!Queue!Next]_(Ring!Queue!vars)
<1>1. CASE Ring!clear
  BY <1>1, RingClears DEF Ring!Queue!Next
<1>2. ASSUME NEW data \in Ring!Chunk, Ring!write(data)
      PROVE  OneRingInv' /\ Ring!Queue!Next
  <2>1. data \in Ring!Queue!Chunk
    BY DEF Ring!Chunk, Ring!Queue!Chunk
  <2> QED
    BY <1>2, <2>1, WriteOffers DEF Ring!Queue!Next
<1>3. ASSUME NEW k \in 1 .. RingChunk, Ring!read(k)
      PROVE  OneRingInv' /\ Ring!Queue!Next
  BY <1>3, ReadGets DEF Ring!Queue!Next
<1>4. CASE UNCHANGED Ring!vars
  <2>1. UNCHANGED <<buffer, fst, lst, flag, rin, rout>>
    BY <1>4 DEF Ring!vars
  <2>2. Ring!Content' = Ring!Content
    BY <2>1 DEF Ring!Content, Ring!getOccupied
  <2>3. OneRingInv'
    BY <2>1 DEF OneRingInv
  <2> QED
    BY <2>1, <2>2, <2>3 DEF Ring!Queue!vars
<1> QED
  BY <1>1, <1>2, <1>3, <1>4 DEF Ring!Next

\* BlynkFifo: write, read and clear are those of a bounded queue, for every size
\* of the ring and every length of the chunks, longer than the ring too.
THEOREM RingIsQueueTheorem == Ring!Spec => RingIsQueue
<1>1. Ring!Init => OneRingInv /\ Ring!Queue!Init
  BY RingStarts
<1>2. OneRingInv /\ [Ring!Next]_(Ring!vars) => OneRingInv' /\ [Ring!Queue!Next]_(Ring!Queue!vars)
  BY RingSteps
<1> QED
  BY <1>1, <1>2, PTL DEF Ring!Spec, RingIsQueue, Ring!ImplementsFifo, Ring!Queue!Spec
-----------------------------------------------------------------------------
(* BlynkMsgLimit *)

\* The gap of a sketch that keeps to the limit never draws the average below
\* the threshold, if that is 32 or more: a smaller gap counts for -1.
LEMMA AverageStaysUp ==
  ASSUME NEW d \in Nat, NEW x \in Nat, NEW T \in Nat,
         T >= 32, d >= T, x >= T
  PROVE  Average(d, x) \in Nat /\ Average(d, x) >= T
<1>1. x \div 32 >= T \div 32 /\ T \div 32 > 0
  OBVIOUS
<1>2. CASE d < 32 * (T \div 32 + 1)
  <2>1. d \div 32 <= T \div 32
    BY <1>2
  <2> QED
    BY <1>1, <2>1 DEF Average
<1>3. CASE d >= 32 * (T \div 32 + 1)
  <2>1. d - d \div 32 >= 32 * (T \div 32 + 1) - (T \div 32 + 1)
    BY <1>3
  <2>2. T < 32 * (T \div 32 + 1)
    OBVIOUS
  <2> QED
    BY <1>1, <2>1, <2>2 DEF Average
<1> QED
  BY <1>2, <1>3

KeepsLimit == Threshold >= 32 /\ \A x \in Gaps : x >= Threshold

LEMMA ThresholdType == Threshold \in Nat
  BY LimitAssumption DEF Threshold

\* A client that is connected is at the threshold, whatever the sketch does.
LEMMA LimitStarts == Init => AboveThreshold
<1> SUFFICES ASSUME Init PROVE AboveThreshold
  OBVIOUS
<1>1. deltaCmd \in Int
  BY DEF Init
<1>2. connected \in BOOLEAN /\ ~connected
  BY Zenon DEF Init
<1> QED
  BY <1>1, <1>2, Zenon DEF AboveThreshold

LEMMA LimitStep == AboveThreshold /\ [Next]_vars => AboveThreshold'
<1> SUFFICES ASSUME AboveThreshold, [Next]_vars PROVE AboveThreshold'
  OBVIOUS
<1>1. ASSUME NEW d \in Int, deltaCmd' = d, connected' = (deltaCmd' >= Threshold)
      PROVE  AboveThreshold'
  <2>1. CASE deltaCmd' >= Threshold
    <3>1. connected' = TRUE
      BY <1>1, <2>1, Zenon
    <3>2. deltaCmd' \in Nat /\ deltaCmd' \in Int
      BY <1>1, <2>1, ThresholdType
    <3>3. connected' \in BOOLEAN
      BY <3>1
    <3> QED
      BY <2>1, <3>2, <3>3, Zenon DEF AboveThreshold
  <2>2. CASE ~(deltaCmd' >= Threshold)
    <3>1. connected' = FALSE
      <4>1. (deltaCmd' >= Threshold) = FALSE
        BY <2>2
      <4> QED
        BY <1>1, <4>1, Zenon
    <3>2. deltaCmd' \in Int
      BY <1>1
    <3>3. connected' \in BOOLEAN /\ ~connected'
      BY <3>1
    <3> QED
      BY <3>2, <3>3, Zenon DEF AboveThreshold
  <2> QED
    BY <2>1, <2>2
<1>2. CASE Login
  <2>1. PICK x \in Gaps : /\ deltaCmd' = Average(1000, x)
                          /\ connected' = (deltaCmd' >= Threshold)
    BY <1>2 DEF Login
  <2>2. Average(1000, x) \in Int
    BY GapsAssumption DEF Average
  <2> QED
    BY <1>1, <2>1, <2>2
<1>3. CASE Send
  <2>1. PICK x \in Gaps : /\ deltaCmd' = Average(deltaCmd, x)
                          /\ connected' = (deltaCmd' >= Threshold)
    BY <1>3 DEF Send
  <2>2. Average(deltaCmd, x) \in Int
    BY GapsAssumption DEF Average, AboveThreshold
  <2> QED
    BY <1>1, <2>1, <2>2
<1>4. CASE UNCHANGED vars
  BY <1>4 DEF vars, AboveThreshold
<1> QED
  BY <1>2, <1>3, <1>4 DEF Next

\* sendCmd: with the limit at 31 commands a second or fewer, and a sketch that
\* keeps to it between any two commands, the client is never cut off.
THEOREM NeverCutTheorem == ASSUME KeepsLimit PROVE Spec => NeverCut
<1>1. Init => AboveThreshold
  <2> SUFFICES ASSUME Init PROVE AboveThreshold
    OBVIOUS
  <2>1. deltaCmd \in Int
    BY DEF Init
  <2>2. connected \in BOOLEAN /\ ~connected
    BY Zenon DEF Init
  <2> QED
    BY <2>1, <2>2, Zenon DEF AboveThreshold
<1>2. AboveThreshold /\ [Next]_vars => AboveThreshold' /\ (connected => connected')
  <2> SUFFICES ASSUME AboveThreshold, [Next]_vars
               PROVE  AboveThreshold' /\ (connected => connected')
    OBVIOUS
  <2>1. CASE Login
    <3>1. PICK x \in Gaps : /\ deltaCmd' = Average(1000, x)
                            /\ connected' = (deltaCmd' >= Threshold)
      BY <2>1 DEF Login
    <3>2. Average(1000, x) \in Nat
      BY GapsAssumption DEF Average
    <3> QED
      BY <2>1, <3>1, <3>2 DEF Login, AboveThreshold
  <2>2. CASE Send
    <3>1. PICK x \in Gaps : /\ deltaCmd' = Average(deltaCmd, x)
                            /\ connected' = (deltaCmd' >= Threshold)
      BY <2>2 DEF Send
    <3>2. /\ deltaCmd \in Nat /\ deltaCmd >= Threshold
          /\ x \in Nat /\ x >= Threshold /\ Threshold >= 32
      BY <2>2, GapsAssumption DEF Send, AboveThreshold, KeepsLimit
    <3>3. Average(deltaCmd, x) \in Nat /\ Average(deltaCmd, x) >= Threshold
      BY <3>2, AverageStaysUp, ThresholdType
    <3> QED
      BY <3>1, <3>3 DEF AboveThreshold
  <2>3. CASE UNCHANGED vars
    BY <2>3 DEF vars, AboveThreshold
  <2> QED
    BY <2>1, <2>2, <2>3 DEF Next
<1> QED
  BY <1>1, <1>2, PTL DEF Spec, NeverCut

-----------------------------------------------------------------------------
(* The two threads *)

\* BlynkFifo2Proofs is about the module that MCBlynkUtility calls Threads.
LEMMA SameStart == Threads!Init <=> ThreadProofs!Init
BY DEF Threads!Init, ThreadProofs!Init, Threads!Slot, ThreadProofs!Slot

LEMMA SameSteps == [Threads!Next]_(Threads!vars) <=> [ThreadProofs!Next]_(ThreadProofs!vars)
<1>1. \A data, t : Threads!PutStart(data, t) <=> ThreadProofs!PutStart(data, t)
  BY DEF Threads!PutStart, ThreadProofs!PutStart, Threads!ring, ThreadProofs!ring,
         Threads!writer, ThreadProofs!writer, Threads!reader, ThreadProofs!reader
<1>2. \A n, t : Threads!GetStart(n, t) <=> ThreadProofs!GetStart(n, t)
  BY DEF Threads!GetStart, ThreadProofs!GetStart, Threads!ring, ThreadProofs!ring,
         Threads!writer, ThreadProofs!writer, Threads!reader, ThreadProofs!reader
<1>3. Threads!PutRefused <=> ThreadProofs!PutRefused
  BY DEF Threads!PutRefused, ThreadProofs!PutRefused, Threads!free,
         ThreadProofs!free, Threads!ring, ThreadProofs!ring, Threads!writer,
         ThreadProofs!writer, Threads!reader, ThreadProofs!reader
<1>4. Threads!PutSpace <=> ThreadProofs!PutSpace
  BY DEF Threads!PutSpace, ThreadProofs!PutSpace, Threads!free, ThreadProofs!free,
         Threads!Min, ThreadProofs!Min, Threads!ring, ThreadProofs!ring,
         Threads!writer, ThreadProofs!writer, Threads!reader, ThreadProofs!reader
<1>5. Threads!PutCopy <=> ThreadProofs!PutCopy
  BY DEF Threads!PutCopy, ThreadProofs!PutCopy, Threads!Slot, ThreadProofs!Slot,
         Threads!ring, ThreadProofs!ring, Threads!writer, ThreadProofs!writer,
         Threads!reader, ThreadProofs!reader
<1>6. Threads!PutPublish <=> ThreadProofs!PutPublish
  BY DEF Threads!PutPublish, ThreadProofs!PutPublish, Threads!_inc,
         ThreadProofs!_inc, Threads!ring, ThreadProofs!ring, Threads!writer,
         ThreadProofs!writer, Threads!reader, ThreadProofs!reader
<1>7. Threads!GetRefused <=> ThreadProofs!GetRefused
  BY DEF Threads!GetRefused, ThreadProofs!GetRefused, Threads!size,
         ThreadProofs!size, Threads!ring, ThreadProofs!ring, Threads!writer,
         ThreadProofs!writer, Threads!reader, ThreadProofs!reader
<1>8. Threads!GetData <=> ThreadProofs!GetData
  BY DEF Threads!GetData, ThreadProofs!GetData, Threads!size, ThreadProofs!size,
         Threads!Min, ThreadProofs!Min, Threads!ring, ThreadProofs!ring,
         Threads!writer, ThreadProofs!writer, Threads!reader, ThreadProofs!reader
<1>9. Threads!GetCopy <=> ThreadProofs!GetCopy
  BY DEF Threads!GetCopy, ThreadProofs!GetCopy, Threads!ring, ThreadProofs!ring,
         Threads!writer, ThreadProofs!writer, Threads!reader, ThreadProofs!reader
<1>10. Threads!GetPublish <=> ThreadProofs!GetPublish
  BY DEF Threads!GetPublish, ThreadProofs!GetPublish, Threads!_inc,
         ThreadProofs!_inc, Threads!ring, ThreadProofs!ring, Threads!writer,
         ThreadProofs!writer, Threads!reader, ThreadProofs!reader
<1>11. Threads!clear <=> ThreadProofs!clear
  BY DEF Threads!clear, ThreadProofs!clear, Threads!ring, ThreadProofs!ring,
         Threads!writer, ThreadProofs!writer, Threads!reader, ThreadProofs!reader
<1>12. Threads!Put <=> ThreadProofs!Put
  BY <1>3, <1>4, <1>5, <1>6 DEF Threads!Put, ThreadProofs!Put
<1>13. Threads!Get <=> ThreadProofs!Get
  BY <1>7, <1>8, <1>9, <1>10 DEF Threads!Get, ThreadProofs!Get
<1>14. Threads!Chunk = ThreadProofs!Chunk
  BY DEF Threads!Chunk, ThreadProofs!Chunk
<1>15. (\E data \in Threads!Chunk, t \in BOOLEAN : Threads!PutStart(data, t))
         <=> (\E data \in ThreadProofs!Chunk, t \in BOOLEAN : ThreadProofs!PutStart(data, t))
  BY <1>1, <1>14
<1>16. (\E n \in 1 .. MaxChunk, t \in BOOLEAN : Threads!GetStart(n, t))
         <=> (\E n \in 1 .. MaxChunk, t \in BOOLEAN : ThreadProofs!GetStart(n, t))
  BY <1>2
<1>17. UNCHANGED Threads!vars <=> UNCHANGED ThreadProofs!vars
  BY DEF Threads!vars, ThreadProofs!vars, Threads!ring, ThreadProofs!ring,
         Threads!writer, ThreadProofs!writer, Threads!reader, ThreadProofs!reader
<1>18. Threads!Next <=> ThreadProofs!Next
  BY <1>11, <1>12, <1>13, <1>15, <1>16, Zenon DEF Threads!Next, ThreadProofs!Next
<1> QED
  BY <1>17, <1>18

LEMMA SameQueue ==
  /\ ThreadProofs!Queue!Init <=> Threads!Queue!Init
  /\ [ThreadProofs!Queue!Next]_(ThreadProofs!Queue!vars)
       <=> [Threads!Queue!Next]_(Threads!Queue!vars)
<1>1. ThreadProofs!Content = Threads!Content /\ ThreadProofs!Content' = Threads!Content'
  BY DEF Threads!Content, ThreadProofs!Content, Threads!size, ThreadProofs!size
<1>2. \A n : ThreadProofs!Queue!Get(n) <=> Threads!Queue!Get(n)
  BY <1>1 DEF Threads!Queue!Get, ThreadProofs!Queue!Get
<1>3. ThreadProofs!Queue!Clear <=> Threads!Queue!Clear
  BY <1>1 DEF Threads!Queue!Clear, ThreadProofs!Queue!Clear
<1>4. \A s : ThreadProofs!Queue!Offer(s) <=> Threads!Queue!Offer(s)
  BY <1>1 DEF Threads!Queue!Offer, ThreadProofs!Queue!Offer, Threads!Queue!Min,
         ThreadProofs!Queue!Min
<1>5. ThreadProofs!Queue!Chunk = Threads!Queue!Chunk
  BY DEF Threads!Queue!Chunk, ThreadProofs!Queue!Chunk
<1>6. UNCHANGED ThreadProofs!Queue!vars <=> UNCHANGED Threads!Queue!vars
  BY <1>1 DEF Threads!Queue!vars, ThreadProofs!Queue!vars
<1>7. ThreadProofs!Queue!Init <=> Threads!Queue!Init
  BY <1>1 DEF Threads!Queue!Init, ThreadProofs!Queue!Init
<1> QED
  BY <1>2, <1>3, <1>4, <1>5, <1>6, <1>7 DEF Threads!Queue!Next,
         ThreadProofs!Queue!Next

LEMMA ThreadsSize == ThreadProofs!SizeOK
BY PartAssumptions DEF Threads!SizeOK, ThreadProofs!SizeOK

\* BlynkFifo2: the ring of two threads and no lock is a bounded queue.
THEOREM ThreadsAreQueueTheorem == Threads!Spec => ThreadsAreQueue
<1>1. Threads!Init => ThreadProofs!RingInv /\ Threads!Queue!Init
  BY SameStart, SameQueue, ThreadsSize, ThreadProofs!InitRingInv, ThreadProofs!InitQueue
<1>2. ThreadProofs!RingInv /\ [Threads!Next]_(Threads!vars)
        => ThreadProofs!RingInv' /\ [Threads!Queue!Next]_(Threads!Queue!vars)
  BY SameSteps, SameQueue, ThreadsSize, ThreadProofs!RingStep, ThreadProofs!QueueStep
<1> QED
  BY <1>1, <1>2, PTL DEF Threads!Spec, ThreadsAreQueue, Threads!ImplementsFifo, Threads!Queue!Spec

-----------------------------------------------------------------------------
(* Side by side *)

\* What each of the three keeps, whichever of them runs.
UtilityInv ==
  /\ AboveThreshold
  /\ OneRingInv
  /\ ThreadProofs!RingInv
  /\ wt \in BOOLEAN /\ rt \in BOOLEAN

LEMMA FlagsStay ==
  ASSUME [ThreadProofs!Next]_(ThreadProofs!vars), wt \in BOOLEAN, rt \in BOOLEAN
  PROVE  wt' \in BOOLEAN /\ rt' \in BOOLEAN
<1>1. CASE \E data \in ThreadProofs!Chunk, t \in BOOLEAN : ThreadProofs!PutStart(data, t)
  BY <1>1 DEF ThreadProofs!PutStart, ThreadProofs!reader
<1>2. CASE \E n \in 1 .. MaxChunk, t \in BOOLEAN : ThreadProofs!GetStart(n, t)
  BY <1>2 DEF ThreadProofs!GetStart, ThreadProofs!writer
<1>3. CASE ThreadProofs!Put
  BY <1>3 DEF ThreadProofs!Put, ThreadProofs!PutRefused, ThreadProofs!PutSpace,
              ThreadProofs!PutCopy, ThreadProofs!PutPublish, ThreadProofs!reader
<1>4. CASE ThreadProofs!Get
  BY <1>4 DEF ThreadProofs!Get, ThreadProofs!GetRefused, ThreadProofs!GetData,
              ThreadProofs!GetCopy, ThreadProofs!GetPublish, ThreadProofs!writer
<1>5. CASE ThreadProofs!clear
  BY <1>5 DEF ThreadProofs!clear, ThreadProofs!writer, ThreadProofs!reader
<1>6. CASE UNCHANGED ThreadProofs!vars
  BY <1>6 DEF ThreadProofs!vars, ThreadProofs!writer, ThreadProofs!reader
<1> QED
  BY <1>1, <1>2, <1>3, <1>4, <1>5, <1>6 DEF ThreadProofs!Next

LEMMA UtilityStarts == MCInit => UtilityInv
<1> SUFFICES ASSUME MCInit PROVE UtilityInv
  OBVIOUS
<1>1. Init /\ Ring!Init /\ Threads!Init
  BY DEF MCInit
<1>2. wt \in BOOLEAN /\ rt \in BOOLEAN
  BY <1>1 DEF Threads!Init
<1>3. ThreadProofs!RingInv
  BY <1>1, SameStart, ThreadsSize, ThreadProofs!InitRingInv
<1> QED
  BY <1>1, <1>2, <1>3, LimitStarts, RingStarts DEF UtilityInv

LEMMA UtilityStep ==
  UtilityInv /\ [MCNext]_<<part, vars, ringVars, threadVars>> => UtilityInv'
<1> SUFFICES ASSUME UtilityInv, [MCNext]_<<part, vars, ringVars, threadVars>>
             PROVE  UtilityInv'
  OBVIOUS
<1>1. /\ AboveThreshold /\ OneRingInv /\ ThreadProofs!RingInv
      /\ wt \in BOOLEAN /\ rt \in BOOLEAN
  BY DEF UtilityInv
<1>2. [Next]_vars /\ [Ring!Next]_(Ring!vars) /\ [Threads!Next]_(Threads!vars)
  <2>1. UNCHANGED ringVars => UNCHANGED Ring!vars
    BY DEF ringVars, Ring!vars
  <2>2. UNCHANGED threadVars => UNCHANGED Threads!vars
    BY DEF threadVars, Threads!vars, Threads!ring, Threads!writer, Threads!reader
  <2>3. \/ Next /\ UNCHANGED ringVars /\ UNCHANGED threadVars
        \/ Ring!Next /\ UNCHANGED vars /\ UNCHANGED threadVars
        \/ Threads!Next /\ UNCHANGED vars /\ UNCHANGED ringVars
        \/ UNCHANGED vars /\ UNCHANGED ringVars /\ UNCHANGED threadVars
    BY Zenon DEF MCNext
  <2> QED
    BY <2>1, <2>2, <2>3, Zenon
<1>3. [ThreadProofs!Next]_(ThreadProofs!vars)
  BY <1>2, SameSteps
<1>4. AboveThreshold'
  BY <1>1, <1>2, LimitStep
<1>5. OneRingInv'
  BY <1>1, <1>2, RingSteps
<1>6. ThreadProofs!RingInv'
  BY <1>1, <1>3, ThreadsSize, ThreadProofs!RingStep
<1>7. wt' \in BOOLEAN /\ rt' \in BOOLEAN
  BY <1>1, <1>3, FlagsStay
<1> QED
  BY <1>4, <1>5, <1>6, <1>7 DEF UtilityInv

LEMMA ShortChunk ==
  ASSUME NEW s \in Seq(Value), Len(s) <= MaxChunk
  PROVE  s \in Threads!Chunk \cup {<<>>}
<1>1. CASE s = <<>>
  BY <1>1
<1>2. CASE s # <<>>
  <2>1. Len(s) \in 1 .. MaxChunk
    BY <1>2, EmptySeq, LenProperties, PartAssumptions DEF Threads!SizeOK
  <2>2. s \in ThreadProofs!Chunk
    BY <2>1, ThreadsSize, ThreadProofs!ChunkIs
  <2> QED
    BY <2>2 DEF Threads!Chunk, ThreadProofs!Chunk
<1> QED
  BY <1>1, <1>2

\* The three keep their types side by side: a connected client is at the
\* threshold or above it, and the positions of the two rings stay in them.
THEOREM UtilityTypes == MCSpec => []Types
<1>1. UtilityInv => Types
  <2> SUFFICES ASSUME UtilityInv PROVE Types
    OBVIOUS
  <2>1. AboveThreshold /\ OneRingInv /\ ThreadProofs!RingInv /\ wt \in BOOLEAN /\ rt \in BOOLEAN
    BY DEF UtilityInv
  <2>2. Ring!TypeOK
    BY <2>1 DEF OneRingInv, Ring!TypeOK, Ring!Slot
  <2>3. ThreadProofs!RingType
    BY <2>1 DEF ThreadProofs!RingInv
  <2>4. p \in Threads!Chunk \cup {<<>>} /\ dest \in Threads!Chunk \cup {<<>>}
    <3>1. p \in Seq(Value) /\ Len(p) <= MaxChunk /\ dest \in Seq(Value) /\ Len(dest) <= MaxChunk
      BY <2>3 DEF ThreadProofs!RingType
    <3> QED
      BY <3>1, ShortChunk
  <2>5. Threads!TypeOK
    BY <2>1, <2>3, <2>4 DEF Threads!TypeOK, ThreadProofs!RingType, Threads!Slot,
       ThreadProofs!Slot
  <2> QED
    BY <2>1, <2>2, <2>5 DEF Types
<1> QED
  BY <1>1, UtilityStarts, UtilityStep, PTL DEF MCSpec
=============================================================================
