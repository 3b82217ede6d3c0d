-------------------------- MODULE BlynkFifo2Proofs --------------------------
(***************************************************************************)
(* Proofs about BlynkFifo2: the two threads leave each other's slots       *)
(* alone, and the ring without a lock is a queue of N - 1 values, for      *)
(* every size of the ring and every length of the chunks.                  *)
(***************************************************************************)
EXTENDS BlynkFifo2, SequenceTheorems, TLAPS

-----------------------------------------------------------------------------
(* Arithmetic and chunks *)

LEMMA ModFacts ==
  ASSUME NEW n \in Nat, n > 0, NEW x \in Nat, x < 2 * n
  PROVE  x % n = IF x < n THEN x ELSE x - n
OBVIOUS

LEMMA MinOfThree ==
  ASSUME NEW a \in Int, NEW b \in Int, NEW d \in Int
  PROVE  /\ Min({a, b, d}) \in {a, b, d}
         /\ Min({a, b, d}) <= a /\ Min({a, b, d}) <= b /\ Min({a, b, d}) <= d
<1>1. \E x \in {a, b, d} : \A y \in {a, b, d} : x <= y
  <2>1. CASE a <= b /\ a <= d
    BY <2>1
  <2>2. CASE b <= a /\ b <= d
    BY <2>2
  <2>3. CASE d <= a /\ d <= b
    BY <2>3
  <2> QED
    BY <2>1, <2>2, <2>3
<1> QED
  BY <1>1 DEF Min

LEMMA MinOfTwo ==
  ASSUME NEW a \in Int, NEW b \in Int, a <= b
  PROVE  Queue!Min({a, b}) = a
<1>1. \A x \in {a, b} : (\A y \in {a, b} : x <= y) => x = a
  OBVIOUS
<1>2. a \in {a, b} /\ \A y \in {a, b} : a <= y
  OBVIOUS
<1> QED
  BY <1>1, <1>2 DEF Queue!Min

LEMMA ChunkIs ==
  ASSUME SizeOK, NEW s
  PROVE  s \in Chunk <=> s \in Seq(Value) /\ Len(s) \in 1 .. MaxChunk
<1>1. ASSUME s \in Chunk PROVE s \in Seq(Value) /\ Len(s) \in 1 .. MaxChunk
  <2>1. PICK n \in 1 .. MaxChunk : s \in [1 .. n -> Value]
    BY <1>1 DEF Chunk
  <2>2. n \in Nat
    BY <2>1 DEF SizeOK
  <2>3. s \in Seq(Value)
    BY <2>1, <2>2, SeqDef
  <2>4. Len(s) = n
    BY <2>1, <2>2, <2>3, LenProperties
  <2> QED
    BY <2>1, <2>3, <2>4
<1>2. ASSUME s \in Seq(Value), Len(s) \in 1 .. MaxChunk PROVE s \in Chunk
  <2>1. s \in [1 .. Len(s) -> Value]
    BY <1>2, LenProperties
  <2> QED
    BY <1>2, <2>1 DEF Chunk
<1> QED
  BY <1>1, <1>2

-----------------------------------------------------------------------------
(* The inductive invariant *)

RingType ==
  /\ _b \in [Slot -> Value] /\ _w \in Slot /\ _r \in Slot
  /\ wpc \in {"idle", "wait", "copy", "publish"} /\ wf \in 0 .. MaxChunk
  /\ rpc \in {"idle", "wait", "copy", "publish"} /\ rf \in 0 .. MaxChunk
  /\ p \in Seq(Value) /\ Len(p) <= MaxChunk
  /\ c \in 0 .. MaxChunk
  /\ dest \in Seq(Value) /\ Len(dest) <= MaxChunk

FlagType == wt \in BOOLEAN /\ rt \in BOOLEAN

\* What put() has found free stays free, and is filled before it is published.
WriterOK ==
  /\ wpc # "idle" => Len(p) > 0
  /\ wpc \in {"copy", "publish"} =>
       1 <= wf /\ wf <= Len(p) /\ wf <= free /\ wf <= N - _w
  /\ wpc = "publish" => \A i \in 1 .. wf : _b[_w + i - 1] = p[i]

\* What get() has found stored stays stored until it says otherwise.
ReaderOK ==
  /\ rpc # "idle" => c > 0
  /\ rpc \in {"copy", "publish"} => 1 <= rf /\ rf <= c /\ rf <= size /\ rf <= N - _r
  /\ rpc = "publish" => Len(dest) = rf /\ \A i \in 1 .. rf : dest[i] = _b[_r + i - 1]

RingInv == RingType /\ WriterOK /\ ReaderOK

\* The positions, the free slots and the stored values.
LEMMA SizeFacts ==
  ASSUME SizeOK, RingType
  PROVE  /\ _w \in Nat /\ _r \in Nat /\ _w < N /\ _r < N /\ N \in Nat
         /\ size \in 0 .. N - 1 /\ free = N - 1 - size
         /\ size = IF _w >= _r THEN _w - _r ELSE _w - _r + N
BY DEF SizeOK, RingType, Slot, size, free

LEMMA SizesStay ==
  ASSUME UNCHANGED <<_w, _r>>
  PROVE  size' = size /\ free' = free
BY DEF size, free

\* Where the i-th stored value is.
LEMMA Place ==
  ASSUME SizeOK, RingType, NEW i \in 1 .. size
  PROVE  /\ (_r + i - 1) % N = IF _r + i - 1 < N THEN _r + i - 1 ELSE _r + i - 1 - N
         /\ (_r + i - 1) % N \in Slot
<1>1. _r + i - 1 \in Nat /\ _r + i - 1 < 2 * N /\ N > 0
  BY SizeFacts DEF SizeOK
<1> QED
  BY <1>1, SizeFacts, ModFacts DEF Slot

LEMMA ContentIs ==
  ASSUME SizeOK, RingType
  PROVE  /\ Content \in Seq(Value) /\ Len(Content) = size
         /\ \A i \in 1 .. size : Content[i] = _b[(_r + i - 1) % N]
<1>1. \A i \in 1 .. size : _b[(_r + i - 1) % N] \in Value
  BY Place DEF RingType
<1>2. size \in Nat
  BY SizeFacts
<1> QED
  BY <1>1, <1>2, IsASeq DEF Content

LEMMA InitRingInv == ASSUME SizeOK, Init PROVE RingInv
<1>1. p \in Seq(Value) /\ Len(p) = 0 /\ dest \in Seq(Value) /\ Len(dest) = 0
  BY DEF Init
<1>2. _b \in [Slot -> Value]
  BY DEF Init
<1>3. 0 \in Slot
  BY DEF SizeOK, Slot
<1> QED
  BY <1>1, <1>2, <1>3 DEF Init, RingInv, RingType, WriterOK, ReaderOK, SizeOK

-----------------------------------------------------------------------------
(* The writing thread keeps the invariant *)

LEMMA PutStartInv ==
  ASSUME SizeOK, RingInv, NEW data \in Chunk, NEW t \in BOOLEAN, PutStart(data, t)
  PROVE  RingInv'
<1>1. p' = data /\ wpc' = "wait" /\ UNCHANGED <<ring, wf, reader>>
  BY DEF PutStart
<1>2. UNCHANGED <<_b, _w, _r, wf, rpc, c, rf, dest>> /\ size' = size /\ free' = free
  BY <1>1, SizesStay DEF ring, reader
<1>3. data \in Seq(Value) /\ Len(data) \in 1 .. MaxChunk
  BY ChunkIs
<1>4. Len(data) > 0 /\ Len(data) <= MaxChunk
  BY <1>3
<1>5. RingType'
  BY <1>1, <1>2, <1>3, <1>4 DEF RingInv, RingType, Slot
<1>6. WriterOK'
  BY <1>1, <1>2, <1>4 DEF WriterOK
<1>7. ReaderOK'
  BY <1>2 DEF RingInv, ReaderOK
<1> QED
  BY <1>5, <1>6, <1>7 DEF RingInv

LEMMA PutRefusedInv == ASSUME SizeOK, RingInv, PutRefused PROVE RingInv'
<1>1. p' = <<>> /\ wf' = 0 /\ wpc' = "idle" /\ UNCHANGED <<ring, reader>>
  BY DEF PutRefused
<1>2. UNCHANGED <<_b, _w, _r, rpc, c, rf, dest>> /\ size' = size /\ free' = free
  BY <1>1, SizesStay DEF ring, reader
<1>3. <<>> \in Seq(Value) /\ Len(<<>>) = 0 /\ MaxChunk \in Nat
  BY DEF SizeOK
<1>4. RingType'
  BY <1>1, <1>2, <1>3 DEF RingInv, RingType, Slot
<1>5. WriterOK'
  BY <1>1 DEF WriterOK
<1>6. ReaderOK'
  BY <1>2 DEF RingInv, ReaderOK
<1> QED
  BY <1>4, <1>5, <1>6 DEF RingInv

LEMMA PutSpaceInv == ASSUME SizeOK, RingInv, PutSpace PROVE RingInv'
<1>1. wf' = Min({Len(p), free, N - _w}) /\ wpc' = "copy" /\ UNCHANGED <<ring, p, reader>>
  BY DEF PutSpace
<1>2. UNCHANGED <<_b, _w, _r, p, rpc, c, rf, dest>> /\ size' = size /\ free' = free
  BY <1>1, SizesStay DEF ring, reader
<1>3. Len(p) \in Int /\ free \in Int /\ N - _w \in Int
  BY SizeFacts DEF RingInv, RingType
<1>4. Len(p) > 0 /\ Len(p) <= MaxChunk /\ free > 0 /\ N - _w > 0
  BY SizeFacts DEF RingInv, RingType, WriterOK, PutSpace
<1>5. PICK m \in Int : m = Min({Len(p), free, N - _w})
  BY <1>3, MinOfThree
<1>6. m \in {Len(p), free, N - _w} /\ m <= Len(p) /\ m <= free /\ m <= N - _w
  BY <1>3, <1>5, MinOfThree
<1>7. 1 <= m /\ m <= MaxChunk /\ m \in 0 .. MaxChunk
  BY <1>3, <1>4, <1>5, <1>6 DEF SizeOK
<1>8. wf' = m
  BY <1>1, <1>5
<1>9. RingType'
  BY <1>1, <1>2, <1>7, <1>8 DEF RingInv, RingType, Slot
<1>10. WriterOK'
  BY <1>1, <1>2, <1>4, <1>6, <1>7, <1>8 DEF WriterOK
<1>11. ReaderOK'
  BY <1>2 DEF RingInv, ReaderOK
<1> QED
  BY <1>9, <1>10, <1>11 DEF RingInv

\* put() fills free slots only: no slot that get() may be reading.
LEMMA CopyFacts ==
  ASSUME SizeOK, RingInv, PutCopy
  PROVE  /\ _b' \in [Slot -> Value]
         /\ \A i \in 1 .. wf : _b'[_w + i - 1] = p[i]
         /\ \A i \in 1 .. size : _b'[(_r + i - 1) % N] = _b[(_r + i - 1) % N]
         /\ UNCHANGED <<_w, _r, p, wf, rpc, c, rf, dest>> /\ wpc' = "publish"
<1> DEFINE New == [s \in Slot |-> IF s \in _w .. _w + wf - 1 THEN p[s - _w + 1] ELSE _b[s]]
<1>1. _b' = New
  BY DEF PutCopy
<1>2. /\ UNCHANGED <<_w, _r, p, wf, rpc, c, rf, dest>> /\ wpc' = "publish"
      /\ 1 <= wf /\ wf <= Len(p) /\ wf <= free /\ wf <= N - _w
      /\ wf \in Int /\ p \in Seq(Value) /\ Len(p) \in Nat /\ _b \in [Slot -> Value]
  BY DEF PutCopy, reader, RingInv, RingType, WriterOK
<1>3. _w \in Nat /\ _r \in Nat /\ _w < N /\ _r < N /\ N \in Nat
  BY SizeFacts DEF RingInv
<1>4. \A i \in 1 .. Len(p) : p[i] \in Value
  BY <1>2
<1>5. \A s \in Slot : New[s] \in Value
  <2>1. TAKE s \in Slot
  <2>2. CASE s \in _w .. _w + wf - 1
    <3>1. PICK k \in Int : k = s - _w + 1
      BY <1>3 DEF Slot
    <3>2. k \in 1 .. Len(p)
      BY <1>2, <1>3, <2>2, <3>1
    <3> QED
      BY <1>4, <2>2, <3>1, <3>2
  <2>3. CASE ~(s \in _w .. _w + wf - 1)
    BY <1>2, <2>3
  <2> QED
    BY <2>2, <2>3
<1>6. New \in [Slot -> Value]
  BY <1>5
<1>7. \A i \in 1 .. wf : New[_w + i - 1] = p[i]
  <2>1. TAKE i \in 1 .. wf
  <2>2. PICK s \in Int : s = _w + i - 1
    BY <1>3
  <2>3. s \in Slot /\ s \in _w .. _w + wf - 1 /\ s - _w + 1 = i
    BY <1>2, <1>3, <2>2 DEF Slot
  <2> QED
    BY <2>2, <2>3
<1>8. \A i \in 1 .. size : New[(_r + i - 1) % N] = _b[(_r + i - 1) % N]
  <2>1. TAKE i \in 1 .. size
  <2>2. PICK s \in Slot : s = (_r + i - 1) % N
    BY Place DEF RingInv
  <2>3. s = IF _r + i - 1 < N THEN _r + i - 1 ELSE _r + i - 1 - N
    BY <2>2, Place DEF RingInv
  <2>4. /\ size \in 0 .. N - 1 /\ free = N - 1 - size
        /\ size = IF _w >= _r THEN _w - _r ELSE _w - _r + N
    BY SizeFacts DEF RingInv
  <2>5. ~(s \in _w .. _w + wf - 1)
    BY <1>2, <1>3, <2>3, <2>4
  <2> QED
    BY <2>2, <2>5
<1> QED
  BY <1>1, <1>2, <1>6, <1>7, <1>8

LEMMA PutCopyInv == ASSUME SizeOK, RingInv, PutCopy PROVE RingInv'
<1>1. size' = size /\ free' = free
  BY CopyFacts, SizesStay
<1>2. RingType'
  BY CopyFacts DEF RingInv, RingType, Slot
<1>3. WriterOK'
  BY <1>1, CopyFacts DEF RingInv, WriterOK, PutCopy
<1>4. ReaderOK'
  <2>1. (rpc # "idle" => c > 0) /\ (rpc \in {"copy", "publish"} => 1 <= rf /\ rf <= c /\ rf <= size /\ rf <= N - _r)
    BY DEF RingInv, ReaderOK
  <2>2. (rpc # "idle" => c > 0)' /\ (rpc \in {"copy", "publish"} => 1 <= rf /\ rf <= c /\ rf <= size /\ rf <= N - _r)'
    BY <1>1, <2>1, CopyFacts
  <2>3. ASSUME rpc = "publish", NEW i \in 1 .. rf PROVE _b'[_r + i - 1] = dest[i]
    <3>1. rf <= size /\ rf <= N - _r /\ rf \in Int /\ dest[i] = _b[_r + i - 1]
      BY <2>3 DEF RingInv, ReaderOK, RingType
    <3>2. i \in 1 .. size /\ _r + i - 1 < N
      BY <3>1, SizeFacts DEF RingInv
    <3>3. (_r + i - 1) % N = _r + i - 1
      BY <3>2, Place DEF RingInv
    <3>4. _b'[(_r + i - 1) % N] = _b[(_r + i - 1) % N]
      BY <3>2, CopyFacts
    <3> QED
      BY <3>1, <3>3, <3>4
  <2>4. rpc = "publish" => Len(dest) = rf
    BY DEF RingInv, ReaderOK
  <2> QED
    BY <2>2, <2>3, <2>4, CopyFacts DEF ReaderOK
<1> QED
  BY <1>2, <1>3, <1>4 DEF RingInv

\* The part stored becomes part of the queue in one step.
LEMMA PutPublishFacts ==
  ASSUME SizeOK, RingInv, PutPublish
  PROVE  /\ UNCHANGED <<_b, _r, rpc, c, rf, dest>> /\ _w' = _inc(_w, wf)
         /\ _inc(_w, wf) \in Slot /\ _inc(_w, wf) = IF wf = N - _w THEN 0 ELSE _w + wf
         /\ wf \in 1 .. Len(p) /\ wf \in 1 .. N - 1 - size
         /\ size' = size + wf /\ free' = free - wf
<1>1. UNCHANGED <<_b, _r, rpc, c, rf, dest>> /\ _w' = _inc(_w, wf)
  BY DEF PutPublish, reader
<1>2. /\ wf \in Int /\ Len(p) \in Nat
      /\ 1 <= wf /\ wf <= Len(p) /\ wf <= free /\ wf <= N - _w
  BY DEF PutPublish, RingInv, RingType, WriterOK
<1>3. /\ _w \in Nat /\ _r \in Nat /\ _w < N /\ _r < N /\ N \in Nat /\ N > 0
      /\ size \in 0 .. N - 1 /\ free = N - 1 - size
      /\ size = IF _w >= _r THEN _w - _r ELSE _w - _r + N
  BY SizeFacts DEF RingInv, SizeOK
<1>4. PICK n \in Nat : n = _w + wf
  BY <1>2, <1>3
<1>5. n < 2 * N
  BY <1>2, <1>3, <1>4
<1>6. n % N = IF n < N THEN n ELSE n - N
  BY <1>3, <1>5, ModFacts
<1>7. PICK w2 \in Slot : w2 = _inc(_w, wf) /\ w2 = IF wf = N - _w THEN 0 ELSE _w + wf
  BY <1>2, <1>3, <1>4, <1>6 DEF _inc, Slot
<1>8. w2 \in 0 .. N - 1
  BY DEF Slot
<1>9. size' = IF w2 - _r < 0 THEN w2 - _r + N ELSE w2 - _r
  BY <1>1, <1>7 DEF size
<1>10. free' = (IF _r - w2 <= 0 THEN _r - w2 + N ELSE _r - w2) - 1
  BY <1>1, <1>7 DEF free
<1>11. (IF w2 - _r < 0 THEN w2 - _r + N ELSE w2 - _r) = size + wf
  BY <1>2, <1>3, <1>7, <1>8
<1>12. ((IF _r - w2 <= 0 THEN _r - w2 + N ELSE _r - w2) - 1) = free - wf
  BY <1>2, <1>3, <1>7, <1>8
<1>13. wf \in 1 .. Len(p) /\ wf \in 1 .. N - 1 - size
  BY <1>2, <1>3
<1> QED
  BY <1>1, <1>7, <1>9, <1>10, <1>11, <1>12, <1>13

LEMMA PutPublishInv == ASSUME SizeOK, RingInv, PutPublish PROVE RingInv'
<1>1. /\ p \in Seq(Value) /\ Len(p) \in Nat /\ Len(p) <= MaxChunk
      /\ wf \in 1 .. Len(p)
  BY PutPublishFacts DEF RingInv, RingType
<1>2. p' = SubSeq(p, wf + 1, Len(p)) /\ wf' = 0 /\ wpc' = IF p' = <<>> THEN "idle" ELSE "wait"
  BY DEF PutPublish
<1>3. PICK k \in Nat : k = wf + 1
  BY <1>1
<1>4. PICK q : q = SubSeq(p, k, Len(p))
  OBVIOUS
<1>5. q \in Seq(Value) /\ Len(q) = Len(p) - wf
  BY <1>1, <1>3, <1>4, SubSeqProperties
<1>6. p' = q
  BY <1>2, <1>3, <1>4
<1>7. Len(q) <= MaxChunk
  BY <1>1, <1>5 DEF SizeOK
<1>8. MaxChunk \in Nat /\ 0 \in 0 .. MaxChunk
  BY DEF SizeOK
<1>9. RingType'
  BY <1>2, <1>5, <1>6, <1>7, <1>8, PutPublishFacts DEF RingInv, RingType, Slot
<1>10. q # <<>> => Len(q) > 0
  BY <1>5, EmptySeq, LenProperties
<1>11. WriterOK'
  BY <1>2, <1>6, <1>10 DEF WriterOK
<1>12. ReaderOK'
  <2>1. size \in Int /\ wf \in Int /\ wf > 0 /\ rf \in Int
    BY SizeFacts, <1>1 DEF RingInv, RingType
  <2>2. rf <= size => rf <= size + wf
    BY <2>1
  <2> QED
    BY <2>2, PutPublishFacts DEF RingInv, ReaderOK
<1> QED
  BY <1>9, <1>11, <1>12 DEF RingInv

-----------------------------------------------------------------------------
(* The reading thread keeps the invariant, and so does clear() *)

LEMMA GetStartInv ==
  ASSUME SizeOK, RingInv, NEW n \in 1 .. MaxChunk, NEW t \in BOOLEAN, GetStart(n, t)
  PROVE  RingInv'
<1>1. c' = n /\ rpc' = "wait" /\ UNCHANGED <<ring, rf, dest, writer>>
  BY DEF GetStart
<1>2. UNCHANGED <<_b, _w, _r, rf, dest, wpc, p, wf>> /\ size' = size /\ free' = free
  BY <1>1, SizesStay DEF ring, writer
<1>3. n \in 0 .. MaxChunk /\ n > 0
  BY DEF SizeOK
<1>4. RingType'
  BY <1>1, <1>2, <1>3 DEF RingInv, RingType, Slot
<1>5. WriterOK'
  BY <1>2 DEF RingInv, WriterOK
<1>6. ReaderOK'
  BY <1>1, <1>2, <1>3 DEF ReaderOK
<1> QED
  BY <1>4, <1>5, <1>6 DEF RingInv

LEMMA GetRefusedInv == ASSUME SizeOK, RingInv, GetRefused PROVE RingInv'
<1>1. c' = 0 /\ rpc' = "idle" /\ UNCHANGED <<ring, rf, dest, writer>>
  BY DEF GetRefused
<1>2. UNCHANGED <<_b, _w, _r, rf, dest, wpc, p, wf>> /\ size' = size /\ free' = free
  BY <1>1, SizesStay DEF ring, writer
<1>3. 0 \in 0 .. MaxChunk
  BY DEF SizeOK
<1>4. RingType'
  BY <1>1, <1>2, <1>3 DEF RingInv, RingType, Slot
<1>5. WriterOK'
  BY <1>2 DEF RingInv, WriterOK
<1>6. ReaderOK'
  BY <1>1 DEF ReaderOK
<1> QED
  BY <1>4, <1>5, <1>6 DEF RingInv

LEMMA GetDataInv == ASSUME SizeOK, RingInv, GetData PROVE RingInv'
<1>1. rf' = Min({c, size, N - _r}) /\ rpc' = "copy" /\ UNCHANGED <<ring, c, dest, writer>>
  BY DEF GetData
<1>2. UNCHANGED <<_b, _w, _r, c, dest, wpc, p, wf>> /\ size' = size /\ free' = free
  BY <1>1, SizesStay DEF ring, writer
<1>3. c \in Int /\ size \in Int /\ N - _r \in Int
  BY SizeFacts DEF RingInv, RingType
<1>4. c > 0 /\ c <= MaxChunk /\ size > 0 /\ N - _r > 0
  BY SizeFacts DEF RingInv, RingType, ReaderOK, GetData
<1>5. PICK m \in Int : m = Min({c, size, N - _r})
  BY <1>3, MinOfThree
<1>6. m \in {c, size, N - _r} /\ m <= c /\ m <= size /\ m <= N - _r
  BY <1>3, <1>5, MinOfThree
<1>7. 1 <= m /\ m <= MaxChunk /\ m \in 0 .. MaxChunk
  BY <1>3, <1>4, <1>5, <1>6 DEF SizeOK
<1>8. rf' = m
  BY <1>1, <1>5
<1>9. RingType'
  BY <1>1, <1>2, <1>7, <1>8 DEF RingInv, RingType, Slot
<1>10. WriterOK'
  BY <1>2 DEF RingInv, WriterOK
<1>11. ReaderOK'
  BY <1>1, <1>2, <1>4, <1>6, <1>7, <1>8 DEF ReaderOK
<1> QED
  BY <1>9, <1>10, <1>11 DEF RingInv

LEMMA GetCopyInv == ASSUME SizeOK, RingInv, GetCopy PROVE RingInv'
<1> DEFINE New == [i \in 1 .. rf |-> _b[_r + i - 1]]
<1>1. dest' = New /\ rpc' = "publish" /\ UNCHANGED <<ring, c, rf, writer>>
  BY DEF GetCopy
<1>2. UNCHANGED <<_b, _w, _r, c, rf, wpc, p, wf>> /\ size' = size /\ free' = free
  BY <1>1, SizesStay DEF ring, writer
<1>3. 1 <= rf /\ rf <= c /\ rf <= size /\ rf <= N - _r /\ rf \in Nat /\ rf <= MaxChunk
  BY DEF RingInv, RingType, ReaderOK, GetCopy
<1>4. \A i \in 1 .. rf : _b[_r + i - 1] \in Value
  <2>1. TAKE i \in 1 .. rf
  <2>2. PICK s \in Int : s = _r + i - 1
    BY SizeFacts DEF RingInv
  <2>3. s \in Slot
    BY <1>3, <2>2, SizeFacts DEF RingInv, Slot
  <2> QED
    BY <2>2, <2>3 DEF RingInv, RingType
<1>5. New \in Seq(Value) /\ Len(New) = rf
  BY <1>3, <1>4, IsASeq
<1>6. \A i \in 1 .. rf : New[i] = _b[_r + i - 1]
  OBVIOUS
<1> HIDE DEF New
<1>7. RingType'
  BY <1>1, <1>2, <1>3, <1>5 DEF RingInv, RingType, Slot
<1>8. WriterOK'
  BY <1>2 DEF RingInv, WriterOK
<1>9. ReaderOK'
  BY <1>1, <1>2, <1>3, <1>5, <1>6 DEF RingInv, ReaderOK, GetCopy
<1> QED
  BY <1>7, <1>8, <1>9 DEF RingInv

\* The part fetched leaves the queue in one step.
LEMMA GetPublishFacts ==
  ASSUME SizeOK, RingInv, GetPublish
  PROVE  /\ UNCHANGED <<_b, _w, wpc, p, wf>> /\ _r' = _inc(_r, rf)
         /\ _inc(_r, rf) \in Slot /\ _inc(_r, rf) = IF rf = N - _r THEN 0 ELSE _r + rf
         /\ rf \in 1 .. c /\ rf \in 1 .. size
         /\ size' = size - rf /\ free' = free + rf
<1>1. UNCHANGED <<_b, _w, wpc, p, wf>> /\ _r' = _inc(_r, rf)
  BY DEF GetPublish, writer
<1>2. /\ rf \in Int /\ c \in Int
      /\ 1 <= rf /\ rf <= c /\ rf <= size /\ rf <= N - _r
  BY DEF GetPublish, RingInv, RingType, ReaderOK
<1>3. /\ _w \in Nat /\ _r \in Nat /\ _w < N /\ _r < N /\ N \in Nat /\ N > 0
      /\ size \in 0 .. N - 1 /\ free = N - 1 - size
      /\ size = IF _w >= _r THEN _w - _r ELSE _w - _r + N
  BY SizeFacts DEF RingInv, SizeOK
<1>4. PICK n \in Nat : n = _r + rf
  BY <1>2, <1>3
<1>5. n < 2 * N
  BY <1>2, <1>3, <1>4
<1>6. n % N = IF n < N THEN n ELSE n - N
  BY <1>3, <1>5, ModFacts
<1>7. PICK r2 \in Slot : r2 = _inc(_r, rf) /\ r2 = IF rf = N - _r THEN 0 ELSE _r + rf
  BY <1>2, <1>3, <1>4, <1>6 DEF _inc, Slot
<1>8. r2 \in 0 .. N - 1
  BY DEF Slot
<1>9. size' = IF _w - r2 < 0 THEN _w - r2 + N ELSE _w - r2
  BY <1>1, <1>7 DEF size
<1>10. free' = (IF r2 - _w <= 0 THEN r2 - _w + N ELSE r2 - _w) - 1
  BY <1>1, <1>7 DEF free
<1>11. (IF _w - r2 < 0 THEN _w - r2 + N ELSE _w - r2) = size - rf
  BY <1>2, <1>3, <1>7, <1>8
<1>12. ((IF r2 - _w <= 0 THEN r2 - _w + N ELSE r2 - _w) - 1) = free + rf
  BY <1>2, <1>3, <1>7, <1>8
<1>13. rf \in 1 .. c /\ rf \in 1 .. size
  BY <1>2, <1>3
<1> QED
  BY <1>1, <1>7, <1>9, <1>10, <1>11, <1>12, <1>13

LEMMA GetPublishInv == ASSUME SizeOK, RingInv, GetPublish PROVE RingInv'
<1>1. /\ dest' = <<>> /\ c' = c - rf /\ rf' = 0
      /\ rpc' = IF c' = 0 THEN "idle" ELSE "wait"
  BY DEF GetPublish
<1>2. PICK k \in Int : k = c - rf /\ k \in 0 .. MaxChunk
  BY GetPublishFacts DEF RingInv, RingType, SizeOK
<1>3. c' = k
  BY <1>1, <1>2
<1>4. <<>> \in Seq(Value) /\ Len(<<>>) = 0 /\ MaxChunk \in Nat /\ 0 \in 0 .. MaxChunk
  BY DEF SizeOK
<1>5. RingType'
  BY <1>1, <1>2, <1>3, <1>4, GetPublishFacts DEF RingInv, RingType, Slot
<1>6. WriterOK'
  <2>1. free \in Int /\ rf \in Int /\ rf > 0 /\ wf \in Int
    BY SizeFacts, GetPublishFacts DEF RingInv, RingType
  <2>2. wf <= free => wf <= free + rf
    BY <2>1
  <2> QED
    BY <2>2, GetPublishFacts DEF RingInv, WriterOK
<1>7. k # 0 => k > 0
  BY <1>2
<1>8. ReaderOK'
  BY <1>1, <1>3, <1>7 DEF ReaderOK
<1> QED
  BY <1>5, <1>6, <1>8 DEF RingInv

LEMMA clearFacts ==
  ASSUME SizeOK, clear
  PROVE  size' = 0 /\ UNCHANGED <<_b, wpc, p, wf, rpc, c, rf, dest>>
<1>1. size' = IF 0 - 0 < 0 THEN 0 - 0 + N ELSE 0 - 0
  BY DEF clear, size
<1> QED
  BY <1>1 DEF clear, writer, reader

LEMMA clearInv == ASSUME SizeOK, RingInv, clear PROVE RingInv'
<1>1. wpc = "idle" /\ rpc = "idle" /\ _r' = 0 /\ _w' = 0 /\ 0 \in Slot
  BY DEF clear, SizeOK, Slot
<1>2. RingType'
  BY <1>1, clearFacts DEF RingInv, RingType, Slot
<1>3. WriterOK'
  BY <1>1, clearFacts DEF WriterOK
<1>4. ReaderOK'
  BY <1>1, clearFacts DEF ReaderOK
<1> QED
  BY <1>2, <1>3, <1>4 DEF RingInv

LEMMA RingStep == ASSUME SizeOK, RingInv, [Next]_vars PROVE RingInv'
<1>1. CASE \E data \in Chunk, t \in BOOLEAN : PutStart(data, t)
  BY <1>1, PutStartInv
<1>2. CASE \E n \in 1 .. MaxChunk, t \in BOOLEAN : GetStart(n, t)
  BY <1>2, GetStartInv
<1>3. CASE Put
  BY <1>3, PutRefusedInv, PutSpaceInv, PutCopyInv, PutPublishInv DEF Put
<1>4. CASE Get
  BY <1>4, GetRefusedInv, GetDataInv, GetCopyInv, GetPublishInv DEF Get
<1>5. CASE clear
  BY <1>5, clearInv
<1>6. CASE UNCHANGED vars
  <2>1. UNCHANGED <<_b, _w, _r, wpc, p, wf, rpc, c, rf, dest>> /\ size' = size /\ free' = free
    BY <1>6, SizesStay DEF vars, ring, writer, reader
  <2> QED
    BY <2>1 DEF RingInv, RingType, WriterOK, ReaderOK, Slot
<1> QED
  BY <1>1, <1>2, <1>3, <1>4, <1>5, <1>6 DEF Next

-----------------------------------------------------------------------------
(* The ring implements the queue *)

LEMMA ContentStays ==
  ASSUME UNCHANGED <<_b, _w, _r>>
  PROVE  Content' = Content
<1>1. size' = size
  BY SizesStay
<1> QED
  BY <1>1 DEF Content

LEMMA PutCopyStutters == ASSUME SizeOK, RingInv, PutCopy PROVE Content' = Content
<1>1. size' = size /\ _r' = _r
  BY CopyFacts, SizesStay
<1>2. Content' = [i \in 1 .. size |-> _b'[(_r + i - 1) % N]]
  BY <1>1 DEF Content
<1>3. \A i \in 1 .. size : _b'[(_r + i - 1) % N] = _b[(_r + i - 1) % N]
  BY CopyFacts
<1>4. [i \in 1 .. size |-> _b'[(_r + i - 1) % N]] = [i \in 1 .. size |-> _b[(_r + i - 1) % N]]
  BY <1>3
<1> QED
  BY <1>2, <1>4 DEF Content

\* After put()'s store of _w the queue has the part it stored at its end.
LEMMA PutPublishOffers ==
  ASSUME SizeOK, RingInv, PutPublish
  PROVE  \E s \in Queue!Chunk : Queue!Offer(s)
<1> DEFINE s == SubSeq(p, 1, wf)
           Grown == [i \in 1 .. size + wf |-> _b[(_r + i - 1) % N]]
<1>1. /\ p \in Seq(Value) /\ Len(p) \in Nat /\ Len(p) <= MaxChunk
      /\ wf \in 1 .. Len(p) /\ MaxChunk \in Nat
  BY PutPublishFacts DEF RingInv, RingType, SizeOK
<1>2. s \in Seq(Value) /\ Len(s) = wf /\ \A i \in 1 .. wf : s[i] = p[i]
  BY <1>1, SubSeqProperties
<1>3. s \in Queue!Chunk
  <2>1. Len(s) \in 1 .. MaxChunk
    BY <1>1, <1>2
  <2> QED
    BY <1>2, <2>1, ChunkIs DEF Chunk, Queue!Chunk
<1>4. /\ size \in Nat /\ N \in Nat /\ wf \in Nat /\ wf \in 1 .. N - 1 - size
      /\ _w \in Nat /\ _r \in Nat /\ _w < N /\ _r < N
      /\ size = IF _w >= _r THEN _w - _r ELSE _w - _r + N
  BY <1>1, SizeFacts, PutPublishFacts DEF RingInv
<1>5. Content' = Grown
  BY PutPublishFacts DEF Content
<1>6. Content \in Seq(Value) /\ Len(Content) = size
      /\ \A i \in 1 .. size : Content[i] = _b[(_r + i - 1) % N]
  BY ContentIs DEF RingInv
<1>7. \A i \in 1 .. wf : _b[_w + i - 1] = p[i] /\ wf <= N - _w
  BY DEF PutPublish, RingInv, WriterOK
<1>8. \A i \in size + 1 .. size + wf : Grown[i] = s[i - size]
  <2>1. TAKE i \in size + 1 .. size + wf
  <2>2. PICK j \in 1 .. wf : j = i - size
    BY <1>4
  <2>3. PICK n \in Nat : n = _r + i - 1
    BY <1>4
  <2>4. n < 2 * N /\ N > 0
    BY <1>4, <2>3
  <2>5. n % N = IF n < N THEN n ELSE n - N
    BY <1>4, <2>4, ModFacts
  <2>6. n % N = _w + j - 1
    BY <1>4, <1>7, <2>2, <2>3, <2>5
  <2>7. Grown[i] = _b[n % N]
    BY <1>4, <2>3
  <2>8. _b[_w + j - 1] = p[j] /\ s[j] = p[j]
    BY <1>2, <1>7, <2>2
  <2> QED
    BY <2>2, <2>6, <2>7, <2>8
<1>9. \A i \in 1 .. size : Grown[i] = Content[i]
  BY <1>4, <1>6
<1>10. PICK n \in Nat : n = size + wf
  <2>1. size \in Nat /\ wf \in Nat
    BY <1>4
  <2> QED
    BY <2>1
<1>11. Grown = [i \in 1 .. n |-> Grown[i]]
  BY <1>10
<1> HIDE DEF Grown, s
<1>12. PICK w \in Seq(Value) : w = Content \o s
  BY <1>2, <1>6, ConcatProperties
<1>13. PICK l \in Nat, m \in Nat : l = Len(Content) /\ m = Len(s)
  BY <1>2, <1>6, LenProperties
<1>14. Len(w) = l + m /\ \A i \in 1 .. l + m : w[i] = IF i <= l THEN Content[i] ELSE s[i - l]
  <2>1. Content \in Seq(Value) /\ s \in Seq(Value)
    BY <1>2, <1>6
  <2>2. Len(Content \o s) = Len(Content) + Len(s)
    BY <2>1, ConcatProperties
  <2>3. \A i \in 1 .. Len(Content) + Len(s) :
          (Content \o s)[i] = IF i <= Len(Content) THEN Content[i] ELSE s[i - Len(Content)]
    BY <2>1, ConcatProperties
  <2> QED
    BY <1>12, <1>13, <2>2, <2>3
<1>15. Grown = w
  <2>1. l = size /\ n = l + m
    BY <1>2, <1>6, <1>10, <1>13
  <2>2. \A i \in 1 .. n : Grown[i] = w[i]
    <3>1. TAKE i \in 1 .. n
    <3>2. CASE i <= l
      <4>1. Grown[i] = Content[i]
        BY <1>9, <2>1, <3>2
      <4>2. w[i] = Content[i]
        BY <1>14, <2>1, <3>2
      <4> QED
        BY <4>1, <4>2
    <3>3. CASE ~(i <= l)
      <4>1. i \in size + 1 .. size + wf
        BY <1>10, <2>1, <3>3
      <4>2. Grown[i] = s[i - l]
        BY <1>8, <2>1, <4>1
      <4>3. w[i] = s[i - l]
        BY <1>14, <2>1, <3>3
      <4> QED
        BY <4>2, <4>3
    <3> QED
      BY <3>2, <3>3
  <2>3. w = [i \in 1 .. n |-> w[i]]
    BY <1>14, <2>1, LenProperties
  <2>4. [i \in 1 .. n |-> w[i]] = [i \in 1 .. n |-> Grown[i]]
    BY <2>2
  <2> QED
    BY <1>11, <2>3, <2>4
<1>16. Queue!Min({Len(s), (N - 1) - Len(Content)}) = wf
  <2>1. PICK room \in Int : room = (N - 1) - size
    <3>1. size \in Int /\ N \in Int
      BY <1>4
    <3> QED
      BY <3>1
  <2>2. wf <= room
    BY <1>4, <2>1
  <2>3. Len(s) = wf /\ (N - 1) - Len(Content) = room /\ wf \in Int
    BY <1>1, <1>2, <1>6, <2>1
  <2> QED
    BY <2>2, <2>3, MinOfTwo
<1>17. SubSeq(s, 1, wf) = s
  <2>1. SubSeq(s, 1, Len(s)) = s
    BY <1>2, SubSeqFull
  <2> QED
    BY <1>2, <2>1
<1>18. in' = s /\ out' = out
  BY DEF PutPublish, s
<1>19. Queue!Offer(s)
  BY <1>5, <1>12, <1>15, <1>16, <1>17, <1>18 DEF Queue!Offer
<1> QED
  BY <1>3, <1>19

\* What get() copied is the front of the queue, and its store of _r drops it.
LEMMA GetPublishGets ==
  ASSUME SizeOK, RingInv, GetPublish
  PROVE  \E n \in 1 .. MaxChunk : Queue!Get(n)
<1> DEFINE Rest == [i \in 1 .. size - rf |-> _b[((IF rf = N - _r THEN 0 ELSE _r + rf) + i - 1) % N]]
<1>1. /\ size \in Nat /\ N \in Nat /\ N > 0 /\ rf \in Nat /\ rf >= 1 /\ rf <= size
      /\ _w \in Nat /\ _r \in Nat /\ _w < N /\ _r < N /\ size < N
      /\ MaxChunk \in Nat /\ rf <= MaxChunk
  BY SizeFacts, GetPublishFacts DEF RingInv, RingType, SizeOK
<1>2. rf <= N - _r /\ dest \in Seq(Value) /\ Len(dest) = rf
      /\ \A i \in 1 .. rf : dest[i] = _b[_r + i - 1]
  BY DEF GetPublish, RingInv, RingType, ReaderOK
<1>3. /\ Content \in Seq(Value) /\ Len(Content) = size
      /\ \A i \in 1 .. size : Content[i] = _b[(_r + i - 1) % N]
  BY ContentIs DEF RingInv
<1>4. \A i \in 1 .. size : (_r + i - 1) % N = IF _r + i - 1 < N THEN _r + i - 1 ELSE _r + i - 1 - N
  BY Place DEF RingInv
<1>5. dest = SubSeq(Content, 1, rf)
  <2>1. SubSeq(Content, 1, rf) = [i \in 1 .. rf |-> Content[i]]
    BY <1>1
  <2>2. \A i \in 1 .. rf : Content[i] = dest[i]
    <3>1. TAKE i \in 1 .. rf
    <3>2. i \in 1 .. size /\ _r + i - 1 < N
      BY <1>1, <1>2
    <3>3. (_r + i - 1) % N = _r + i - 1
      BY <1>4, <3>2
    <3> QED
      BY <1>2, <1>3, <3>2, <3>3
  <2>3. dest = [i \in 1 .. rf |-> dest[i]]
    BY <1>2, LenProperties
  <2> QED
    BY <2>1, <2>2, <2>3
<1>6. Content' = Rest
  BY GetPublishFacts DEF Content
<1>7. Rest = SubSeq(Content, rf + 1, Len(Content))
  <2>1. SubSeq(Content, rf + 1, Len(Content)) = [i \in 1 .. size - rf |-> Content[rf + i]]
    BY <1>1, <1>3
  <2>2. \A i \in 1 .. size - rf : Content[rf + i] = Rest[i]
    <3>1. TAKE i \in 1 .. size - rf
    <3>2. PICK j \in 1 .. size : j = rf + i
      BY <1>1
    <3>3. PICK k \in Nat : k = (IF rf = N - _r THEN 0 ELSE _r + rf) + i - 1
      BY <1>1
    <3>4. k < 2 * N
      BY <1>1, <1>2, <3>3
    <3>5. k % N = IF k < N THEN k ELSE k - N
      BY <1>1, <3>4, ModFacts
    <3>6. (_r + j - 1) % N = IF _r + j - 1 < N THEN _r + j - 1 ELSE _r + j - 1 - N
      BY <1>4
    <3>7. (_r + j - 1) % N = k % N
      BY <1>1, <1>2, <3>2, <3>3, <3>5, <3>6
    <3>8. Content[j] = _b[k % N]
      BY <1>3, <3>7
    <3>9. Rest[i] = _b[k % N]
      BY <3>3
    <3> QED
      BY <3>2, <3>8, <3>9
  <2> QED
    BY <2>1, <2>2
<1> HIDE DEF Rest
<1>8. out' = dest /\ in' = in /\ rf \in 1 .. MaxChunk /\ rf <= Len(Content)
  BY <1>1, <1>3 DEF GetPublish
<1>9. Queue!Get(rf)
  BY <1>5, <1>6, <1>7, <1>8 DEF Queue!Get
<1> QED
  BY <1>8, <1>9

LEMMA clearClears == ASSUME SizeOK, RingInv, clear PROVE Queue!Clear
<1>1. Content' = [i \in 1 .. 0 |-> _b'[(_r' + i - 1) % N]]
  BY clearFacts DEF Content
<1>2. Content' = <<>>
  BY <1>1
<1> QED
  BY <1>2 DEF clear, Queue!Clear

LEMMA InitQueue == ASSUME SizeOK, Init PROVE Queue!Init
<1>1. size = 0
  BY DEF Init, size
<1>2. Content = [i \in 1 .. 0 |-> _b[(_r + i - 1) % N]]
  BY <1>1 DEF Content
<1>3. Content = <<>>
  BY <1>2
<1> QED
  BY <1>3 DEF Init, Queue!Init

\* Every step of a thread is a step of the queue or leaves it as it is.
LEMMA QueueStep ==
  ASSUME SizeOK, RingInv, [Next]_vars
  PROVE  [Queue!Next]_(Queue!vars)
<1>1. ASSUME UNCHANGED <<_b, _w, _r, in, out>> PROVE UNCHANGED Queue!vars
  BY <1>1, ContentStays DEF Queue!vars
<1>2. CASE \E data \in Chunk, t \in BOOLEAN : PutStart(data, t)
  BY <1>1, <1>2 DEF PutStart, ring
<1>3. CASE \E n \in 1 .. MaxChunk, t \in BOOLEAN : GetStart(n, t)
  BY <1>1, <1>3 DEF GetStart, ring
<1>4. CASE PutRefused \/ PutSpace
  BY <1>1, <1>4 DEF PutRefused, PutSpace, ring
<1>5. CASE PutCopy
  BY <1>5, PutCopyStutters DEF PutCopy, Queue!vars
<1>6. CASE PutPublish
  BY <1>6, PutPublishOffers DEF Queue!Next
<1>7. CASE GetRefused \/ GetData \/ GetCopy
  BY <1>1, <1>7 DEF GetRefused, GetData, GetCopy, ring
<1>8. CASE GetPublish
  BY <1>8, GetPublishGets DEF Queue!Next
<1>9. CASE clear
  BY <1>9, clearClears DEF Queue!Next
<1>10. CASE UNCHANGED vars
  BY <1>1, <1>10 DEF vars, ring
<1> QED
  BY <1>2, <1>3, <1>4, <1>5, <1>6, <1>7, <1>8, <1>9, <1>10 DEF Next, Put, Get

\* The threads leave each other's slots alone: what put() is filling is free,
\* and what get() is fetching stays in the queue and keeps its value.
THEOREM RingTheorem == ASSUME SizeOK PROVE Spec => []RingInv
<1>1. Init => RingInv
  BY InitRingInv
<1>2. RingInv /\ [Next]_vars => RingInv'
  BY RingStep
<1> QED
  BY <1>1, <1>2, PTL DEF Spec

\* The ring is a bounded queue, without a lock and in every interleaving of
\* put() and get(), for every size and every length of the chunks.
THEOREM QueueTheorem == ASSUME SizeOK PROVE Spec => ImplementsFifo
<1>1. Init => Queue!Init
  BY InitQueue
<1>2. RingInv /\ [Next]_vars => [Queue!Next]_(Queue!vars)
  BY QueueStep
<1> QED
  BY <1>1, <1>2, RingTheorem, PTL DEF Spec, ImplementsFifo, Queue!Spec
=============================================================================
