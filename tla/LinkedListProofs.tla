-------------------------- MODULE LinkedListProofs --------------------------
(***************************************************************************)
(* Proofs about LinkedList: whatever calls are made, in whatever order,    *)
(* the pointers, the ends, the count and the cache agree with each other,  *)
(* for every heap, every set of values and every range of indices.         *)
(***************************************************************************)
EXTENDS LinkedList, SequenceTheorems, TLAPS

-----------------------------------------------------------------------------
(* Sequences and the chains they stand for *)

LEMMA ConcatFacts ==
  ASSUME NEW S, NEW a \in Seq(S), NEW b \in Seq(S)
  PROVE  /\ a \o b \in Seq(S) /\ Len(a \o b) = Len(a) + Len(b)
         /\ \A i \in 1 .. Len(a) + Len(b) :
              (a \o b)[i] = IF i <= Len(a) THEN a[i] ELSE b[i - Len(a)]
OBVIOUS

LEMMA InsertAtFacts ==
  ASSUME NEW S, NEW s \in Seq(S), NEW e \in S, NEW k \in 1 .. Len(s) + 1
  PROVE  /\ InsertAt(s, k, e) \in Seq(S)
         /\ Len(InsertAt(s, k, e)) = Len(s) + 1
         /\ \A i \in 1 .. Len(s) + 1 :
              InsertAt(s, k, e)[i] = IF i < k THEN s[i] ELSE IF i = k THEN e ELSE s[i - 1]
<1> DEFINE front == SubSeq(s, 1, k - 1)
           back  == SubSeq(s, k, Len(s))
<1>1. front \in Seq(S) /\ Len(front) = k - 1 /\ \A i \in 1 .. k - 1 : front[i] = s[i]
  OBVIOUS
<1>2. /\ back \in Seq(S) /\ Len(back) = Len(s) - k + 1
      /\ \A i \in 1 .. Len(s) - k + 1 : back[i] = s[k + i - 1]
  OBVIOUS
<1> HIDE DEF front, back
<1>3. InsertAt(s, k, e) = front \o <<e>> \o back
  BY DEF InsertAt, front, back
<1> DEFINE most == front \o <<e>>
<1>4. /\ most \in Seq(S) /\ Len(most) = k
      /\ \A i \in 1 .. k : most[i] = IF i < k THEN s[i] ELSE e
  <2>1. <<e>> \in Seq(S) /\ Len(<<e>>) = 1 /\ <<e>>[1] = e
    OBVIOUS
  <2> QED
    BY <1>1, <2>1, ConcatFacts
<1> HIDE DEF most
<1>5. /\ most \o back \in Seq(S) /\ Len(most \o back) = Len(s) + 1
      /\ \A i \in 1 .. Len(s) + 1 :
           (most \o back)[i] = IF i <= k THEN most[i] ELSE back[i - k]
  <2>1. Len(most) + Len(back) = Len(s) + 1
    BY <1>2, <1>4
  <2>2. /\ most \o back \in Seq(S) /\ Len(most \o back) = Len(most) + Len(back)
        /\ \A i \in 1 .. Len(most) + Len(back) :
             (most \o back)[i] = IF i <= Len(most) THEN most[i] ELSE back[i - Len(most)]
    BY <1>2, <1>4, ConcatFacts
  <2>3. Len(most) = k
    BY <1>4
  <2> QED
    BY <2>1, <2>2, <2>3
<1>6. \A i \in 1 .. Len(s) + 1 : i > k => back[i - k] = s[i - 1]
  <2> SUFFICES ASSUME NEW i \in 1 .. Len(s) + 1, i > k PROVE back[i - k] = s[i - 1]
    OBVIOUS
  <2>1. i - k \in 1 .. Len(s) - k + 1 /\ k + (i - k) - 1 = i - 1
    OBVIOUS
  <2> QED
    BY <1>2, <2>1
<1>7. InsertAt(s, k, e) = most \o back
  BY <1>3 DEF most
<1> QED
  BY <1>4, <1>5, <1>6, <1>7

LEMMA RemoveAtFacts ==
  ASSUME NEW S, NEW s \in Seq(S), NEW k \in 1 .. Len(s)
  PROVE  /\ RemoveAt(s, k) \in Seq(S)
         /\ Len(RemoveAt(s, k)) = Len(s) - 1
         /\ \A i \in 1 .. Len(s) - 1 : RemoveAt(s, k)[i] = IF i < k THEN s[i] ELSE s[i + 1]
<1> DEFINE front == SubSeq(s, 1, k - 1)
           back  == SubSeq(s, k + 1, Len(s))
<1>1. front \in Seq(S) /\ Len(front) = k - 1 /\ \A i \in 1 .. k - 1 : front[i] = s[i]
  OBVIOUS
<1>2. /\ back \in Seq(S) /\ Len(back) = Len(s) - k
      /\ \A i \in 1 .. Len(s) - k : back[i] = s[k + i]
  OBVIOUS
<1> HIDE DEF front, back
<1>3. RemoveAt(s, k) = front \o back
  BY DEF RemoveAt, front, back
<1>4. Len(front) + Len(back) = Len(s) - 1
  BY <1>1, <1>2
<1>5. /\ front \o back \in Seq(S) /\ Len(front \o back) = Len(s) - 1
      /\ \A i \in 1 .. Len(s) - 1 :
           (front \o back)[i] = IF i <= k - 1 THEN front[i] ELSE back[i - (k - 1)]
  <2>1. /\ front \o back \in Seq(S) /\ Len(front \o back) = Len(front) + Len(back)
        /\ \A i \in 1 .. Len(front) + Len(back) :
             (front \o back)[i] = IF i <= Len(front) THEN front[i]
                                  ELSE back[i - Len(front)]
    BY <1>1, <1>2, ConcatFacts
  <2>2. Len(front) = k - 1
    BY <1>1
  <2> QED
    BY <1>4, <2>1, <2>2
<1>6. \A i \in 1 .. Len(s) - 1 : i >= k => back[i - (k - 1)] = s[i + 1]
  <2> SUFFICES ASSUME NEW i \in 1 .. Len(s) - 1, i >= k PROVE back[i - (k - 1)] = s[i + 1]
    OBVIOUS
  <2>1. i - (k - 1) \in 1 .. Len(s) - k /\ k + (i - (k - 1)) = i + 1
    OBVIOUS
  <2> QED
    BY <1>2, <2>1
<1> QED
  BY <1>1, <1>3, <1>5, <1>6

\* Nodes o, linked by the pointers nx from r to l, are s in number.
Chain(o, nx, r, l, s) ==
  /\ s = Len(o)
  /\ \A i, j \in 1 .. Len(o) : o[i] = o[j] => i = j
  /\ \A i \in 1 .. Len(o) : nx[o[i]] = IF i < Len(o) THEN o[i + 1] ELSE NULL
  /\ r = IF Len(o) > 0 THEN o[1] ELSE NULL
  /\ l = IF Len(o) > 0 THEN o[Len(o)] ELSE NULL

LEMMA RangeIs == ASSUME NEW o \in Seq(Node) PROVE Range(o) = {o[i] : i \in 1 .. Len(o)}
BY DEF Range

LEMMA ChainAppend ==
  ASSUME NEW o \in Seq(Node), NEW nx \in [Node -> Node \cup {NULL}], NEW r, NEW l, NEW s,
         Chain(o, nx, r, l, s), NEW n \in Node \ Range(o)
  PROVE  Chain(Append(o, n),
               IF r # NULL THEN [nx EXCEPT ![n] = NULL, ![l] = n]
                           ELSE [nx EXCEPT ![n] = NULL],
               IF r # NULL THEN r ELSE n, n, s + 1)
<1> DEFINE p == Append(o, n)
<1>1. Len(p) = Len(o) + 1 /\ p[Len(o) + 1] = n /\ \A i \in 1 .. Len(o) : p[i] = o[i]
  OBVIOUS
<1>2. \A i \in 1 .. Len(o) : o[i] \in Node /\ o[i] # n
  BY RangeIs
<1>3. Len(o) \in Nat /\ (r # NULL <=> Len(o) > 0)
  BY <1>2, NullAssumption DEF Chain
<1> HIDE DEF p
<1>4. CASE r # NULL
  BY <1>1, <1>2, <1>3, <1>4 DEF Chain, p
<1>5. CASE r = NULL
  BY <1>1, <1>2, <1>3, <1>5 DEF Chain, p
<1> QED
  BY <1>4, <1>5

LEMMA ChainPrepend ==
  ASSUME NEW o \in Seq(Node), NEW nx \in [Node -> Node \cup {NULL}], NEW r, NEW l, NEW s,
         Chain(o, nx, r, l, s), s # 0, NEW n \in Node \ Range(o)
  PROVE  Chain(<<n>> \o o, [nx EXCEPT ![n] = r], n, l, s + 1)
<1> DEFINE p == <<n>> \o o
<1>1. Len(p) = Len(o) + 1 /\ p[1] = n /\ \A i \in 1 .. Len(o) : p[i + 1] = o[i]
  OBVIOUS
<1>2. \A i \in 2 .. Len(o) + 1 : p[i] = o[i - 1]
  BY <1>1
<1>3. \A i \in 1 .. Len(o) : o[i] \in Node /\ o[i] # n
  BY RangeIs
<1> HIDE DEF p
<1> QED
  BY <1>1, <1>2, <1>3 DEF Chain, p

LEMMA ChainTail ==
  ASSUME NEW o \in Seq(Node), NEW nx \in [Node -> Node \cup {NULL}], NEW r, NEW l, NEW s,
         Chain(o, nx, r, l, s), s > 1
  PROVE  Chain(Tail(o), Without(nx, {r}, NULL), nx[r], l, s - 1)
<1>1. Len(Tail(o)) = Len(o) - 1 /\ \A i \in 1 .. Len(o) - 1 : Tail(o)[i] = o[i + 1]
  BY DEF Chain
<1> QED
  BY <1>1 DEF Chain, Without

LEMMA ChainInsert ==
  ASSUME NEW o \in Seq(Node), NEW nx \in [Node -> Node \cup {NULL}], NEW r, NEW l, NEW s,
         Chain(o, nx, r, l, s), NEW k \in 1 .. Len(o) - 1, NEW n \in Node \ Range(o)
  PROVE  Chain(InsertAt(o, k + 1, n), [nx EXCEPT ![n] = nx[o[k]], ![o[k]] = n], r, l, s + 1)
<1> DEFINE p == InsertAt(o, k + 1, n)
<1>1. /\ Len(p) = Len(o) + 1
      /\ \A i \in 1 .. Len(o) + 1 : p[i] = IF i < k + 1 THEN o[i]
                                            ELSE IF i = k + 1 THEN n ELSE o[i - 1]
  BY InsertAtFacts
<1>2. \A i \in 1 .. Len(o) : o[i] \in Node /\ o[i] # n
  BY RangeIs
<1> HIDE DEF p
<1> DEFINE nx2 == [nx EXCEPT ![n] = nx[o[k]], ![o[k]] = n]
<1>3. /\ nx2[n] = o[k + 1] /\ nx2[o[k]] = n
      /\ \A x \in Node : x # n /\ x # o[k] => nx2[x] = nx[x]
  BY <1>2 DEF Chain
<1> HIDE DEF nx2
<1>4. \A i, j \in 1 .. Len(p) : p[i] = p[j] => i = j
  BY <1>1, <1>2 DEF Chain
<1>5. ASSUME NEW i \in 1 .. Len(p) PROVE nx2[p[i]] = IF i < Len(p) THEN p[i + 1] ELSE NULL
  <2>1. CASE i < k
    BY <1>1, <1>2, <1>3, <2>1 DEF Chain
  <2>2. CASE i = k
    BY <1>1, <1>2, <1>3, <2>2 DEF Chain
  <2>3. CASE i = k + 1
    BY <1>1, <1>2, <1>3, <2>3 DEF Chain
  <2>4. CASE i > k + 1
    <3>1. p[i] = o[i - 1] /\ i - 1 \in 1 .. Len(o) /\ i - 1 # k
      BY <1>1, <2>4
    <3>2. nx2[p[i]] = nx[o[i - 1]]
      BY <1>2, <1>3, <3>1 DEF Chain
    <3> QED
      BY <1>1, <2>4, <3>1, <3>2 DEF Chain
  <2> QED
    BY <2>1, <2>2, <2>3, <2>4
<1>6. Chain(p, nx2, r, l, s + 1)
  BY <1>1, <1>4, <1>5 DEF Chain
<1> QED
  BY <1>6 DEF p, nx2

\* The node behind o[k] leaves the chain.
LEMMA ChainRemove ==
  ASSUME NEW o \in Seq(Node), NEW nx \in [Node -> Node \cup {NULL}], NEW r, NEW l, NEW s,
         Chain(o, nx, r, l, s), NEW k \in 1 .. Len(o) - 2
  PROVE  Chain(RemoveAt(o, k + 1), [nx EXCEPT ![o[k]] = nx[nx[o[k]]], ![nx[o[k]]] = NULL],
               r, l, s - 1)
<1> DEFINE p == RemoveAt(o, k + 1)
<1>1. /\ Len(p) = Len(o) - 1
      /\ \A i \in 1 .. Len(o) - 1 : p[i] = IF i < k + 1 THEN o[i] ELSE o[i + 1]
  <2>1. k + 1 \in 1 .. Len(o)
    OBVIOUS
  <2> QED
    BY <2>1, RemoveAtFacts
<1>2. \A i \in 1 .. Len(o) : o[i] \in Node
  OBVIOUS
<1>3. nx[o[k]] = o[k + 1] /\ nx[o[k + 1]] = o[k + 2]
  BY DEF Chain
<1> HIDE DEF p
<1> DEFINE nx2 == [nx EXCEPT ![o[k]] = nx[nx[o[k]]], ![nx[o[k]]] = NULL]
<1>4. /\ nx2[o[k]] = o[k + 2]
      /\ \A x \in Node : x # o[k] /\ x # o[k + 1] => nx2[x] = nx[x]
  BY <1>2, <1>3 DEF Chain
<1> HIDE DEF nx2
<1>5. \A i, j \in 1 .. Len(p) : p[i] = p[j] => i = j
  BY <1>1, <1>2 DEF Chain
<1>6. ASSUME NEW i \in 1 .. Len(p) PROVE nx2[p[i]] = IF i < Len(p) THEN p[i + 1] ELSE NULL
  <2>1. CASE i < k
    <3>1. p[i] = o[i] /\ p[i + 1] = o[i + 1] /\ i < Len(p) /\ i \in 1 .. Len(o) - 1
      BY <1>1, <2>1
    <3>2. o[i] # o[k] /\ o[i] # o[k + 1] /\ nx[o[i]] = o[i + 1]
      BY <2>1, <3>1 DEF Chain
    <3>3. nx2[o[i]] = nx[o[i]]
      BY <1>2, <1>4, <3>1, <3>2
    <3> QED
      BY <3>1, <3>2, <3>3
  <2>2. CASE i = k
    BY <1>1, <1>2, <1>4, <2>2 DEF Chain
  <2>3. CASE i > k
    <3>1. p[i] = o[i + 1] /\ i + 1 \in 1 .. Len(o) /\ i + 1 > k + 1
      BY <1>1, <2>3
    <3>2. nx2[p[i]] = nx[o[i + 1]]
      BY <1>2, <1>4, <3>1 DEF Chain
    <3> QED
      BY <1>1, <2>3, <3>1, <3>2, SMTT(30) DEF Chain
  <2> QED
    BY <2>1, <2>2, <2>3
<1>7. Chain(p, nx2, r, l, s - 1)
  BY <1>1, <1>5, <1>6 DEF Chain
<1> QED
  BY <1>7 DEF p, nx2

\* The last node leaves it.
LEMMA ChainFront ==
  ASSUME NEW o \in Seq(Node), NEW nx \in [Node -> Node \cup {NULL}], NEW r, NEW l, NEW s,
         Chain(o, nx, r, l, s), NEW k, k = Len(o) - 1, k > 0
  PROVE  Chain(Front(o), [nx EXCEPT ![nx[o[k]]] = NULL, ![o[k]] = NULL], r, o[k], s - 1)
<1>1. Len(o) \in Nat /\ k \in 1 .. Len(o)
  OBVIOUS
<1>2. /\ Len(Front(o)) = k /\ \A i \in 1 .. k : Front(o)[i] = o[i]
  BY <1>1 DEF Front
<1>3. \A i \in 1 .. Len(o) : o[i] \in Node
  OBVIOUS
<1>4. nx[o[k]] = o[k + 1]
  BY <1>1 DEF Chain
<1> DEFINE nx2 == [nx EXCEPT ![nx[o[k]]] = NULL, ![o[k]] = NULL]
<1>5. /\ nx2[o[k]] = NULL
      /\ \A x \in Node : x # o[k] /\ x # o[k + 1] => nx2[x] = nx[x]
  BY <1>1, <1>3, <1>4
<1> HIDE DEF nx2
<1>6. \A i \in 1 .. k : nx2[o[i]] = IF i < k THEN o[i + 1] ELSE NULL
  <2>1. ASSUME NEW i \in 1 .. k, i < k PROVE nx2[o[i]] = o[i + 1]
    <3>1. o[i] # o[k] /\ o[i] # o[k + 1] /\ nx[o[i]] = o[i + 1]
      BY <1>1, <2>1 DEF Chain
    <3> QED
      BY <1>1, <1>3, <1>5, <2>1, <3>1
  <2> QED
    BY <1>1, <1>5, <2>1
<1>7. \A i, j \in 1 .. k : o[i] = o[j] => i = j
  BY <1>1 DEF Chain
<1>8. \A i \in 1 .. k : i < k => i + 1 \in 1 .. k
  BY <1>1
<1>9. s - 1 = k /\ r = o[1]
  BY <1>1 DEF Chain
<1>10. Chain(Front(o), nx2, r, o[k], s - 1)
  BY <1>1, <1>2, <1>6, <1>7, <1>8, <1>9 DEF Chain
<1> QED
  BY <1>10 DEF nx2

-----------------------------------------------------------------------------
(* The inductive invariant *)

\* A walk that the call trusts to arrive is for an index the list has.
JobOK ==
  /\ job.op \in {"insert", "set", "pop", "remove"} => 0 <= job.index
  /\ job.op = "set" => job.index <= _size - 1
  /\ job.op \in {"insert", "pop"} => job.index <= _size - 2
  /\ job.op = "pop" => job.index = _size - 2
  /\ job.op = "remove" => job.index <= _size - 3

ListInv == TypeOK /\ Linked /\ CacheOK /\ JobOK

LEMMA LinkedIsChain ==
  ASSUME order \in Seq(Node)
  PROVE  Linked <=> Chain(order, next, root, last, _size)
BY DEF Linked, At, IsInjective, Chain

LEMMA LinkedIsChainNext ==
  ASSUME order' \in Seq(Node)
  PROVE  Linked' <=> Chain(order', next', root', last', _size')
BY DEF Linked, At, IsInjective, Chain

LEMMA InitListInv == Init => ListInv
<1> SUFFICES ASSUME Init PROVE ListInv
  OBVIOUS
<1>1. order = <<>> /\ order \in Seq(Node) /\ Len(order) = 0
  BY DEF Init
<1>2. TypeOK
  <2>1. /\ data \in [Node -> Value \cup {NoValue}] /\ next \in [Node -> Node \cup {NULL}]
        /\ job \in [op : Ops, index : Int, arg : Value \cup {NoValue}]
    BY DEF Init, NoJob, Ops
  <2>2. isCached \in BOOLEAN /\ ret \in Value \cup {NoValue} \cup BOOLEAN
    BY DEF Init
  <2> QED
    BY <1>1, <2>1, <2>2 DEF Init, TypeOK
<1>3. Linked
  BY <1>1, LinkedIsChain DEF Init, Chain
<1>4. CacheOK /\ JobOK
  BY DEF Init, CacheOK, JobOK, Idle, NoJob
<1> QED
  BY <1>2, <1>3, <1>4 DEF ListInv

\* Where the walk of a call that trusts it ends.
LEMMA ArrivedFacts ==
  ASSUME ListInv, NEW op \in Ops \ {"none"}, Arrived(op), job.index \in 0 .. _size - 1
  PROVE  /\ _pos = job.index /\ _size = Len(order) /\ current = order[job.index + 1]
         /\ job.index + 1 \in 1 .. Len(order)
<1>1. ~Idle /\ job.op = op
  BY DEF Arrived, Idle, NoJob, Ops
<1>2. current = At(_pos + 1) /\ (_pos = 0 \/ _pos <= job.index)
  BY <1>1 DEF ListInv, CacheOK
<1>3. _size = Len(order) /\ order \in Seq(Node) /\ _pos \in Nat
  BY DEF ListInv, Linked, TypeOK
<1>4. _pos <= job.index
  BY <1>2
<1>5. _pos + 1 \in 1 .. Len(order)
  BY <1>3, <1>4
<1>6. current = order[_pos + 1] /\ current \in Node
  BY <1>2, <1>3, <1>5 DEF At
<1>7. _pos = job.index
  BY <1>3, <1>4, <1>6, NullAssumption DEF Arrived
<1> QED
  BY <1>3, <1>5, <1>6, <1>7

-----------------------------------------------------------------------------
(* The calls that change the ends *)

LEMMA AddStep == ASSUME ListInv, NEW v \in Value, add(v) PROVE ListInv'
<1> USE DEF heap, ends, cache, walk
<1>1. PICK n \in Free :
        /\ data' = [data EXCEPT ![n] = v]
        /\ next' = IF root # NULL THEN [next EXCEPT ![n] = NULL, ![last] = n]
                                  ELSE [next EXCEPT ![n] = NULL]
        /\ root' = IF root # NULL THEN root ELSE n
        /\ last' = n
        /\ order' = Append(order, n)
  BY DEF add
<1>2. n \in Node \ Range(order)
  BY DEF Free
<1>3. order \in Seq(Node) /\ next \in [Node -> Node \cup {NULL}] /\ _size \in Nat
  BY DEF ListInv, TypeOK
<1>4. Chain(order, next, root, last, _size)
  BY <1>3, LinkedIsChain DEF ListInv
<1>5. order' \in Seq(Node)
  BY <1>1, <1>2, <1>3
<1>6. Chain(order', next', root', last', _size')
  <2>1. Chain(Append(order, n),
              IF root # NULL THEN [next EXCEPT ![n] = NULL, ![last] = n]
                             ELSE [next EXCEPT ![n] = NULL],
              IF root # NULL THEN root ELSE n, n, _size + 1)
    BY <1>2, <1>3, <1>4, ChainAppend
  <2>2. _size' = _size + 1
    BY DEF add
  <2> QED
    BY <1>1, <2>1, <2>2
<1>7. TypeOK'
  <2>1. /\ data' \in [Node -> Value \cup {NoValue}]
        /\ next' \in [Node -> Node \cup {NULL}]
    BY <1>1, <1>2 DEF ListInv, TypeOK
  <2>2. ret' \in BOOLEAN /\ isCached' \in BOOLEAN
    BY DEF add, Uncache
  <2>3. root' \in Node \cup {NULL} /\ last' \in Node \cup {NULL} /\ _size' \in Nat
    BY <1>1, <1>2, <1>3 DEF add, ListInv, TypeOK
  <2>4. UNCHANGED <<lastNodeGot, lastIndexGot, job, _pos, current>>
    BY DEF add, Uncache
  <2> QED
    BY <1>5, <2>1, <2>2, <2>3, <2>4 DEF ListInv, TypeOK
<1>8. CacheOK' /\ JobOK'
  BY DEF add, Uncache, CacheOK, JobOK, Idle, NoJob
<1> QED
  BY <1>5, <1>6, <1>7, <1>8, LinkedIsChainNext DEF ListInv

LEMMA UnshiftStep == ASSUME ListInv, NEW v \in Value, unshift(v) PROVE ListInv'
<1> USE DEF heap, ends, cache, walk
<1>1. CASE _size = 0
  BY <1>1, AddStep DEF unshift
<1>2. CASE _size # 0
  <2>1. PICK n \in Free :
          /\ data' = [data EXCEPT ![n] = v] /\ next' = [next EXCEPT ![n] = root]
          /\ root' = n
          /\ order' = <<n>> \o order
    BY <1>2 DEF unshift
  <2>2. n \in Node \ Range(order)
    BY DEF Free
  <2>3. order \in Seq(Node) /\ next \in [Node -> Node \cup {NULL}] /\ _size \in Nat
    BY DEF ListInv, TypeOK
  <2>4. Chain(order, next, root, last, _size)
    BY <2>3, LinkedIsChain DEF ListInv
  <2>5. order' \in Seq(Node)
    BY <2>1, <2>2, <2>3
  <2>6. Chain(order', next', root', last', _size')
    <3>1. Chain(<<n>> \o order, [next EXCEPT ![n] = root], n, last, _size + 1)
      BY <1>2, <2>2, <2>3, <2>4, ChainPrepend
    <3>2. _size' = _size + 1 /\ last' = last
      BY <1>2 DEF unshift
    <3> QED
      BY <2>1, <3>1, <3>2
  <2>7. TypeOK'
    <3>1. /\ data' \in [Node -> Value \cup {NoValue}]
          /\ next' \in [Node -> Node \cup {NULL}]
      BY <2>1, <2>2 DEF ListInv, TypeOK
    <3>2. ret' \in BOOLEAN /\ isCached' \in BOOLEAN
      BY <1>2 DEF unshift, Uncache
    <3>3. root' \in Node /\ last' = last /\ _size' \in Nat
      BY <1>2, <2>1, <2>2, <2>3 DEF unshift
    <3>4. UNCHANGED <<lastNodeGot, lastIndexGot, job, _pos, current>>
      BY <1>2 DEF unshift, Uncache
    <3> QED
      BY <2>5, <3>1, <3>2, <3>3, <3>4 DEF ListInv, TypeOK
  <2>8. CacheOK' /\ JobOK'
    BY <1>2 DEF unshift, Uncache, CacheOK, JobOK, Idle, NoJob
  <2> QED
    BY <2>5, <2>6, <2>7, <2>8, LinkedIsChainNext DEF ListInv
<1> QED
  BY <1>1, <1>2

\* Freed nodes keep well-typed fields.
LEMMA DeleteType ==
  ASSUME ListInv, NEW ns, Delete(ns)
  PROVE  data' \in [Node -> Value \cup {NoValue}] /\ next' \in [Node -> Node \cup {NULL}]
BY DEF ListInv, TypeOK, Delete, Without

LEMMA RootFacts ==
  ASSUME ListInv, _size > 0
  PROVE  root \in Node /\ root = order[1] /\ data[root] \in Value \cup {NoValue}
BY DEF ListInv, TypeOK, Linked, At

\* The list is emptied: by pop() or shift() of its only element, or clear().
LEMMA EmptyStep ==
  ASSUME ListInv, Idle, NEW ns, Delete(ns), order' = <<>>,
         root' = NULL, last' = NULL, _size' = 0,
         Uncache \/ (_size = 0 /\ UNCHANGED cache), UNCHANGED walk,
         ret' \in Value \cup {NoValue} \cup BOOLEAN
  PROVE  ListInv'
<1> USE DEF heap, ends, cache, walk
<1>1. order' \in Seq(Node) /\ Len(order') = 0
  OBVIOUS
<1>2. TypeOK'
  <2>1. isCached' \in BOOLEAN
    BY DEF Uncache, ListInv, TypeOK
  <2> QED
    BY <1>1, <2>1, DeleteType DEF Uncache, ListInv, TypeOK
<1>3. Chain(order', next', root', last', _size')
  BY <1>1 DEF Chain
<1>4. JobOK' /\ Idle'
  BY DEF JobOK, Idle, NoJob
<1>5. CacheOK'
  <2>1. CASE Uncache
    BY <1>4, <2>1 DEF Uncache, CacheOK
  <2>2. CASE _size = 0 /\ UNCHANGED cache
    <3>1. Len(order) = 0
      BY <2>2 DEF ListInv, Linked
    <3>2. \A i \in Nat : At(i) = NULL /\ At(i)' = NULL
      BY <1>1, <3>1 DEF At
    <3>3. isCached => lastNodeGot = NULL
      <4>1. lastIndexGot + 1 \in Nat
        BY DEF ListInv, TypeOK
      <4> QED
        BY <3>2, <4>1 DEF ListInv, CacheOK
    <3>4. lastIndexGot' + 1 \in Nat
      BY <2>2 DEF ListInv, TypeOK
    <3> QED
      BY <1>4, <2>2, <3>2, <3>3, <3>4 DEF CacheOK
  <2> QED
    BY <2>1, <2>2
<1> QED
  BY <1>1, <1>2, <1>3, <1>4, <1>5, LinkedIsChainNext DEF ListInv

\* A call that changes nothing but what it returns.
LEMMA AnswerStep ==
  ASSUME ListInv, UNCHANGED <<heap, ends, cache, walk, order>>,
         ret' \in Value \cup {NoValue} \cup BOOLEAN
  PROVE  ListInv'
<1> USE DEF heap, ends, cache, walk
<1>1. TypeOK'
  BY DEF ListInv, TypeOK
<1>2. Linked' /\ CacheOK' /\ JobOK'
  BY DEF ListInv, Linked, CacheOK, JobOK, At, Idle, IsInjective
<1> QED
  BY <1>1, <1>2 DEF ListInv

LEMMA PopOnlyStep == ASSUME ListInv, Idle, _size = 1, popOnly PROVE ListInv'
<1>1. ret' \in Value \cup {NoValue} \cup BOOLEAN
  BY RootFacts DEF popOnly
<1> QED
  BY <1>1, EmptyStep DEF popOnly

LEMMA ShiftStep == ASSUME ListInv, shift PROVE ListInv'
<1>1. CASE _size = 0
  BY <1>1, AnswerStep DEF shift
<1>2. CASE _size = 1
  BY <1>2, PopOnlyStep DEF shift
<1>3. CASE _size > 1
  <2> USE DEF heap, ends, cache, walk
  <2>1. /\ ret' = data[root] /\ root' = next[root] /\ order' = Tail(order)
        /\ _size' = _size - 1 /\ Delete({root}) /\ Uncache /\ Idle
        /\ UNCHANGED <<last, walk>>
    BY <1>3 DEF shift
  <2>2. order \in Seq(Node) /\ next \in [Node -> Node \cup {NULL}] /\ _size = Len(order)
    BY DEF ListInv, TypeOK, Linked
  <2>3. Chain(order, next, root, last, _size)
    BY <2>2, LinkedIsChain DEF ListInv
  <2>4. order' \in Seq(Node)
    BY <1>3, <2>1, <2>2
  <2>5. Chain(order', next', root', last', _size')
    BY <1>3, <2>1, <2>2, <2>3, ChainTail DEF Delete
  <2>6. TypeOK'
    <3>1. root' \in Node \cup {NULL} /\ ret' \in Value \cup {NoValue} /\ _size' \in Nat
      BY <1>3, <2>1, <2>2, RootFacts
    <3> QED
      BY <2>1, <2>4, <3>1, DeleteType DEF Uncache, ListInv, TypeOK
  <2>7. CacheOK' /\ JobOK'
    BY <2>1 DEF Uncache, CacheOK, JobOK, Idle, NoJob
  <2> QED
    BY <2>4, <2>5, <2>6, <2>7, LinkedIsChainNext DEF ListInv
<1> QED
  BY <1>1, <1>2, <1>3 DEF shift

LEMMA ClearStep == ASSUME ListInv, clear PROVE ListInv'
<1>1. ret' \in Value \cup {NoValue} \cup BOOLEAN
  BY DEF clear, ListInv, TypeOK
<1>2. Uncache \/ (_size = 0 /\ UNCHANGED cache)
  BY DEF clear, ListInv, TypeOK
<1> QED
  BY <1>1, <1>2, EmptyStep DEF clear

-----------------------------------------------------------------------------
(* The calls that walk, and their ends *)

\* A walk begins.
LEMMA StartStep ==
  ASSUME ListInv, Idle, NEW op \in Ops \ {"none"}, NEW i \in Int,
         NEW v \in Value \cup {NoValue}, NEW c \in BOOLEAN, StartWalk(op, i, v, c),
         c => isCached, UNCHANGED <<heap, ends, order, ret>>,
         Uncache \/ UNCHANGED cache,
         /\ op # "get" => 0 <= i
         /\ op = "set" => i <= _size - 1
         /\ op \in {"insert", "pop"} => i <= _size - 2
         /\ op = "pop" => i = _size - 2
         /\ op = "remove" => i <= _size - 3
  PROVE  ListInv'
<1> USE DEF heap, ends, cache
<1>1. job' = [op |-> op, index |-> i, arg |-> v]
  BY DEF StartWalk
<1>2. job'.op = op /\ job'.index = i /\ job'.arg = v
  BY <1>1
<1>3. \/ _pos' = 0 /\ current' = root
      \/ isCached /\ lastIndexGot <= i /\ _pos' = lastIndexGot /\ current' = lastNodeGot
  BY DEF StartWalk
<1>4. UNCHANGED <<lastNodeGot, lastIndexGot>> /\ isCached' \in {isCached, FALSE}
  BY DEF Uncache
<1>5. TypeOK'
  <2>1. job' \in [op : Ops, index : Int, arg : Value \cup {NoValue}]
    BY <1>1
  <2>2. _pos' \in Nat /\ current' \in Node \cup {NULL}
    BY <1>3 DEF ListInv, TypeOK
  <2>3. isCached' \in BOOLEAN
    BY <1>4 DEF ListInv, TypeOK
  <2> QED
    BY <1>4, <2>1, <2>2, <2>3 DEF ListInv, TypeOK
<1>6. Linked'
  BY DEF ListInv, Linked, At, IsInjective
<1>7. \A k : At(k)' = At(k)
  BY DEF At
<1>8. CacheOK'
  <2>1. isCached' => isCached
    BY <1>4
  <2>2. current' = At(_pos' + 1) /\ (_pos' = 0 \/ _pos' <= i)
    <3>1. root = At(0 + 1)
      BY DEF ListInv, Linked
    <3> QED
      BY <1>3, <3>1 DEF ListInv, CacheOK
  <2> QED
    BY <1>2, <1>4, <1>7, <2>1, <2>2 DEF ListInv, CacheOK
<1>9. JobOK'
  BY <1>2 DEF JobOK, Ops
<1> QED
  BY <1>5, <1>6, <1>8, <1>9 DEF ListInv

LEMMA PopStep == ASSUME ListInv, pop PROVE ListInv'
<1>1. CASE _size = 0 /\ ret' = NoValue /\ UNCHANGED <<heap, ends, cache, walk, order>>
  BY <1>1, AnswerStep
<1>2. CASE _size = 1 /\ popOnly
  BY <1>2, PopOnlyStep DEF pop
<1>3. CASE /\ _size > 1
           /\ StartWalk("pop", _size - 2, NoValue, FALSE)
           /\ Uncache
           /\ UNCHANGED <<heap, ends, order, ret>>
  <2>1. _size \in Nat /\ "pop" \in Ops \ {"none"}
    BY DEF ListInv, TypeOK, Ops
  <2>2. _size - 2 \in Int /\ 0 <= _size - 2
    BY <1>3, <2>1
  <2>3. FALSE \in BOOLEAN /\ FALSE => isCached
    OBVIOUS
  <2>4. Idle /\ NoValue \in Value \cup {NoValue}
    BY DEF pop
  <2>5. "pop" # "set" /\ "pop" # "remove" /\ _size - 2 <= _size - 2
    BY <2>1
  <2> QED
    BY <1>3, <2>1, <2>2, <2>3, <2>4, <2>5, StartStep
<1> QED
  BY <1>1, <1>2, <1>3 DEF pop

LEMMA AddAtStep ==
  ASSUME ListInv, NEW i \in 0 .. MaxIndex, NEW v \in Value, addAt(i, v) PROVE ListInv'
<1>1. CASE add(v) \/ unshift(v)
  BY <1>1, AddStep, UnshiftStep
<1>2. CASE /\ Idle /\ i < _size /\ i > 0
           /\ StartWalk("insert", i - 1, v, isCached)
           /\ UNCHANGED <<heap, ends, cache, order, ret>>
  <2>1. _size \in Nat /\ "insert" \in Ops \ {"none"} /\ isCached \in BOOLEAN
    BY DEF ListInv, TypeOK, Ops
  <2>2. i - 1 \in Int /\ 0 <= i - 1 /\ i - 1 <= _size - 2
    BY <1>2, <2>1, MaxIndexAssumption
  <2> QED
    BY <1>2, <2>1, <2>2, StartStep
<1> QED
  BY <1>1, <1>2 DEF addAt

LEMMA SetStep ==
  ASSUME ListInv, NEW i \in -1 .. MaxIndex, NEW v \in Value, set(i, v) PROVE ListInv'
<1>1. CASE ret' = FALSE /\ UNCHANGED <<heap, ends, cache, walk, order>>
  BY <1>1, AnswerStep
<1>2. CASE /\ 0 <= i /\ i < _size
           /\ StartWalk("set", i, v, isCached)
           /\ UNCHANGED <<heap, ends, cache, order, ret>>
  <2>1. _size \in Nat /\ "set" \in Ops \ {"none"} /\ isCached \in BOOLEAN
    BY DEF ListInv, TypeOK, Ops
  <2>2. i \in Int /\ i <= _size - 1
    BY <1>2, <2>1, MaxIndexAssumption
  <2> QED
    BY <1>2, <2>1, <2>2, StartStep DEF set
<1> QED
  BY <1>1, <1>2 DEF set

LEMMA GetStep == ASSUME ListInv, NEW i \in -1 .. MaxIndex, get(i) PROVE ListInv'
<1>1. i \in Int /\ "get" \in Ops \ {"none"} /\ isCached \in BOOLEAN
  BY MaxIndexAssumption DEF ListInv, TypeOK, Ops
<1> QED
  BY <1>1, StartStep DEF get

LEMMA RemoveStep == ASSUME ListInv, NEW i \in -1 .. MaxIndex, remove(i) PROVE ListInv'
<1>1. CASE ret' = NoValue /\ UNCHANGED <<heap, ends, cache, walk, order>>
  BY <1>1, AnswerStep
<1>2. CASE shift \/ pop
  BY <1>2, ShiftStep, PopStep
<1>3. CASE /\ Idle /\ i > 0 /\ i < _size - 1
           /\ StartWalk("remove", i - 1, NoValue, isCached)
           /\ UNCHANGED <<heap, ends, cache, order, ret>>
  <2>1. _size \in Nat /\ "remove" \in Ops \ {"none"} /\ isCached \in BOOLEAN
    BY DEF ListInv, TypeOK, Ops
  <2>2. i - 1 \in Int /\ 0 <= i - 1 /\ i - 1 <= _size - 3
    BY <1>3, <2>1, MaxIndexAssumption
  <2> QED
    BY <1>3, <2>1, <2>2, StartStep
<1> QED
  BY <1>1, <1>2, <1>3 DEF remove

\* One turn of the loop follows one pointer.
LEMMA WalkStepStep == ASSUME ListInv, WalkStep PROVE ListInv'
<1> USE DEF heap, ends, cache
<1>1. /\ _pos' = _pos + 1 /\ current' = next[current] /\ _pos < job.index /\ current # NULL
      /\ UNCHANGED <<heap, ends, cache, job, order, ret>> /\ ~Idle
  BY DEF WalkStep
<1>2. order \in Seq(Node) /\ _pos \in Nat /\ job.index \in Int
  BY DEF ListInv, TypeOK
<1>3. current = At(_pos + 1) /\ _pos + 1 \in 1 .. Len(order) /\ current = order[_pos + 1]
  BY <1>1 DEF ListInv, CacheOK, At
<1>4. next[order[_pos + 1]] = At(_pos + 1 + 1)
  BY <1>3 DEF ListInv, Linked
<1>5. \A k : At(k)' = At(k)
  BY <1>1 DEF At
<1>6. TypeOK'
  <2>1. _pos' \in Nat /\ current' \in Node \cup {NULL}
    BY <1>1, <1>2, <1>3 DEF ListInv, TypeOK
  <2> QED
    BY <1>1, <2>1 DEF ListInv, TypeOK
<1>7. Linked' /\ JobOK'
  BY <1>1 DEF ListInv, Linked, JobOK, At, IsInjective
<1>8. CacheOK'
  <2>1. current' = At(_pos' + 1) /\ _pos' <= job.index
    BY <1>1, <1>2, <1>3, <1>4
  <2> QED
    BY <1>1, <1>5, <2>1 DEF ListInv, CacheOK
<1> QED
  BY <1>6, <1>7, <1>8 DEF ListInv

\* A call has ended: what is left to show is that its stores are right.
LEMMA EndStep ==
  ASSUME ListInv, EndWalk,
         data' \in [Node -> Value \cup {NoValue}], next' \in [Node -> Node \cup {NULL}],
         order' \in Seq(Node), Chain(order', next', root', last', _size'),
         root' \in Node \cup {NULL}, last' \in Node \cup {NULL}, _size' \in Nat,
         lastNodeGot' \in Node \cup {NULL}, lastIndexGot' \in Nat, isCached' \in BOOLEAN,
         isCached' => lastNodeGot' = At(lastIndexGot + 1)',
         ret' \in Value \cup {NoValue} \cup BOOLEAN
  PROVE  ListInv'
<1>1. job' = NoJob /\ _pos' = 0 /\ current' = NULL /\ job'.op = "none"
  BY DEF EndWalk, NoJob
<1>2. TypeOK'
  <2>1. job' \in [op : Ops, index : Int, arg : Value \cup {NoValue}]
    BY <1>1 DEF NoJob, Ops
  <2> QED
    BY <1>1, <2>1 DEF TypeOK
<1>3. CacheOK' /\ JobOK'
  BY <1>1 DEF CacheOK, JobOK, Idle
<1> QED
  BY <1>2, <1>3, LinkedIsChainNext DEF ListInv

\* What the types and the chain say before the last step of a call.
LEMMA EndFacts ==
  ASSUME ListInv
  PROVE  /\ data \in [Node -> Value \cup {NoValue}] /\ next \in [Node -> Node \cup {NULL}]
         /\ order \in Seq(Node) /\ Len(order) \in Nat /\ _size = Len(order)
         /\ root \in Node \cup {NULL} /\ last \in Node \cup {NULL}
         /\ job.index \in Int /\ job.arg \in Value \cup {NoValue}
         /\ Chain(order, next, root, last, _size)
         /\ \A i \in 1 .. Len(order) : order[i] \in Node
BY LinkedIsChain DEF ListInv, TypeOK, Linked

LEMMA InsertEndStep == ASSUME ListInv, insertEnd PROVE ListInv'
<1>1. PICK n \in Free :
        /\ data' = [data EXCEPT ![n] = job.arg]
        /\ next' = [next EXCEPT ![n] = next[current], ![current] = n]
        /\ order' = InsertAt(order, job.index + 2, n)
  BY DEF insertEnd
<1>2. n \in Node \ Range(order)
  BY DEF Free
<1>3. /\ Arrived("insert") /\ _size' = _size + 1 /\ GotNode(FALSE) /\ ret' = TRUE
      /\ EndWalk /\ UNCHANGED <<root, last>>
  BY DEF insertEnd
<1>4. 0 <= job.index /\ job.index <= _size - 2
  BY <1>3 DEF ListInv, JobOK, Arrived
<1>5. "insert" \in Ops \ {"none"} /\ job.index \in 0 .. _size - 1
  BY <1>4, EndFacts DEF Ops
<1>6. current = order[job.index + 1]
  BY <1>3, <1>5, ArrivedFacts
<1> DEFINE k == job.index + 1
<1>7. k \in 1 .. Len(order) - 1 /\ k + 1 = job.index + 2 /\ k + 1 \in 1 .. Len(order) + 1
  BY <1>4, EndFacts
<1>8. order[k] \in Node
  BY <1>7, EndFacts
<1>9. Chain(order', next', root', last', _size')
  <2>1. Chain(InsertAt(order, k + 1, n), [next EXCEPT ![n] = next[order[k]], ![order[k]] = n],
              root, last, _size + 1)
    BY <1>2, <1>7, EndFacts, ChainInsert
  <2> QED
    BY <1>1, <1>3, <1>6, <1>7, <2>1
<1>10. order' \in Seq(Node)
  BY <1>1, <1>2, <1>7, EndFacts, InsertAtFacts
<1>11. /\ data' \in [Node -> Value \cup {NoValue}]
       /\ next' \in [Node -> Node \cup {NULL}]
  BY <1>1, <1>2, <1>6, <1>8, EndFacts
<1>12. /\ isCached' = FALSE /\ lastNodeGot' \in Node /\ lastIndexGot' \in Nat
       /\ _size' \in Nat
  BY <1>3, <1>4, <1>6, <1>8, EndFacts DEF GotNode
<1>13. isCached' \in BOOLEAN /\ ret' \in Value \cup {NoValue} \cup BOOLEAN
  BY <1>3, <1>12
<1> QED
  BY <1>3, <1>9, <1>10, <1>11, <1>12, <1>13, EndFacts, EndStep

LEMMA SetEndStep == ASSUME ListInv, setEnd PROVE ListInv'
<1>1. /\ Arrived("set") /\ data' = [data EXCEPT ![current] = job.arg]
      /\ GotNode(TRUE) /\ ret' = TRUE /\ EndWalk /\ UNCHANGED <<next, ends, order>>
  BY DEF setEnd
<1>2. 0 <= job.index /\ job.index <= _size - 1
  BY <1>1 DEF ListInv, JobOK, Arrived
<1>3. "set" \in Ops \ {"none"} /\ job.index \in 0 .. _size - 1
  BY <1>2, EndFacts DEF Ops
<1>4. current = order[job.index + 1] /\ job.index + 1 \in 1 .. Len(order)
  BY <1>1, <1>3, ArrivedFacts
<1>5. current \in Node
  BY <1>4, EndFacts
<1>6. UNCHANGED <<root, last, _size>>
  BY <1>1 DEF ends
<1>7. data' \in [Node -> Value \cup {NoValue}]
  BY <1>1, <1>5, EndFacts
<1>8. Chain(order', next', root', last', _size')
  BY <1>1, <1>6, EndFacts
<1>9. lastNodeGot' = current /\ lastIndexGot' = job.index /\ lastIndexGot' \in Nat
  BY <1>1, <1>2, EndFacts DEF GotNode
<1>10. lastNodeGot' = At(lastIndexGot + 1)'
  BY <1>1, <1>4, <1>9 DEF At
<1>11. isCached' \in BOOLEAN /\ ret' \in Value \cup {NoValue} \cup BOOLEAN
  BY <1>1 DEF GotNode
<1> QED
  BY <1>1, <1>5, <1>6, <1>7, <1>8, <1>9, <1>10, <1>11, EndFacts, EndStep

LEMMA GetEndStep == ASSUME ListInv, getEnd PROVE ListInv'
<1> USE DEF heap, ends, cache
<1>1. /\ Arrived("get") /\ EndWalk /\ UNCHANGED <<heap, ends, order>>
      /\ ret' = IF Found /\ current # NULL THEN data[current] ELSE NoValue
      /\ IF Found THEN GotNode(TRUE) ELSE UNCHANGED cache
  BY DEF getEnd
<1>2. ~Idle
  BY <1>1 DEF Arrived, Idle, NoJob
<1>3. current = At(_pos + 1) /\ current \in Node \cup {NULL} /\ _pos \in Nat
  BY <1>2 DEF ListInv, CacheOK, TypeOK
<1>4. \A k : At(k)' = At(k)
  BY <1>1 DEF At
<1>5. ret' \in Value \cup {NoValue} \cup BOOLEAN
  BY <1>1, <1>3, EndFacts
<1>6. /\ lastNodeGot' \in Node \cup {NULL} /\ lastIndexGot' \in Nat
      /\ isCached' => lastNodeGot' = At(lastIndexGot + 1)'
  <2>1. CASE Found
    BY <1>1, <1>3, <1>4, <2>1 DEF Found, GotNode
  <2>2. CASE ~Found
    BY <1>1, <1>4, <2>2 DEF ListInv, CacheOK, TypeOK
  <2> QED
    BY <2>1, <2>2
<1>7. isCached' \in BOOLEAN
  BY <1>1 DEF GotNode, ListInv, TypeOK
<1>8. Chain(order', next', root', last', _size')
  BY <1>1, EndFacts
<1> QED
  BY <1>1, <1>5, <1>6, <1>7, <1>8, EndFacts, EndStep

LEMMA PopEndStep == ASSUME ListInv, popEnd PROVE ListInv'
<1>1. /\ Arrived("pop") /\ ret' = data[next[current]]
      /\ data' = [data EXCEPT ![next[current]] = NoValue]
      /\ next' = [next EXCEPT ![next[current]] = NULL, ![current] = NULL]
      /\ last' = current /\ _size' = _size - 1 /\ order' = Front(order)
      /\ GotNode(TRUE) /\ EndWalk /\ UNCHANGED root
  BY DEF popEnd
<1>2. 0 <= job.index /\ job.index = _size - 2
  BY <1>1 DEF ListInv, JobOK, Arrived
<1>3. "pop" \in Ops \ {"none"} /\ job.index \in 0 .. _size - 1
  BY <1>2, EndFacts DEF Ops
<1> DEFINE k == job.index + 1
<1>4. current = order[k]
  BY <1>1, <1>3, ArrivedFacts
<1>5. k = Len(order) - 1 /\ k > 0 /\ k \in 1 .. Len(order) /\ k + 1 \in 1 .. Len(order)
  BY <1>2, EndFacts
<1>6. current \in Node /\ next[current] = order[k + 1] /\ next[current] \in Node
  BY <1>4, <1>5, EndFacts DEF Chain
<1>7. Chain(order', next', root', last', _size')
  <2>1. Chain(Front(order), [next EXCEPT ![next[order[k]]] = NULL, ![order[k]] = NULL],
              root, order[k], _size - 1)
    BY <1>5, EndFacts, ChainFront
  <2> QED
    BY <1>1, <1>4, <2>1
<1>8. order' \in Seq(Node) /\ Len(order') = k /\ order'[k] = order[k]
  BY <1>1, <1>5, EndFacts DEF Front
<1>9. /\ data' \in [Node -> Value \cup {NoValue}]
      /\ next' \in [Node -> Node \cup {NULL}]
  BY <1>1, <1>6, EndFacts
<1>10. lastNodeGot' = current /\ lastIndexGot' = job.index /\ lastIndexGot' \in Nat
       /\ _size' \in Nat
  BY <1>1, <1>2, <1>5, EndFacts DEF GotNode
<1>11. lastNodeGot' = At(lastIndexGot + 1)'
  BY <1>4, <1>5, <1>8, <1>10 DEF At
<1>12. isCached' \in BOOLEAN /\ ret' \in Value \cup {NoValue} \cup BOOLEAN
  BY <1>1, <1>6, EndFacts DEF GotNode
<1> QED
  BY <1>1, <1>6, <1>7, <1>8, <1>9, <1>10, <1>11, <1>12, EndFacts, EndStep

LEMMA RemoveEndStep == ASSUME ListInv, removeEnd PROVE ListInv'
<1>1. /\ Arrived("remove") /\ ret' = data[next[current]]
      /\ next' = [next EXCEPT ![current] = next[next[current]], ![next[current]] = NULL]
      /\ data' = [data EXCEPT ![next[current]] = NoValue]
      /\ order' = RemoveAt(order, job.index + 2) /\ _size' = _size - 1
      /\ GotNode(FALSE) /\ EndWalk /\ UNCHANGED <<root, last>>
  BY DEF removeEnd
<1>2. 0 <= job.index /\ job.index <= _size - 3
  BY <1>1 DEF ListInv, JobOK, Arrived
<1>3. "remove" \in Ops \ {"none"} /\ job.index \in 0 .. _size - 1
  BY <1>2, EndFacts DEF Ops
<1> DEFINE k == job.index + 1
<1>4. current = order[k]
  BY <1>1, <1>3, ArrivedFacts
<1>5. /\ k \in 1 .. Len(order) - 2 /\ k + 1 = job.index + 2 /\ k + 1 \in 1 .. Len(order)
      /\ k \in 1 .. Len(order)
  BY <1>2, EndFacts
<1>6. current \in Node /\ next[current] = order[k + 1] /\ next[current] \in Node
  BY <1>4, <1>5, EndFacts DEF Chain
<1>7. Chain(order', next', root', last', _size')
  <2>1. Chain(RemoveAt(order, k + 1),
              [next EXCEPT ![order[k]] = next[next[order[k]]], ![next[order[k]]] = NULL],
              root, last, _size - 1)
    BY <1>5, EndFacts, ChainRemove
  <2> QED
    BY <1>1, <1>4, <1>5, <2>1
<1>8. order' \in Seq(Node)
  BY <1>1, <1>5, EndFacts, RemoveAtFacts
<1>9. /\ data' \in [Node -> Value \cup {NoValue}]
      /\ next' \in [Node -> Node \cup {NULL}]
  BY <1>1, <1>6, EndFacts
<1>10. /\ isCached' = FALSE /\ lastNodeGot' \in Node /\ lastIndexGot' \in Nat
       /\ _size' \in Nat
  BY <1>1, <1>2, <1>6, EndFacts DEF GotNode
<1>11. isCached' \in BOOLEAN /\ ret' \in Value \cup {NoValue} \cup BOOLEAN
  BY <1>1, <1>6, <1>10, EndFacts
<1> QED
  BY <1>1, <1>7, <1>8, <1>9, <1>10, <1>11, EndFacts, EndStep

-----------------------------------------------------------------------------
(* Theorems *)

LEMMA NextListInv == ListInv /\ [Next]_vars => ListInv'
<1> SUFFICES ASSUME ListInv, [Next]_vars PROVE ListInv'
  OBVIOUS
<1>1. ASSUME NEW v \in Value, add(v) \/ unshift(v) PROVE ListInv'
  BY <1>1, AddStep, UnshiftStep
<1>2. ASSUME NEW i \in -1 .. MaxIndex, remove(i) \/ get(i) PROVE ListInv'
  BY <1>2, RemoveStep, GetStep
<1>3. ASSUME NEW i \in -1 .. MaxIndex, NEW v \in Value, set(i, v) PROVE ListInv'
  BY <1>3, SetStep
<1>4. ASSUME NEW i \in 0 .. MaxIndex, NEW v \in Value, addAt(i, v) PROVE ListInv'
  BY <1>4, AddAtStep
<1>5. CASE pop \/ shift \/ clear
  BY <1>5, PopStep, ShiftStep, ClearStep
<1>6. CASE WalkStep \/ insertEnd \/ setEnd \/ getEnd \/ popEnd \/ removeEnd
  BY <1>6, WalkStepStep, InsertEndStep, SetEndStep, GetEndStep, PopEndStep, RemoveEndStep
<1>7. CASE UNCHANGED vars
  <2>1. UNCHANGED <<heap, ends, cache, walk, order>> /\ ret' = ret
    BY <1>7 DEF vars
  <2>2. ret' \in Value \cup {NoValue} \cup BOOLEAN
    BY <2>1 DEF ListInv, TypeOK
  <2> QED
    BY <2>1, <2>2, AnswerStep
<1> QED
  BY <1>1, <1>2, <1>3, <1>4, <1>5, <1>6, <1>7 DEF Next

\* Between any two steps of any calls the nodes form one chain from root to
\* last, the count is its length, and the cached node is at the cached index:
\* no call leaks a node, follows a freed one or reads a stale cache.
THEOREM IntactTheorem == Spec => []Intact
<1>1. ListInv => Intact
  BY DEF ListInv, Intact
<1> QED
  BY <1>1, InitListInv, NextListInv, PTL DEF Spec

-----------------------------------------------------------------------------
(* LinkedList implements ListSpec: the values along the pointers change    *)
(* only as the calls of a sequence change it, each in one step, and every  *)
(* call returns what the sequence says.                                    *)

-----------------------------------------------------------------------------
(* The values along a chain *)

Field == Value \cup {NoValue}

Values(o, d) == [i \in 1 .. Len(o) |-> d[o[i]]]

LEMMA ContentIs == Content = Values(order, data) /\ Content' = Values(order', data')
BY DEF Content, Values

LEMMA ValuesSeq ==
  ASSUME NEW o \in Seq(Node), NEW d \in [Node -> Field]
  PROVE  /\ Values(o, d) \in Seq(Field) /\ Len(Values(o, d)) = Len(o)
         /\ \A i \in 1 .. Len(o) : Values(o, d)[i] = d[o[i]]
<1>1. \A i \in 1 .. Len(o) : d[o[i]] \in Field
  OBVIOUS
<1>2. Len(o) \in Nat
  OBVIOUS
<1> QED
  BY <1>1, <1>2, IsASeq DEF Values

\* A new node holds the new value, at the end, ...
LEMMA ValuesAppend ==
  ASSUME NEW o \in Seq(Node), NEW d \in [Node -> Field], NEW n \in Node \ Range(o),
         NEW v \in Field
  PROVE  Values(Append(o, n), [d EXCEPT ![n] = v]) = Append(Values(o, d), v)
<1> DEFINE p == Append(o, n)
           e == [d EXCEPT ![n] = v]
           q == Append(Values(o, d), v)
<1>1. p \in Seq(Node) /\ Len(p) = Len(o) + 1 /\ p[Len(o) + 1] = n
      /\ \A i \in 1 .. Len(o) : p[i] = o[i]
  BY AppendProperties
<1>2. \A i \in 1 .. Len(o) : o[i] \in Node /\ o[i] # n
  BY RangeIs
<1>3. e \in [Node -> Field] /\ e[n] = v /\ \A x \in Node : x # n => e[x] = d[x]
  OBVIOUS
<1>4. /\ q \in Seq(Field) /\ Len(q) = Len(o) + 1 /\ q[Len(o) + 1] = v
      /\ \A i \in 1 .. Len(o) : q[i] = d[o[i]]
  BY ValuesSeq, AppendProperties
<1> HIDE DEF p, e, q
<1>5. /\ Values(p, e) \in Seq(Field) /\ Len(Values(p, e)) = Len(o) + 1
      /\ \A i \in 1 .. Len(o) + 1 : Values(p, e)[i] = e[p[i]]
  BY <1>1, <1>3, ValuesSeq
<1>6. \A i \in 1 .. Len(o) + 1 : Values(p, e)[i] = q[i]
  BY <1>1, <1>2, <1>3, <1>4, <1>5
<1>7. Values(p, e) = q
  BY <1>4, <1>5, <1>6, SeqEqual
<1> QED
  BY <1>7 DEF p, e, q

\* p is s with e before its k-th element.
Inserted(p, s, k, e, S) ==
  /\ p \in Seq(S) /\ Len(p) = Len(s) + 1
  /\ \A i \in 1 .. Len(s) + 1 : p[i] = IF i < k THEN s[i] ELSE IF i = k THEN e ELSE s[i - 1]

LEMMA InsertedIs ==
  ASSUME NEW S, NEW s \in Seq(S), NEW e \in S, NEW k \in 1 .. Len(s) + 1
  PROVE  Inserted(InsertAt(s, k, e), s, k, e, S)
BY InsertAtFacts DEF Inserted

\* ... or before the k-th of the others.
LEMMA ValuesInsert ==
  ASSUME NEW o \in Seq(Node), NEW d \in [Node -> Field], NEW n \in Node \ Range(o),
         NEW v \in Field, NEW k \in 1 .. Len(o) + 1
  PROVE  Values(InsertAt(o, k, n), [d EXCEPT ![n] = v]) = InsertAt(Values(o, d), k, v)
<1> DEFINE p == InsertAt(o, k, n)
           e == [d EXCEPT ![n] = v]
           c == Values(o, d)
           q == InsertAt(c, k, v)
<1>1. /\ p \in Seq(Node) /\ Len(p) = Len(o) + 1
      /\ \A i \in 1 .. Len(o) + 1 : p[i] = IF i < k THEN o[i] ELSE IF i = k THEN n ELSE o[i - 1]
  <2>1. Inserted(p, o, k, n, Node)
    BY InsertedIs
  <2> HIDE DEF p
  <2> QED
    BY <2>1 DEF Inserted
<1>2. \A i \in 1 .. Len(o) : o[i] \in Node /\ o[i] # n
  BY RangeIs
<1>3. e \in [Node -> Field] /\ e[n] = v /\ \A x \in Node : x # n => e[x] = d[x]
  OBVIOUS
<1>4. c \in Seq(Field) /\ Len(c) = Len(o) /\ \A i \in 1 .. Len(o) : c[i] = d[o[i]]
  BY ValuesSeq
<1>5. k \in 1 .. Len(c) + 1
  BY <1>4
<1> HIDE DEF c
<1>6. /\ q \in Seq(Field) /\ Len(q) = Len(c) + 1
      /\ \A i \in 1 .. Len(c) + 1 : q[i] = IF i < k THEN c[i] ELSE IF i = k THEN v ELSE c[i - 1]
  <2>1. Inserted(q, c, k, v, Field)
    BY <1>4, <1>5, InsertedIs
  <2> HIDE DEF q
  <2> QED
    BY <2>1 DEF Inserted
<1> HIDE DEF p, e, q
<1>7. /\ Values(p, e) \in Seq(Field) /\ Len(Values(p, e)) = Len(o) + 1
      /\ \A i \in 1 .. Len(o) + 1 : Values(p, e)[i] = e[p[i]]
  BY <1>1, <1>3, ValuesSeq
<1>8. ASSUME NEW i \in 1 .. Len(o) + 1 PROVE Values(p, e)[i] = q[i]
  <2>1. CASE i < k
    <3>1. p[i] = o[i] /\ i \in 1 .. Len(o) /\ q[i] = c[i]
      BY <1>1, <1>4, <1>6, <2>1
    <3> QED
      BY <1>2, <1>3, <1>4, <1>7, <3>1
  <2>2. CASE i = k
    BY <1>1, <1>3, <1>4, <1>6, <1>7, <2>2
  <2>3. CASE i > k
    <3>1. p[i] = o[i - 1] /\ i - 1 \in 1 .. Len(o) /\ q[i] = c[i - 1]
      BY <1>1, <1>4, <1>6, <2>3
    <3> QED
      BY <1>2, <1>3, <1>4, <1>7, <3>1
  <2> QED
    BY <2>1, <2>2, <2>3
<1>9. Len(q) = Len(o) + 1
  BY <1>4, <1>6
<1>10. Values(p, e) = q
  BY <1>6, <1>7, <1>8, <1>9, SeqEqual
<1> QED
  BY <1>10 DEF p, e, q, c

\* Nodes that occur once, so that what is done to one does not show in another.
Distinct(o) == \A i, j \in 1 .. Len(o) : o[i] = o[j] => i = j

\* The k-th node leaves the chain, and nobody looks at its fields any more.
LEMMA ValuesRemove ==
  ASSUME NEW o \in Seq(Node), NEW d \in [Node -> Field], NEW e \in [Node -> Field],
         Distinct(o), NEW k \in 1 .. Len(o), \A x \in Node : x # o[k] => e[x] = d[x]
  PROVE  Values(RemoveAt(o, k), e) = RemoveAt(Values(o, d), k)
<1> DEFINE p == RemoveAt(o, k)
           c == Values(o, d)
           q == RemoveAt(c, k)
<1>1. /\ p \in Seq(Node) /\ Len(p) = Len(o) - 1
      /\ \A i \in 1 .. Len(o) - 1 : p[i] = IF i < k THEN o[i] ELSE o[i + 1]
  BY RemoveAtFacts
<1>2. \A i \in 1 .. Len(o) : o[i] \in Node /\ (i # k => o[i] # o[k])
  BY DEF Distinct
<1>3. c \in Seq(Field) /\ Len(c) = Len(o) /\ \A i \in 1 .. Len(o) : c[i] = d[o[i]]
  BY ValuesSeq
<1>4. k \in 1 .. Len(c)
  BY <1>3
<1> HIDE DEF c
<1>5. /\ q \in Seq(Field) /\ Len(q) = Len(c) - 1
      /\ \A i \in 1 .. Len(c) - 1 : q[i] = IF i < k THEN c[i] ELSE c[i + 1]
  BY <1>3, <1>4, RemoveAtFacts
<1> HIDE DEF p, q
<1>6. /\ Values(p, e) \in Seq(Field) /\ Len(Values(p, e)) = Len(o) - 1
      /\ \A i \in 1 .. Len(o) - 1 : Values(p, e)[i] = e[p[i]]
  BY <1>1, ValuesSeq
<1>7. ASSUME NEW i \in 1 .. Len(o) - 1 PROVE Values(p, e)[i] = q[i]
  <2>1. CASE i < k
    <3>1. p[i] = o[i] /\ q[i] = c[i] /\ i \in 1 .. Len(o) /\ i # k
      BY <1>1, <1>3, <1>5, <2>1, SMTT(30)
    <3> QED
      BY <1>2, <1>3, <1>6, <3>1
  <2>2. CASE i >= k
    <3>1. p[i] = o[i + 1] /\ q[i] = c[i + 1] /\ i + 1 \in 1 .. Len(o) /\ i + 1 # k
      BY <1>1, <1>3, <1>5, <2>2
    <3> QED
      BY <1>2, <1>3, <1>6, <3>1
  <2> QED
    BY <2>1, <2>2
<1>8. Len(q) = Len(o) - 1
  BY <1>3, <1>5
<1>9. Values(p, e) = q
  BY <1>5, <1>6, <1>7, <1>8, SeqEqual
<1> QED
  BY <1>9 DEF p, q, c

\* The k-th node is given another value.
Put(f, x, v) == [f EXCEPT ![x] = v]

LEMMA ValuesSet ==
  ASSUME NEW o \in Seq(Node), NEW d \in [Node -> Field], Distinct(o),
         NEW k \in 1 .. Len(o), NEW v \in Field
  PROVE  Values(o, Put(d, o[k], v)) = Put(Values(o, d), k, v)
<1> DEFINE e == [d EXCEPT ![o[k]] = v]
           c == Values(o, d)
           q == [c EXCEPT ![k] = v]
<1>1. o[k] \in Node /\ \A i \in 1 .. Len(o) : o[i] \in Node /\ (i # k => o[i] # o[k])
  BY DEF Distinct
<1>2. e \in [Node -> Field] /\ e[o[k]] = v /\ \A x \in Node : x # o[k] => e[x] = d[x]
  BY <1>1
<1>3. c \in Seq(Field) /\ Len(c) = Len(o) /\ \A i \in 1 .. Len(o) : c[i] = d[o[i]]
  BY ValuesSeq
<1>4. k \in 1 .. Len(c)
  BY <1>3
<1> HIDE DEF c
<1>5. /\ q \in Seq(Field) /\ Len(q) = Len(c)
      /\ \A i \in 1 .. Len(c) : q[i] = IF i = k THEN v ELSE c[i]
  BY <1>3, <1>4, ExceptSeq
<1> HIDE DEF e, q
<1>6. /\ Values(o, e) \in Seq(Field) /\ Len(Values(o, e)) = Len(o)
      /\ \A i \in 1 .. Len(o) : Values(o, e)[i] = e[o[i]]
  BY <1>2, ValuesSeq
<1>7. \A i \in 1 .. Len(o) : Values(o, e)[i] = q[i]
  BY <1>1, <1>2, <1>3, <1>5, <1>6
<1>8. Len(q) = Len(o)
  BY <1>3, <1>5
<1>9. Values(o, e) = q
  BY <1>5, <1>6, <1>7, <1>8, SeqEqual
<1> QED
  BY <1>9 DEF e, q, c, Put

\* The other ways the code and ListSpec name the same sequence.
LEMMA TailIsRemove == ASSUME NEW o \in Seq(Node), Len(o) > 0 PROVE Tail(o) = RemoveAt(o, 1)
<1>1. /\ Tail(o) \in Seq(Node) /\ Len(Tail(o)) = Len(o) - 1
      /\ \A i \in 1 .. Len(o) - 1 : Tail(o)[i] = o[i + 1]
  OBVIOUS
<1>2. 1 \in 1 .. Len(o) /\ Len(o) \in Nat
  OBVIOUS
<1>3. /\ RemoveAt(o, 1) \in Seq(Node) /\ Len(RemoveAt(o, 1)) = Len(o) - 1
      /\ \A i \in 1 .. Len(o) - 1 : RemoveAt(o, 1)[i] = IF i < 1 THEN o[i] ELSE o[i + 1]
  BY <1>2, RemoveAtFacts
<1>4. \A i \in 1 .. Len(o) - 1 : Tail(o)[i] = RemoveAt(o, 1)[i]
  BY <1>1, <1>2, <1>3
<1> QED
  BY <1>1, <1>3, <1>4, SeqEqual

LEMMA FrontIsRemove ==
  ASSUME NEW o \in Seq(Node), Len(o) > 0 PROVE Front(o) = RemoveAt(o, Len(o))
<1>1. Len(o) \in Nat /\ Len(o) \in 1 .. Len(o)
  OBVIOUS
<1>2. /\ Front(o) \in Seq(Node) /\ Len(Front(o)) = Len(o) - 1
      /\ \A i \in 1 .. Len(o) - 1 : Front(o)[i] = o[i]
  <2>1. Front(o) = SubSeq(o, 1, Len(o) - 1)
    BY DEF Front
  <2>2. \A i \in 1 .. Len(o) - 1 : o[i] \in Node
    OBVIOUS
  <2>3. 1 \in Int /\ Len(o) - 1 \in Int
    BY <1>1
  <2>4. /\ SubSeq(o, 1, Len(o) - 1) \in Seq(Node)
        /\ Len(SubSeq(o, 1, Len(o) - 1)) = IF 1 <= Len(o) - 1 THEN Len(o) - 1 - 1 + 1 ELSE 0
        /\ \A i \in 1 .. Len(o) - 1 - 1 + 1 : SubSeq(o, 1, Len(o) - 1)[i] = o[1 + i - 1]
    BY <2>2, <2>3, SubSeqProperties
  <2>5. Len(o) - 1 - 1 + 1 = Len(o) - 1 /\ \A i \in 1 .. Len(o) - 1 : 1 + i - 1 = i
    BY <1>1
  <2> QED
    BY <1>1, <2>1, <2>4, <2>5
<1>3. /\ RemoveAt(o, Len(o)) \in Seq(Node) /\ Len(RemoveAt(o, Len(o))) = Len(o) - 1
      /\ \A i \in 1 .. Len(o) - 1 :
           RemoveAt(o, Len(o))[i] = IF i < Len(o) THEN o[i] ELSE o[i + 1]
  BY <1>1, RemoveAtFacts
<1>4. \A i \in 1 .. Len(o) - 1 : Front(o)[i] = RemoveAt(o, Len(o))[i]
  BY <1>1, <1>2, <1>3
<1> QED
  BY <1>2, <1>3, <1>4, SeqEqual

\* Prepending is inserting before the first.
LEMMA PrependIsInsert ==
  ASSUME NEW S, NEW s \in Seq(S), NEW e \in S PROVE <<e>> \o s = InsertAt(s, 1, e)
<1>1. Len(s) \in Nat /\ 1 \in 1 .. Len(s) + 1 /\ <<e>> \in Seq(S) /\ Len(<<e>>) = 1
      /\ <<e>>[1] = e
  OBVIOUS
<1>2. /\ <<e>> \o s \in Seq(S) /\ Len(<<e>> \o s) = Len(<<e>>) + Len(s)
      /\ \A i \in 1 .. Len(<<e>>) + Len(s) :
           (<<e>> \o s)[i] = IF i <= Len(<<e>>) THEN <<e>>[i] ELSE s[i - Len(<<e>>)]
  BY <1>1, ConcatFacts
<1>3. /\ InsertAt(s, 1, e) \in Seq(S) /\ Len(InsertAt(s, 1, e)) = Len(s) + 1
      /\ \A i \in 1 .. Len(s) + 1 :
           InsertAt(s, 1, e)[i] = IF i < 1 THEN s[i] ELSE IF i = 1 THEN e ELSE s[i - 1]
  BY <1>1, InsertAtFacts
<1>4. Len(<<e>> \o s) = Len(s) + 1
      /\ \A i \in 1 .. Len(s) + 1 : (<<e>> \o s)[i] = InsertAt(s, 1, e)[i]
  BY <1>1, <1>2, <1>3
<1> QED
  BY <1>2, <1>3, <1>4, SeqEqual

-----------------------------------------------------------------------------
(* The arguments of the call that is walking *)

JobArgs ==
  /\ job.op = "get" => job.index \in -1 .. MaxIndex
  /\ job.op = "set" => job.index \in -1 .. MaxIndex /\ job.arg \in Value
  /\ job.op = "insert" => job.index + 1 \in 0 .. MaxIndex /\ job.arg \in Value
  /\ job.op = "remove" => job.index + 1 \in -1 .. MaxIndex

RefInv == ListInv /\ JobArgs

LEMMA StartArgs ==
  ASSUME NEW op \in Ops, NEW i, NEW v, NEW c, StartWalk(op, i, v, c),
         op = "get" => i \in -1 .. MaxIndex,
         op = "set" => i \in -1 .. MaxIndex /\ v \in Value,
         op = "insert" => i + 1 \in 0 .. MaxIndex /\ v \in Value,
         op = "remove" => i + 1 \in -1 .. MaxIndex
  PROVE  JobArgs'
<1>1. job' = [op |-> op, index |-> i, arg |-> v]
  BY DEF StartWalk
<1>2. job'.op = op /\ job'.index = i /\ job'.arg = v
  BY <1>1
<1> QED
  BY <1>2 DEF JobArgs

LEMMA CalmArgs == JobArgs /\ (UNCHANGED job \/ EndWalk) => JobArgs'
BY DEF JobArgs, EndWalk, NoJob

LEMMA ArgsStep == ListInv /\ JobArgs /\ [Next]_vars => JobArgs'
<1> SUFFICES ASSUME ListInv, JobArgs, [Next]_vars PROVE JobArgs'
  OBVIOUS
<1> USE MaxIndexAssumption DEF walk
<1>1. ASSUME NEW v \in Value, add(v) \/ unshift(v) PROVE JobArgs'
  BY <1>1, CalmArgs DEF add, unshift
<1>2. CASE pop
  <2>1. ASSUME StartWalk("pop", _size - 2, NoValue, FALSE) PROVE JobArgs'
    <3>1. "pop" \in Ops
      BY DEF Ops
    <3> QED
      BY <2>1, <3>1, StartArgs
  <2> QED
    BY <1>2, <2>1, CalmArgs DEF pop, popOnly
<1>3. CASE shift
  BY <1>3, CalmArgs DEF shift, popOnly
<1>4. ASSUME NEW i \in -1 .. MaxIndex, remove(i) PROVE JobArgs'
  <2>1. ASSUME StartWalk("remove", i - 1, NoValue, isCached) PROVE JobArgs'
    <3>1. "remove" \in Ops /\ i - 1 + 1 \in -1 .. MaxIndex
      BY DEF Ops
    <3> QED
      BY <2>1, <3>1, StartArgs
  <2> QED
    BY <1>2, <1>3, <1>4, <2>1, CalmArgs DEF remove
<1>5. ASSUME NEW i \in -1 .. MaxIndex, get(i) PROVE JobArgs'
  <2>1. "get" \in Ops /\ StartWalk("get", i, NoValue, isCached)
    BY <1>5 DEF Ops, get
  <2> QED
    BY <2>1, StartArgs
<1>6. ASSUME NEW i \in -1 .. MaxIndex, NEW v \in Value, set(i, v) PROVE JobArgs'
  <2>1. ASSUME StartWalk("set", i, v, isCached) PROVE JobArgs'
    <3>1. "set" \in Ops
      BY DEF Ops
    <3> QED
      BY <2>1, <3>1, StartArgs
  <2> QED
    BY <1>6, <2>1, CalmArgs DEF set
<1>7. ASSUME NEW i \in 0 .. MaxIndex, NEW v \in Value, addAt(i, v) PROVE JobArgs'
  <2>1. ASSUME StartWalk("insert", i - 1, v, isCached) PROVE JobArgs'
    <3>1. "insert" \in Ops /\ i - 1 + 1 \in 0 .. MaxIndex
      BY DEF Ops
    <3> QED
      BY <2>1, <3>1, StartArgs
  <2> QED
    BY <1>1, <1>7, <2>1 DEF addAt
<1>8. CASE clear \/ UNCHANGED vars
  BY <1>8, CalmArgs DEF clear, vars
<1>9. CASE WalkStep \/ insertEnd \/ setEnd \/ getEnd \/ popEnd \/ removeEnd
  BY <1>9, CalmArgs DEF WalkStep, insertEnd, setEnd, getEnd, popEnd, removeEnd
<1> QED
  BY <1>1, <1>2, <1>3, <1>4, <1>5, <1>6, <1>7, <1>8, <1>9 DEF Next

-----------------------------------------------------------------------------
(* Each call is a call of the sequence, or a part of one that does not show *)

LEMMA RefFacts ==
  ASSUME ListInv
  PROVE  /\ order \in Seq(Node) /\ data \in [Node -> Field] /\ Distinct(order)
         /\ _size = Len(order) /\ Len(order) \in Nat
         /\ Content = Values(order, data) /\ Content \in Seq(Field)
         /\ Len(Content) = Len(order)
         /\ \A i \in 1 .. Len(order) : Content[i] = data[order[i]]
<1>1. order \in Seq(Node) /\ data \in [Node -> Field] /\ _size = Len(order)
  BY DEF ListInv, TypeOK, Linked, Field
<1>2. Distinct(order)
  BY EndFacts DEF Chain, Distinct
<1> QED
  BY <1>1, <1>2, ContentIs, ValuesSeq

LEMMA AddRefines == ASSUME ListInv, NEW v \in Value, add(v) PROVE Sequence!Add(v)
<1>1. PICK n \in Free : data' = [data EXCEPT ![n] = v] /\ order' = Append(order, n)
  BY DEF add
<1>2. n \in Node \ Range(order) /\ v \in Field
  BY DEF Free, Field
<1>3. Content' = Append(Content, v)
  BY <1>1, <1>2, RefFacts, ContentIs, ValuesAppend
<1> QED
  BY <1>3 DEF add, Sequence!Add

LEMMA UnshiftRefines ==
  ASSUME ListInv, NEW v \in Value, unshift(v)
  PROVE  Sequence!Unshift(v)
<1>1. v \in Field
  BY DEF Field
<1>2. CASE _size = 0
  <2>1. Sequence!Add(v)
    BY <1>2, AddRefines DEF unshift
  <2>2. Append(Content, v) = <<v>> \o Content
    <3>1. Content = <<>>
      BY <1>2, RefFacts, EmptySeq
    <3> QED
      BY <3>1
  <2> QED
    BY <2>1, <2>2 DEF Sequence!Add, Sequence!Unshift
<1>3. CASE _size # 0
  <2>1. PICK n \in Free : data' = [data EXCEPT ![n] = v] /\ order' = <<n>> \o order
    BY <1>3 DEF unshift
  <2>2. n \in Node \ Range(order) /\ n \in Node
    BY DEF Free
  <2>3. order' = InsertAt(order, 1, n)
    BY <2>1, <2>2, RefFacts, PrependIsInsert
  <2>4. 1 \in 1 .. Len(order) + 1
    BY RefFacts
  <2>5. Content' = InsertAt(Content, 1, v)
    <3>1. Values(InsertAt(order, 1, n), [data EXCEPT ![n] = v])
            = InsertAt(Values(order, data), 1, v)
      <4>1. order \in Seq(Node) /\ data \in [Node -> Field] /\ n \in Node \ Range(order)
        BY <2>2, RefFacts
      <4> QED
        BY <1>1, <2>4, <4>1, ValuesInsert
    <3> QED
      BY <2>1, <2>3, <3>1, ContentIs
  <2>6. InsertAt(Content, 1, v) = <<v>> \o Content
    BY <1>1, RefFacts, PrependIsInsert
  <2> QED
    BY <1>3, <2>5, <2>6 DEF unshift, Sequence!Unshift
<1> QED
  BY <1>2, <1>3

\* A node is taken out, whichever call does it.
LEMMA TakeOut ==
  ASSUME ListInv, NEW k \in 1 .. Len(order), order' = RemoveAt(order, k),
         data' \in [Node -> Field], \A x \in Node : x # order[k] => data'[x] = data[x],
         ret' = data[order[k]], NEW i \in Int, i + 1 = k
  PROVE  Sequence!RemoveIndex(i)
<1>1. Content' = RemoveAt(Content, k)
  BY RefFacts, ContentIs, ValuesRemove
<1>2. ret' = Content[k]
  BY RefFacts
<1>3. i \in 0 .. Len(Content) - 1 /\ i + 1 = k
  BY RefFacts
<1> QED
  BY <1>1, <1>2, <1>3 DEF Sequence!RemoveIndex, Sequence!RemoveAt, RemoveAt

LEMMA PopOnlyRefines ==
  ASSUME ListInv, _size = 1, popOnly PROVE Sequence!RemoveIndex(0)
<1>1. 1 \in 1 .. Len(order) /\ Len(order) > 0 /\ Len(order) = 1
  BY RefFacts
<1>2. root = order[1]
  BY RootFacts
<1>3. order' = RemoveAt(order, 1)
  <2>1. RemoveAt(order, 1) \in Seq(Node) /\ Len(RemoveAt(order, 1)) = Len(order) - 1
    BY <1>1, RefFacts, RemoveAtFacts
  <2>2. RemoveAt(order, 1) = <<>>
    BY <1>1, <2>1, EmptySeq
  <2> QED
    BY <2>2 DEF popOnly
<1>4. /\ data' \in [Node -> Field]
      /\ \A x \in Node : x # order[1] => data'[x] = data[x]
  BY <1>2, RefFacts DEF popOnly, Delete, Without, Field
<1>5. ret' = data[order[1]]
  BY <1>2 DEF popOnly
<1> QED
  BY <1>1, <1>3, <1>4, <1>5, TakeOut

\* Removing at an index the sequence does not have.
LEMMA NoSuchRefines ==
  ASSUME ListInv, UNCHANGED <<data, order>>, ret' = NoValue,
         NEW i \in Int, i < 0 \/ i >= _size
  PROVE  Sequence!RemoveIndex(i)
<1>1. Content' = Content /\ i \notin 0 .. Len(Content) - 1
  BY RefFacts, ContentIs
<1> QED
  BY <1>1 DEF Sequence!RemoveIndex

LEMMA ShiftRefines == ASSUME ListInv, shift PROVE Sequence!RemoveIndex(0)
<1>1. CASE _size = 0
  BY <1>1, NoSuchRefines DEF shift, heap
<1>2. CASE _size = 1
  BY <1>2, PopOnlyRefines DEF shift
<1>3. CASE _size > 1
  <2>1. Len(order) > 0 /\ 1 \in 1 .. Len(order) /\ root = order[1]
    BY <1>3, RefFacts, RootFacts
  <2>2. ret' = data[root] /\ order' = Tail(order) /\ Delete({root})
    BY <1>3 DEF shift
  <2>3. order' = RemoveAt(order, 1)
    BY <2>1, <2>2, RefFacts, TailIsRemove
  <2>4. /\ data' \in [Node -> Field]
        /\ \A x \in Node : x # order[1] => data'[x] = data[x]
    BY <2>1, <2>2, RefFacts DEF Delete, Without, Field
  <2> QED
    BY <2>1, <2>2, <2>3, <2>4, TakeOut
<1> QED
  BY <1>1, <1>2, <1>3, RefFacts DEF shift

LEMMA ClearRefines == ASSUME ListInv, clear PROVE Sequence!Clear
<1>1. order' = <<>> /\ order' \in Seq(Node) /\ Len(order') = 0 /\ ret' = ret
  BY DEF clear
<1>2. data' \in [Node -> Field]
  BY RefFacts DEF clear, Delete, Without, Field
<1>3. Content' \in Seq(Field) /\ Len(Content') = 0
  BY <1>1, <1>2, ContentIs, ValuesSeq
<1>4. Content' = <<>>
  BY <1>3, EmptySeq
<1> QED
  BY <1>1, <1>4 DEF Sequence!Clear

LEMMA InsertEndRefines ==
  ASSUME RefInv, insertEnd
  PROVE  /\ job.index + 1 \in 0 .. MaxIndex /\ job.arg \in Value
         /\ Sequence!AddAt(job.index + 1, job.arg)
<1>1. PICK n \in Free : /\ data' = [data EXCEPT ![n] = job.arg]
                        /\ order' = InsertAt(order, job.index + 2, n)
  BY DEF insertEnd
<1>2. job.op = "insert" /\ ret' = TRUE /\ ListInv
  BY DEF insertEnd, Arrived, RefInv
<1>3. job.index + 1 \in 0 .. MaxIndex /\ job.arg \in Value
  BY <1>2 DEF RefInv, JobArgs
<1>4. 0 <= job.index /\ job.index <= _size - 2 /\ job.index \in Int
  BY <1>2, EndFacts DEF ListInv, JobOK
<1>5. n \in Node \ Range(order) /\ job.arg \in Field
  BY <1>3 DEF Free, Field
<1>6. order \in Seq(Node) /\ data \in [Node -> Field] /\ Len(Content) = Len(order)
  BY <1>2, RefFacts
<1>7. job.index + 2 \in 1 .. Len(order) + 1 /\ ~(job.index + 1 >= Len(Content))
      /\ job.index + 1 + 1 = job.index + 2
  BY <1>2, <1>4, RefFacts
<1>8. Values(InsertAt(order, job.index + 2, n), [data EXCEPT ![n] = job.arg])
        = InsertAt(Values(order, data), job.index + 2, job.arg)
  <2>1. PICK k \in 1 .. Len(order) + 1 : k = job.index + 2
    BY <1>7
  <2>2. PICK v \in Field : v = job.arg
    BY <1>5
  <2>3. order \in Seq(Node) /\ data \in [Node -> Field] /\ n \in Node \ Range(order)
    BY <1>5, <1>6
  <2>4. Values(InsertAt(order, k, n), [data EXCEPT ![n] = v])
          = InsertAt(Values(order, data), k, v)
    BY <2>1, <2>2, <2>3, ValuesInsert
  <2> QED
    BY <2>1, <2>2, <2>4
<1>9. Content' = InsertAt(Content, job.index + 2, job.arg)
  BY <1>1, <1>8, ContentIs
<1> QED
  BY <1>2, <1>3, <1>7, <1>9 DEF Sequence!AddAt, Sequence!InsertAt, InsertAt

LEMMA SetEndRefines ==
  ASSUME RefInv, setEnd
  PROVE  /\ job.index \in -1 .. MaxIndex /\ job.arg \in Value
         /\ Sequence!Set(job.index, job.arg)
<1>1. /\ Arrived("set") /\ data' = [data EXCEPT ![current] = job.arg] /\ ret' = TRUE
      /\ order' = order /\ ListInv
  BY DEF setEnd, RefInv
<1>2. job.index \in -1 .. MaxIndex /\ job.arg \in Value
  BY <1>1 DEF RefInv, JobArgs, Arrived
<1>3. 0 <= job.index /\ job.index <= _size - 1
  BY <1>1 DEF ListInv, JobOK, Arrived
<1>4. "set" \in Ops \ {"none"} /\ job.index \in 0 .. _size - 1
  BY <1>1, <1>3, EndFacts DEF Ops
<1>5. current = order[job.index + 1] /\ job.index + 1 \in 1 .. Len(order)
  BY <1>1, <1>4, ArrivedFacts
<1>6. /\ order \in Seq(Node) /\ data \in [Node -> Field] /\ Distinct(order)
      /\ job.arg \in Field
  BY <1>1, <1>2, RefFacts DEF Field
<1>7. Values(order, [data EXCEPT ![order[job.index + 1]] = job.arg])
        = [Values(order, data) EXCEPT ![job.index + 1] = job.arg]
  <2>1. PICK k \in 1 .. Len(order) : k = job.index + 1
    BY <1>5
  <2>2. PICK v \in Field : v = job.arg
    BY <1>6
  <2>3. order \in Seq(Node) /\ data \in [Node -> Field] /\ Distinct(order)
    BY <1>6
  <2>4. Values(order, Put(data, order[k], v)) = Put(Values(order, data), k, v)
    BY <2>1, <2>2, <2>3, ValuesSet
  <2> QED
    BY <2>1, <2>2, <2>4 DEF Put
<1>8. Content' = [Content EXCEPT ![job.index + 1] = job.arg]
  BY <1>1, <1>5, <1>7, ContentIs
<1>9. job.index \in 0 .. Len(Content) - 1
  BY <1>1, <1>4, RefFacts
<1> QED
  BY <1>1, <1>2, <1>8, <1>9 DEF Sequence!Set

LEMMA GetEndRefines ==
  ASSUME RefInv, getEnd
  PROVE  job.index \in -1 .. MaxIndex /\ Sequence!Get(job.index)
<1>1. /\ Arrived("get") /\ UNCHANGED <<data, order>> /\ ListInv
      /\ ret' = IF Found /\ current # NULL THEN data[current] ELSE NoValue
  BY DEF getEnd, heap, RefInv
<1>2. job.index \in -1 .. MaxIndex /\ job.index \in Int
  BY <1>1, EndFacts DEF RefInv, JobArgs, Arrived
<1>3. ~Idle
  BY <1>1 DEF Arrived, Idle, NoJob
<1>4. current = At(_pos + 1) /\ _pos \in Nat /\ (_pos = 0 \/ _pos <= job.index)
  BY <1>1, <1>3 DEF ListInv, CacheOK, TypeOK
<1>5. Content' = Content /\ Len(Content) = Len(order) /\ Len(order) \in Nat
  BY <1>1, RefFacts, ContentIs
<1>6. CASE job.index \in 0 .. Len(Content) - 1
  <2>1. _pos + 1 \in 1 .. Len(order) /\ _pos <= job.index
    BY <1>4, <1>5, <1>6
  <2>2. current = order[_pos + 1] /\ current \in Node
    BY <1>1, <1>4, <2>1, EndFacts DEF At
  <2>3. _pos = job.index
    BY <1>1, <1>2, <1>4, <2>1, <2>2, NullAssumption DEF Arrived
  <2>4. ret' = data[order[job.index + 1]]
    BY <1>1, <2>2, <2>3, NullAssumption DEF Found
  <2>5. ret' = Content[job.index + 1]
    BY <1>1, <2>1, <2>3, <2>4, RefFacts
  <2> QED
    BY <1>2, <1>5, <1>6, <2>5 DEF Sequence!Get
<1>7. CASE job.index \notin 0 .. Len(Content) - 1
  <2>1. Found => current = NULL
    <3>1. ASSUME Found PROVE _pos + 1 \notin 1 .. Len(order)
      BY <1>2, <1>4, <1>5, <1>7, <3>1 DEF Found
    <3> QED
      BY <1>4, <3>1 DEF At
  <2>2. ret' = NoValue
    BY <1>1, <2>1
  <2> QED
    BY <1>2, <1>5, <1>7, <2>2 DEF Sequence!Get
<1> QED
  BY <1>6, <1>7

LEMMA PopEndRefines == ASSUME RefInv, popEnd PROVE Sequence!Pop
<1>1. /\ Arrived("pop") /\ ret' = data[next[current]] /\ ListInv
      /\ data' = [data EXCEPT ![next[current]] = NoValue]
      /\ order' = Front(order)
  BY DEF popEnd, RefInv
<1>2. 0 <= job.index /\ job.index = _size - 2
  BY <1>1 DEF ListInv, JobOK, Arrived
<1>3. "pop" \in Ops \ {"none"} /\ job.index \in 0 .. _size - 1
  BY <1>1, <1>2, EndFacts DEF Ops
<1>4. current = order[job.index + 1] /\ job.index + 1 \in 1 .. Len(order)
  BY <1>1, <1>3, ArrivedFacts
<1>5. /\ job.index + 1 < Len(order) /\ job.index + 1 + 1 = Len(order)
      /\ Len(order) \in 1 .. Len(order) /\ Len(order) > 0
  BY <1>1, <1>2, <1>4, EndFacts
<1>6. next[current] = order[Len(order)]
  BY <1>1, <1>4, <1>5, EndFacts DEF Chain
<1>7. order' = RemoveAt(order, Len(order))
  BY <1>1, <1>5, RefFacts, FrontIsRemove
<1>8. /\ data' \in [Node -> Field]
      /\ \A x \in Node : x # order[Len(order)] => data'[x] = data[x]
  BY <1>1, <1>6, RefFacts DEF Field
<1>9. ret' = data[order[Len(order)]]
  BY <1>1, <1>6
<1>10. Sequence!RemoveIndex(Len(order) - 1)
  BY <1>1, <1>5, <1>7, <1>8, <1>9, TakeOut
<1>11. Len(Content) = Len(order) /\ Content # <<>>
  BY <1>1, <1>5, RefFacts
<1> QED
  BY <1>10, <1>11 DEF Sequence!Pop

LEMMA RemoveEndRefines ==
  ASSUME RefInv, removeEnd
  PROVE  job.index + 1 \in -1 .. MaxIndex /\ Sequence!RemoveIndex(job.index + 1)
<1>1. /\ Arrived("remove") /\ ret' = data[next[current]] /\ ListInv
      /\ data' = [data EXCEPT ![next[current]] = NoValue]
      /\ order' = RemoveAt(order, job.index + 2)
  BY DEF removeEnd, RefInv
<1>2. 0 <= job.index /\ job.index <= _size - 3
  BY <1>1 DEF ListInv, JobOK, Arrived
<1>3. "remove" \in Ops \ {"none"} /\ job.index \in 0 .. _size - 1
  BY <1>1, <1>2, EndFacts DEF Ops
<1>4. current = order[job.index + 1] /\ job.index + 1 \in 1 .. Len(order)
  BY <1>1, <1>3, ArrivedFacts
<1>5. /\ job.index + 1 < Len(order) /\ job.index + 1 + 1 = job.index + 2
      /\ job.index + 2 \in 1 .. Len(order)
  BY <1>1, <1>2, <1>4, EndFacts
<1>6. next[current] = order[job.index + 2]
  BY <1>1, <1>4, <1>5, EndFacts DEF Chain
<1>7. /\ data' \in [Node -> Field]
      /\ \A x \in Node : x # order[job.index + 2] => data'[x] = data[x]
  BY <1>1, <1>6, RefFacts DEF Field
<1>8. ret' = data[order[job.index + 2]]
  BY <1>1, <1>6
<1>9. Sequence!RemoveIndex(job.index + 1)
  <2>1. PICK k \in 1 .. Len(order) : k = job.index + 2
    BY <1>5
  <2>2. job.index + 1 \in Int /\ job.index + 1 + 1 = k
    BY <1>1, <1>5, <2>1, EndFacts
  <2> QED
    BY <1>1, <1>7, <1>8, <2>1, <2>2, TakeOut
<1>10. job.index + 1 \in -1 .. MaxIndex
  BY <1>1 DEF RefInv, JobArgs, Arrived
<1> QED
  BY <1>5, <1>9, <1>10

-----------------------------------------------------------------------------
(* The theorem *)

\* A step that changes neither the chain, nor a value, nor the answer.
LEMMA Stutter == UNCHANGED <<data, order, ret>> => UNCHANGED Sequence!vars
BY ContentIs DEF Sequence!vars

LEMMA InitRefines == Init => Sequence!Init
<1> SUFFICES ASSUME Init PROVE Sequence!Init
  OBVIOUS
<1>1. ListInv /\ Len(order) = 0
  BY InitListInv DEF Init
<1>2. Content = <<>>
  BY <1>1, RefFacts, EmptySeq
<1> QED
  BY <1>2 DEF Init, Sequence!Init

LEMMA StepRefines == RefInv /\ [Next]_vars => [Sequence!Next]_Sequence!vars
<1> SUFFICES ASSUME RefInv, [Next]_vars PROVE Sequence!Next \/ UNCHANGED Sequence!vars
  OBVIOUS
<1> USE MaxIndexAssumption DEF heap, Sequence!Next
<1>1. ListInv /\ _size = Len(Content) /\ _size \in Nat
  BY RefFacts DEF RefInv
<1>2. ASSUME NEW v \in Value, add(v) PROVE Sequence!Next
  BY <1>1, <1>2, AddRefines
<1>3. ASSUME NEW v \in Value, unshift(v) PROVE Sequence!Next
  BY <1>1, <1>3, UnshiftRefines
<1>4. ASSUME pop PROVE Sequence!Pop \/ UNCHANGED Sequence!vars
  <2>1. CASE _size = 0
    <3>1. Content = <<>>
      BY <1>1, <2>1, RefFacts, EmptySeq
    <3>2. UNCHANGED <<data, order>> /\ ret' = NoValue
      BY <1>4, <2>1 DEF pop
    <3>3. Content' = Content
      BY <1>1, <3>2, RefFacts, ContentIs
    <3> QED
      BY <3>1, <3>2, <3>3 DEF Sequence!Pop
  <2>2. CASE _size = 1 /\ popOnly
    <3>1. Sequence!RemoveIndex(0) /\ Len(Content) - 1 = 0
      BY <1>1, <2>2, PopOnlyRefines
    <3>2. Content # <<>>
      BY <3>1
    <3> QED
      BY <3>1, <3>2 DEF Sequence!Pop
  <2>3. CASE UNCHANGED <<heap, ends, order, ret>>
    BY <2>3, Stutter
  <2> QED
    BY <1>4, <2>1, <2>2, <2>3 DEF pop
<1>5. ASSUME NEW i \in -1 .. MaxIndex, remove(i)
      PROVE  Sequence!Next \/ UNCHANGED Sequence!vars
  <2>1. CASE /\ i < 0 \/ i >= _size
             /\ ret' = NoValue /\ UNCHANGED <<heap, order>>
    <3>1. Sequence!RemoveIndex(i)
      BY <1>1, <2>1, NoSuchRefines
    <3> QED
      BY <3>1
  <2>2. CASE i = 0 /\ shift
    <3>1. Sequence!RemoveIndex(i)
      BY <1>1, <2>2, ShiftRefines
    <3> QED
      BY <3>1
  <2>3. CASE pop
    BY <1>4, <2>3
  <2>4. CASE UNCHANGED <<data, order, ret>>
    BY <2>4, Stutter
  <2> QED
    BY <1>5, <2>1, <2>2, <2>3, <2>4 DEF remove
<1>6. ASSUME NEW i \in -1 .. MaxIndex, NEW v \in Value, set(i, v)
      PROVE  Sequence!Next \/ UNCHANGED Sequence!vars
  <2>1. CASE (i < 0 \/ i >= _size) /\ ret' = FALSE /\ UNCHANGED <<data, order>>
    <3>1. i \notin 0 .. Len(Content) - 1 /\ Content' = Content
      BY <1>1, <2>1, ContentIs
    <3>2. Sequence!Set(i, v)
      BY <2>1, <3>1 DEF Sequence!Set
    <3> QED
      BY <3>2
  <2>2. CASE UNCHANGED <<data, order, ret>>
    BY <2>2, Stutter
  <2> QED
    BY <1>6, <2>1, <2>2 DEF set
<1>7. ASSUME NEW i \in 0 .. MaxIndex, NEW v \in Value, addAt(i, v)
      PROVE  Sequence!Next \/ UNCHANGED Sequence!vars
  BY <1>2, <1>3, <1>7, Stutter DEF addAt
<1>8. CASE shift \/ clear
  <2>1. CASE shift
    BY <1>1, <2>1, ShiftRefines DEF Sequence!Shift
  <2>2. CASE clear
    BY <1>1, <2>2, ClearRefines
  <2> QED
    BY <1>8, <2>1, <2>2
<1>9. CASE insertEnd \/ setEnd \/ getEnd \/ popEnd \/ removeEnd
  BY <1>9, InsertEndRefines, SetEndRefines, GetEndRefines, PopEndRefines, RemoveEndRefines
<1>10. CASE WalkStep \/ UNCHANGED vars \/ \E i \in -1 .. MaxIndex : get(i)
  <2>1. UNCHANGED <<data, order, ret>>
    BY <1>10 DEF WalkStep, vars, get
  <2> QED
    BY <2>1, Stutter
<1> QED
  BY <1>2, <1>3, <1>4, <1>5, <1>6, <1>7, <1>8, <1>9, <1>10 DEF Next

\* Whatever calls are made, and wherever the cache points, the list does what
\* ListSpec says of a sequence.
THEOREM RefinementTheorem == Spec => ImplementsList
<1>1. Init => JobArgs
  BY DEF Init, JobArgs, NoJob
<1>2. RefInv /\ [Next]_vars => RefInv'
  BY NextListInv, ArgsStep DEF RefInv
<1>3. Init => RefInv
  BY <1>1, InitListInv DEF RefInv
<1>4. Spec => []RefInv
  BY <1>2, <1>3, PTL DEF Spec
<1> QED
  BY <1>4, InitRefines, StepRefines, PTL DEF Spec, ImplementsList, Sequence!Spec
=============================================================================
