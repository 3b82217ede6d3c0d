----------------------------- MODULE LinkedList -----------------------------
(***************************************************************************)
(* The list of LinkedList/LinkedList.h: nodes on the heap, a pointer to    *)
(* each end, and a cache of the node that getNode() found last.  getNode() *)
(* is a loop, one action per turn; a call that needs it starts the walk    *)
(* and is finished, with all its stores, by the action that ends it.       *)
(***************************************************************************)
EXTENDS Integers, Sequences, SequencesExt, FiniteSets

CONSTANTS Value, NoValue,
          Node,      \* bound: the heap
          NULL,
          MaxIndex   \* bound: the largest index a caller uses

ASSUME NullAssumption == NULL \notin Node
ASSUME ValueAssumption == NoValue \notin Value /\ BOOLEAN \cap Value = {}
ASSUME MaxIndexAssumption == MaxIndex \in Nat

VARIABLES
  data, next,  \* the fields of every node
  root, last, _size,
  lastNodeGot, lastIndexGot, isCached,
  job,         \* the call that is walking, with its arguments, or NoJob
  _pos, current, \* the locals of getNode()
  order,       \* the allocated nodes from root on, which the code never sees
  ret          \* what the last call returned

heap  == <<data, next>>
ends  == <<root, last, _size>>
cache == <<lastNodeGot, lastIndexGot, isCached>>
walk  == <<job, _pos, current>>
vars  == <<heap, ends, cache, walk, order, ret>>

NoJob == [op |-> "none", index |-> 0, arg |-> NoValue]

Ops == {"none", "insert", "set", "get", "pop", "remove"}

TypeOK ==
  /\ data \in [Node -> Value \cup {NoValue}] /\ next \in [Node -> Node \cup {NULL}]
  /\ root \in Node \cup {NULL} /\ last \in Node \cup {NULL} /\ _size \in Nat
  /\ lastNodeGot \in Node \cup {NULL} /\ lastIndexGot \in Nat /\ isCached \in BOOLEAN
  /\ job \in [op : Ops, index : Int, arg : Value \cup {NoValue}]
  /\ _pos \in Nat /\ current \in Node \cup {NULL}
  /\ order \in Seq(Node)
  /\ ret \in Value \cup {NoValue} \cup BOOLEAN

Init ==
  /\ data = [n \in Node |-> NoValue] /\ next = [n \in Node |-> NULL]
  /\ root = NULL /\ last = NULL /\ _size = 0
  /\ lastNodeGot = NULL /\ lastIndexGot = 0 /\ isCached = FALSE
  /\ job = NoJob /\ _pos = 0 /\ current = NULL
  /\ order = <<>> /\ ret = NoValue

Free == Node \ Range(order)
Idle == job = NoJob

\* delete: what a freed node holds is of no interest to the list.
Without(fields, ns, blank) == [n \in Node |-> IF n \in ns THEN blank ELSE fields[n]]
Delete(ns) == data' = Without(data, ns, NoValue) /\ next' = Without(next, ns, NULL)

-----------------------------------------------------------------------------
(* getNode() *)

\* Mutant: the walk starts at the cached node even when that is too far on.
StartWalkAnywhere(op, index, arg, cached) ==
  /\ job' = [op |-> op, index |-> index, arg |-> arg]
  /\ IF cached THEN _pos' = lastIndexGot /\ current' = lastNodeGot
               ELSE _pos' = 0 /\ current' = root

\* The walk starts at the cached node unless that lies behind the index.
StartWalk(op, index, arg, cached) ==
  /\ job' = [op |-> op, index |-> index, arg |-> arg]
  /\ IF cached /\ lastIndexGot <= index
     THEN _pos' = lastIndexGot /\ current' = lastNodeGot
     ELSE _pos' = 0 /\ current' = root

WalkStep ==
  /\ ~Idle /\ _pos < job.index /\ current # NULL
  /\ current' = next[current] /\ _pos' = _pos + 1
  /\ UNCHANGED <<heap, ends, cache, job, order, ret>>

\* The loop is over.
Arrived(op) == job.op = op /\ ~(_pos < job.index /\ current # NULL)

EndWalk == job' = NoJob /\ _pos' = 0 /\ current' = NULL

\* The result is current when the walk ended at the index, NULL otherwise.
Found == _pos = job.index

\* A found node is cached; the caller that changes the list drops it again.
GotNode(cached) ==
  lastNodeGot' = current /\ lastIndexGot' = job.index /\ isCached' = cached

-----------------------------------------------------------------------------
(* The calls that change the ends *)

\* isCached = false
Uncache == isCached' = FALSE /\ UNCHANGED <<lastNodeGot, lastIndexGot>>

add(v) ==
  /\ Idle
  /\ \E n \in Free :
       /\ data' = [data EXCEPT ![n] = v]
       /\ next' = IF root # NULL THEN [next EXCEPT ![n] = NULL, ![last] = n]
                                 ELSE [next EXCEPT ![n] = NULL]
       /\ root' = IF root # NULL THEN root ELSE n
       /\ last' = n
       /\ order' = Append(order, n)
  /\ _size' = _size + 1
  /\ Uncache /\ ret' = TRUE
  /\ UNCHANGED walk

unshift(v) ==
  IF _size = 0 THEN add(v)
  ELSE /\ Idle
       /\ \E n \in Free :
            /\ data' = [data EXCEPT ![n] = v] /\ next' = [next EXCEPT ![n] = root]
            /\ root' = n
            /\ order' = <<n>> \o order
       /\ _size' = _size + 1
       /\ Uncache /\ ret' = TRUE
       /\ UNCHANGED <<last, walk>>

\* pop() of the only element
popOnly ==
  /\ ret' = data[root]
  /\ root' = NULL /\ last' = NULL /\ _size' = 0
  /\ order' = <<>>
  /\ Delete({root})
  /\ Uncache
  /\ UNCHANGED walk

pop ==
  /\ Idle
  /\ \/ _size = 0 /\ ret' = NoValue /\ UNCHANGED <<heap, ends, cache, walk, order>>
     \/ _size = 1 /\ popOnly
     \/ /\ _size > 1
        /\ StartWalk("pop", _size - 2, NoValue, FALSE)
        /\ Uncache
        /\ UNCHANGED <<heap, ends, order, ret>>

\* Mutant: the cache is not dropped.
shiftKeepsCache ==
  /\ Idle
  /\ \/ _size = 0 /\ ret' = NoValue /\ UNCHANGED <<heap, ends, cache, walk, order>>
     \/ _size = 1 /\ popOnly
     \/ /\ _size > 1
        /\ ret' = data[root]
        /\ root' = next[root]
        /\ order' = Tail(order)
        /\ _size' = _size - 1
        /\ Delete({root})
        /\ UNCHANGED <<last, walk, cache>>

shift ==
  /\ Idle
  /\ \/ _size = 0 /\ ret' = NoValue /\ UNCHANGED <<heap, ends, cache, walk, order>>
     \/ _size = 1 /\ popOnly
     \/ /\ _size > 1
        /\ ret' = data[root]
        /\ root' = next[root]
        /\ order' = Tail(order)
        /\ _size' = _size - 1
        /\ Delete({root})
        /\ Uncache
        /\ UNCHANGED <<last, walk>>

\* clear() shifts until nothing is left.
clear ==
  /\ Idle
  /\ root' = NULL /\ last' = NULL /\ _size' = 0 /\ order' = <<>>
  /\ Delete(Range(order))
  /\ IF _size > 0 THEN Uncache ELSE UNCHANGED cache
  /\ UNCHANGED <<walk, ret>>

-----------------------------------------------------------------------------
(* The calls that walk, and their ends *)

addAt(i, v) ==
  \/ i >= _size /\ add(v)
  \/ i < _size /\ i = 0 /\ unshift(v)
  \/ /\ Idle /\ i < _size /\ i > 0 /\ Free # {}
     /\ StartWalk("insert", i - 1, v, isCached)
     /\ UNCHANGED <<heap, ends, cache, order, ret>>

insertEnd ==
  /\ Arrived("insert")
  /\ \E n \in Free :
       /\ data' = [data EXCEPT ![n] = job.arg]
       /\ next' = [next EXCEPT ![n] = next[current], ![current] = n]
       /\ order' = InsertAt(order, job.index + 2, n)
  /\ _size' = _size + 1
  /\ GotNode(FALSE) /\ ret' = TRUE
  /\ EndWalk
  /\ UNCHANGED <<root, last>>

set(i, v) ==
  /\ Idle
  /\ \/ (i < 0 \/ i >= _size) /\ ret' = FALSE /\ UNCHANGED <<heap, ends, cache, walk, order>>
     \/ /\ 0 <= i /\ i < _size
        /\ StartWalk("set", i, v, isCached)
        /\ UNCHANGED <<heap, ends, cache, order, ret>>

setEnd ==
  /\ Arrived("set")
  /\ data' = [data EXCEPT ![current] = job.arg]
  /\ GotNode(TRUE) /\ ret' = TRUE
  /\ EndWalk
  /\ UNCHANGED <<next, ends, order>>

get(i) ==
  /\ Idle
  /\ StartWalk("get", i, NoValue, isCached)
  /\ UNCHANGED <<heap, ends, cache, order, ret>>

getEnd ==
  /\ Arrived("get")
  /\ ret' = IF Found /\ current # NULL THEN data[current] ELSE NoValue
  /\ IF Found THEN GotNode(TRUE) ELSE UNCHANGED cache
  /\ EndWalk
  /\ UNCHANGED <<heap, ends, order>>

\* getNode() fills the cache again after pop() has dropped it.
popEnd ==
  /\ Arrived("pop")
  /\ ret' = data[next[current]]
  /\ data' = [data EXCEPT ![next[current]] = NoValue]
  /\ next' = [next EXCEPT ![next[current]] = NULL, ![current] = NULL]
  /\ last' = current /\ _size' = _size - 1
  /\ order' = Front(order)
  /\ GotNode(TRUE)
  /\ EndWalk
  /\ UNCHANGED root

remove(i) ==
  \/ /\ Idle /\ (i < 0 \/ i >= _size)
     /\ ret' = NoValue /\ UNCHANGED <<heap, ends, cache, walk, order>>
  \/ i < _size /\ i = 0 /\ shift
  \/ i < _size /\ i > 0 /\ i = _size - 1 /\ pop
  \/ /\ Idle /\ i > 0 /\ i < _size - 1
     /\ StartWalk("remove", i - 1, NoValue, isCached)
     /\ UNCHANGED <<heap, ends, cache, order, ret>>

removeEnd ==
  /\ Arrived("remove")
  /\ LET toDelete == next[current]
     IN  /\ ret' = data[toDelete]
         /\ next' = [next EXCEPT ![current] = next[toDelete], ![toDelete] = NULL]
         /\ data' = [data EXCEPT ![toDelete] = NoValue]
  /\ order' = RemoveAt(order, job.index + 2)
  /\ _size' = _size - 1
  /\ GotNode(FALSE)
  /\ EndWalk
  /\ UNCHANGED <<root, last>>

Next ==
  \/ \E v \in Value : add(v) \/ unshift(v)
  \/ \E i \in -1 .. MaxIndex : remove(i) \/ get(i)
  \/ \E i \in -1 .. MaxIndex, v \in Value : set(i, v)
  \/ \E i \in 0 .. MaxIndex, v \in Value : addAt(i, v)
  \/ pop \/ shift \/ clear
  \/ WalkStep \/ insertEnd \/ setEnd \/ getEnd \/ popEnd \/ removeEnd

Spec == Init /\ [][Next]_vars

-----------------------------------------------------------------------------
(* Properties *)

At(i) == IF i \in 1 .. Len(order) THEN order[i] ELSE NULL

\* The pointers form the chain of the allocated nodes, each once, and the
\* ends and the count agree with it: nothing leaks and nothing dangles.
Linked ==
  /\ IsInjective(order)
  /\ _size = Len(order)
  /\ root = At(1) /\ last = At(Len(order))
  /\ \A i \in 1 .. Len(order) : next[order[i]] = At(i + 1)

\* The cached node is the one at the cached index, whatever was inserted,
\* removed or looked up in vain since; so is the node of a walk under way.
CacheOK ==
  /\ isCached => lastNodeGot = At(lastIndexGot + 1)
  /\ ~Idle => current = At(_pos + 1) /\ (_pos = 0 \/ _pos <= job.index)

\* The nodes, the pointers to them and the cache are right, between two calls
\* and in the walk of getNode().
Intact == TypeOK /\ Linked /\ CacheOK

Content == [i \in 1 .. Len(order) |-> data[order[i]]]

Sequence == INSTANCE ListSpec WITH list <- Content

\* Every call does to the sequence what ListSpec says of the method (for all
\* but set() the comments of the class say the same), with the cache at any
\* place it can be.
ImplementsList == Sequence!Spec
=============================================================================
