---------------------------- MODULE MCLinkedList ----------------------------
(***************************************************************************)
(* LinkedList on a small heap.  No property tells one node from another,   *)
(* and every action takes any free node, so nodes may be permuted.         *)
(***************************************************************************)
EXTENDS LinkedList, TLC

Nodes == Permutations(Node)
=============================================================================
