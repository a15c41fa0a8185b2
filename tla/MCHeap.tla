------------------------------- MODULE MCHeap -------------------------------
(* Instances of Heap for TLC. *)
EXTENDS Heap

\* With two buckets per level, 4 and 5 share a list, as 256 and 272 bytes do in
\* the heap with eight.
SmallRequests == {1, 3, 4, 5}
==============================================================================
