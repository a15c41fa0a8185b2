------------------------------ MODULE MCNanosFS ------------------------------
(* Instances of NanosFS for TLC. *)
EXTENDS NanosFS, TLC

\* Paths and values are interchangeable.
DataSymmetry == Permutations(Names) \cup Permutations(Data)
==============================================================================
