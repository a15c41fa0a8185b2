------------------------------- MODULE MCKMutex ------------------------------
(* Instances of KMutex for TLC. *)
EXTENDS KMutex, TLC

\* The application tasks are interchangeable.
TaskSymmetry == Permutations(Tasks)
==============================================================================
