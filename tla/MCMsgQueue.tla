------------------------------ MODULE MCMsgQueue ------------------------------
(* Instances of MsgQueue for TLC. *)
EXTENDS MsgQueue, TLC

\* Tasks and messages are interchangeable.
QueueSymmetry == Permutations(Tasks) \cup Permutations(Messages)
==============================================================================
