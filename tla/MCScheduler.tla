----------------------------- MODULE MCScheduler -----------------------------
(* Instances of Scheduler for TLC.  The tasks are not declared symmetric: a   *)
(* liveness property is checked together with the safety properties.          *)
EXTENDS Scheduler
==============================================================================
