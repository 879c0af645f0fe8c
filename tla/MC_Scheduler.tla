---------------------------- MODULE MC_Scheduler ----------------------------
(* Instances of Scheduler for TLC: the bounds are in the .cfg files.        *)
EXTENDS Scheduler
=============================================================================
