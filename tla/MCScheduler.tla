---------------------------- MODULE MCScheduler ----------------------------
(***************************************************************************)
(* Scheduler for TLC: threads are interchangeable in the safety runs.      *)
(***************************************************************************)
EXTENDS Scheduler, TLC

Symmetry == Permutations(Threads)
=============================================================================
