----------------------------- MODULE MCScheduler -----------------------------
(* Instances of Scheduler for TLC.  The .cfg files choose a few pages, a   *)
(* small submission queue and trace ring, a counter width that a batch     *)
(* exceeds, the jobs that run and what the device may do.                  *)
EXTENDS Scheduler
=============================================================================
