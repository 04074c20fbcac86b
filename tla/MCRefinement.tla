---------------------------- MODULE MCRefinement ----------------------------
(* The instance of SchedulerRefinement that TLC checks. *)
EXTENDS MCScheduler, SchedulerRefinement
=============================================================================
