-------------------------- MODULE MCBackgroundJobs --------------------------
(* Instances of BackgroundJobs for TLC: the .cfg files choose the bounds. *)
EXTENDS BackgroundJobs
=============================================================================
