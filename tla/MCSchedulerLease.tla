-------------------------- MODULE MCSchedulerLease --------------------------
(* The instance of SchedulerLease for TLC.                                 *)
EXTENDS SchedulerLease

=============================================================================
