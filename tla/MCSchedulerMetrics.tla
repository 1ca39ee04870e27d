------------------------- MODULE MCSchedulerMetrics -------------------------
(***************************************************************************)
(* Small instances of SchedulerMetrics for TLC.                            *)
(***************************************************************************)
EXTENDS MCScheduler, SchedulerMetrics

=============================================================================
