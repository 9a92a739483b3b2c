---------------------------- MODULE MCScheduler -----------------------------
(***************************************************************************)
(* Scheduler with the main thread and two more, a clock of eight ticks and *)
(* walks at most two ticks apart.                                          *)
(***************************************************************************)
EXTENDS Scheduler
=============================================================================
