----------------------------- MODULE MCMrswLock -----------------------------
(***************************************************************************)
(* MrswLock with three threads, each of which reads, nests and writes.     *)
(***************************************************************************)
EXTENDS MrswLock

CONSTANTS t1, t2, t3
=============================================================================
