---------------------------- MODULE MCSemaphore ----------------------------
(***************************************************************************)
(* Semaphore with three threads and a limit of two units.                  *)
(***************************************************************************)
EXTENDS Semaphore

CONSTANTS t1, t2, t3
ThreeThreads == {t1, t2, t3}
TwoThreads == {t1, t2}
=============================================================================
