------------------------------ MODULE MCMutex ------------------------------
(***************************************************************************)
(* Mutex with four threads that lock it up to twice.                      *)
(***************************************************************************)
EXTENDS Mutex

CONSTANTS t1, t2, t3, t4
FourThreads == {t1, t2, t3, t4}
=============================================================================
