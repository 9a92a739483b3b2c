----------------------------- MODULE MCTimeout ------------------------------
(***************************************************************************)
(* Timeout with one timeout more than there are slots and a tick task of   *)
(* another driver.                                                         *)
(***************************************************************************)
EXTENDS Timeout, TLC

CONSTANTS a, b, c, d, u
Symmetric == Permutations(Timeouts)
=============================================================================
