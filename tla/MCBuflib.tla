------------------------------ MODULE MCBuflib ------------------------------
(***************************************************************************)
(* Buflib with a buffer of ten words.                                      *)
(***************************************************************************)
EXTENDS Buflib

OpsDef == {[move |-> "free", shrink |-> FALSE], [move |-> "asks", shrink |-> FALSE],
           [move |-> "never", shrink |-> FALSE], [move |-> "never", shrink |-> TRUE]}
=============================================================================
