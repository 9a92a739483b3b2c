------------------------------ MODULE MCBtLink ------------------------------
(***************************************************************************)
(* BtLink with two devices, a short name and one that begins with "reset", *)
(* and with a single device whose name is longer than "reset".             *)
(***************************************************************************)
EXTENDS BtLink

TwoNames == {"buds", "reset-radio"}
TwoLong == {"reset-radio"}
OneName == {"soundbar"}
NoNames == {}
=============================================================================
