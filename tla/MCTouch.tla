------------------------------- MODULE MCTouch ------------------------------
(***************************************************************************)
(* The touch bring-up for TLC: fewer tries, probes and cycles, and one     *)
(* more caller of the PMIC on a register of its own.                       *)
(***************************************************************************)
EXTENDS TouchBringup, TLC
=============================================================================
