------------------------------ MODULE MCUfsHost -----------------------------
(***************************************************************************)
(* The flash host for TLC: two slots, so that two requests can be queued   *)
(* at once, and two faults of the hardware.                                *)
(***************************************************************************)
EXTENDS UfsHost, TLC
=============================================================================
