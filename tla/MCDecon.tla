------------------------------ MODULE MCDecon -------------------------------
(***************************************************************************)
(* The display for TLC: three buffers, as many as the compositor rotates.  *)
(***************************************************************************)
EXTENDS DeconFlip, TLC
=============================================================================
