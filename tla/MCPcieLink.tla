----------------------------- MODULE MCPcieLink -----------------------------
(***************************************************************************)
(* The root complex for TLC: the four INTx lines, so that some can be      *)
(* asserted while others are served.                                       *)
(***************************************************************************)
EXTENDS PcieLink, TLC
=============================================================================
