----------------------------- MODULE MCG3dClock -----------------------------
(***************************************************************************)
(* The GPU for TLC: the lowest and the highest step, three codes for the   *)
(* rail (sboot's, and one for each step), and the two threads that write   *)
(* it: the holder of g3d_lock and the probe.                               *)
(***************************************************************************)
EXTENDS G3dClock, TLC

MCVolt == [f \in Steps |-> f]
=============================================================================
