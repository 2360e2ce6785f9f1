---------------------------- MODULE MCCpuPolicy -----------------------------
(***************************************************************************)
(* A cluster for TLC with one frequency for each cap: 1 the idle floor, 2  *)
(* the cap when hot, 3 the cap with a busy core and safe_max, 4 the top.   *)
(***************************************************************************)
EXTENDS CpuPolicy, TLC

MCUpAt == 0 :> 0 @@ 1 :> 20
MCMaxKhz == 0 :> 4 @@ 1 :> 2
MCBigCap == 0 :> 4 @@ 1 :> 3
=============================================================================
