----------------------------- MODULE MCThermal ------------------------------
(***************************************************************************)
(* The GPU's table for TLC (s9p_thermal_gpu), with readings on both sides  *)
(* of each threshold and of each threshold less the hysteresis.            *)
(***************************************************************************)
EXTENDS ThermalLevel, TLC

MCUpAt == 0 :> 0 @@ 1 :> 80 @@ 2 :> 90
MCReadings == {71, 73, 80, 84, 90}

\* The formula of s9p_tmu_filtered against the definition of a median.
ASSUME \A s \in [1 .. 3 -> MCReadings] :
    LET m == Median(s) IN
    /\ Cardinality({k \in 1 .. 3 : s[k] <= m}) >= 2
    /\ Cardinality({k \in 1 .. 3 : s[k] >= m}) >= 2
=============================================================================
