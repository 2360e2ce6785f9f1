----------------------------- MODULE MCCpuClock -----------------------------
(***************************************************************************)
(* Both clusters for TLC, each with a lower and a higher step, and one     *)
(* more caller, the GPU, that uses the PMIC at the same time.              *)
(***************************************************************************)
EXTENDS CpuClock, TLC

\* The vsel codes of a table are ranked: the higher step needs the higher code.
MCNeed == [c \in Clusters |-> [f \in Freqs |-> f]]
=============================================================================
