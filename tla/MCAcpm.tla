------------------------------- MODULE MCAcpm -------------------------------
(***************************************************************************)
(* The mailbox for TLC: two callers, one register with two values, and     *)
(* rings of three slots, so that a ring can be full with two entries.      *)
(***************************************************************************)
EXTENDS AcpmMailbox, TLC

\* The callers differ in nothing but their name.
Symmetry == Permutations(Callers)
=============================================================================
