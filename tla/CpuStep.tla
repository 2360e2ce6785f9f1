------------------------------- MODULE CpuStep -------------------------------
(***************************************************************************)
(* s9p-cpufreq.c, what s9p_target promises the cpufreq core of one         *)
(* cluster: a transition is to a frequency of the table other than the     *)
(* clock, one at a time, and ends with the clock at that frequency, or,    *)
(* on the way up only, where it was.                                       *)
(***************************************************************************)
EXTENDS Integers

CONSTANT Table      \* the frequencies of the cluster's steps

VARIABLES
    clock,          \* policy->cur
    target          \* the frequency being set; the clock when none is

stepVars == <<clock, target>>

StepInit == clock \in Table /\ target = clock

\* No transition runs: cpufreq holds its lock over one.
Unlocked == target = clock

\* s9p_target begins.
Aim(f) ==
    /\ Unlocked
    /\ f \in Table /\ f # clock
    /\ target' = f
    /\ UNCHANGED clock

\* s9p_set_step has done it.
StepSet ==
    /\ ~Unlocked
    /\ clock' = target
    /\ UNCHANGED target

\* s9p_set_step could not raise the rail.
StepFailed ==
    /\ ~Unlocked /\ clock < target
    /\ target' = clock
    /\ UNCHANGED clock

StepNext == (\E f \in Table : Aim(f)) \/ StepSet \/ StepFailed

StepSpec == StepInit /\ [][StepNext]_stepVars
=============================================================================
