------------------------------ MODULE CpuClock ------------------------------
(***************************************************************************)
(* s9p-cpufreq.c, s9p_target and s9p_set_step: each CPU cluster's PLL and  *)
(* the rail that feeds it, on top of a PMIC service that may fail and      *)
(* perform a command after its call has failed (PmicService).              *)
(*                                                                         *)
(* The rail of cluster c is the PMIC register c.  A frequency stands for a *)
(* step of the cluster's table, Need[c][f] for the voltage code of the     *)
(* step (vsel).  Other callers share the service on other registers.       *)
(***************************************************************************)
EXTENDS PmicService

CONSTANTS
    Clusters,   \* "little" and "big"
    Freqs,      \* the frequencies of their steps
    Need        \* the vsel of each step

ASSUME ClockAssumption ==
    /\ Clusters \subseteq Callers /\ Clusters \subseteq Regs
    /\ Freqs \subseteq Nat
    /\ Need \in [Clusters -> [Freqs -> Vals]]
    /\ \A c \in Clusters : \A f, g \in Freqs : f <= g => Need[c][f] <= Need[c][g]

VARIABLES
    pll,        \* the frequency each PLL is programmed to
    onPll,      \* the cluster runs from its PLL, not from the switch clock
    cur,        \* policy->cur, what cpufreq believes
    at, goal, up    \* of each s9p_target: where it is, its frequency and direction

clockVars == <<pll, onPll, cur, at, goal, up>>
vars == <<pmic, queue, stage, cmd, answer, pll, onPll, cur, at, goal, up>>

Places == {"idle", "want", "raise", "leave", "program", "back", "lower"}

\* Types, those of the service included: the command ring never overflows.
TypeOK ==
    /\ ServiceTypeOK
    /\ pll \in [Clusters -> Freqs] /\ cur \in [Clusters -> Freqs]
    /\ goal \in [Clusters -> Freqs]
    /\ onPll \in [Clusters -> BOOLEAN] /\ up \in [Clusters -> BOOLEAN]
    /\ at \in [Clusters -> Places]

\* The bootloader leaves each rail fit for the clock it leaves.
Init ==
    /\ ServiceInit
    /\ pll \in [Clusters -> Freqs]
    /\ \A c \in Clusters : pmic[c] >= Need[c][pll[c]]
    /\ cur = pll /\ goal = pll
    /\ onPll = [c \in Clusters |-> TRUE]
    /\ up = [c \in Clusters |-> FALSE]
    /\ at = [c \in Clusters |-> "idle"]

Goto(c, place) == at' = [at EXCEPT ![c] = place]
RailWrite(c) == [func |-> "write", reg |-> c, val |-> Need[c][goal[c]]]

\* s9p_target, up to s9p_set_step: a step other than the one in force.
Target(c, f) ==
    /\ at[c] = "idle"
    /\ ~(pll[c] = f /\ cur[c] = f)
    /\ goal' = [goal EXCEPT ![c] = f]
    /\ Goto(c, "want")
    /\ UNCHANGED <<svcVars, pll, onPll, cur, up>>

\* s9p_clk_lock is free: the direction is decided, and upwards the rail is
\* asked for first.
LockFree == \A d \in Clusters : at[d] \in {"idle", "want"}

StartUp(c) ==
    /\ at[c] = "want" /\ LockFree
    /\ pll[c] < goal[c]
    /\ Call(c, RailWrite(c))
    /\ up' = [up EXCEPT ![c] = TRUE]
    /\ Goto(c, "raise")
    /\ UNCHANGED <<pll, onPll, cur, goal>>

StartDown(c) ==
    /\ at[c] = "want" /\ LockFree
    /\ pll[c] >= goal[c]
    /\ up' = [up EXCEPT ![c] = FALSE]
    /\ Goto(c, "leave")
    /\ UNCHANGED <<svcVars, pll, onPll, cur, goal>>

Raised(c) ==
    /\ at[c] = "raise"
    /\ Succeed(c) /\ answer.rc = "ok"
    /\ Goto(c, "leave")
    /\ UNCHANGED <<pll, onPll, cur, goal, up>>

\* (mutant) The failure is reported, and the transition goes on.
RaiseFailedGoesOn(c) ==
    /\ at[c] = "raise"
    /\ Fail(c) \/ (Succeed(c) /\ answer.rc # "ok")
    /\ Goto(c, "leave")
    /\ UNCHANGED <<pll, onPll, cur, goal, up>>

\* The transition fails: the clock stays, and cpufreq keeps its old value.
RaiseFailed(c) ==
    /\ at[c] = "raise"
    /\ Fail(c) \/ (Succeed(c) /\ answer.rc # "ok")
    /\ Goto(c, "idle")
    /\ UNCHANGED <<pll, onPll, cur, goal, up>>

Leave(c) ==
    /\ at[c] = "leave"
    /\ onPll' = [onPll EXCEPT ![c] = FALSE]
    /\ Goto(c, "program")
    /\ UNCHANGED <<svcVars, pll, cur, goal, up>>

\* STABLE is waited for, and not insisted on.
Program(c) ==
    /\ at[c] = "program"
    /\ pll' = [pll EXCEPT ![c] = goal[c]]
    /\ Goto(c, "back")
    /\ UNCHANGED <<svcVars, onPll, cur, goal, up>>

\* Back on the PLL; an upward transition is over, a downward one lowers the rail.
Back(c) ==
    /\ at[c] = "back"
    /\ onPll' = [onPll EXCEPT ![c] = TRUE]
    /\ IF up[c]
         THEN /\ cur' = [cur EXCEPT ![c] = goal[c]]
              /\ Goto(c, "idle")
              /\ UNCHANGED svcVars
         ELSE /\ Call(c, RailWrite(c))
              /\ Goto(c, "lower")
              /\ UNCHANGED cur
    /\ UNCHANGED <<pll, goal, up>>

\* (mutant) The failure to lower the rail fails the whole transition.
LoweredOrFailed(c) ==
    /\ at[c] = "lower"
    /\ \/ Fail(c) /\ UNCHANGED cur
       \/ Succeed(c) /\ cur' = [cur EXCEPT ![c] = goal[c]]
    /\ Goto(c, "idle")
    /\ UNCHANGED <<pll, onPll, goal, up>>

\* A rail that could not be lowered is only reported: the clock did change.
Lowered(c) ==
    /\ at[c] = "lower"
    /\ Fail(c) \/ Succeed(c)
    /\ cur' = [cur EXCEPT ![c] = goal[c]]
    /\ Goto(c, "idle")
    /\ UNCHANGED <<pll, onPll, goal, up>>

\* The service at work, and its other callers.
ServiceStep ==
    /\ \/ Perform
       \/ \E c \in Callers : Submit(c) \/ GiveUp(c)
       \/ \E c \in Callers \ Clusters :
            \/ \E k \in Cmd : k.reg \notin Clusters /\ Call(c, k)
            \/ Succeed(c) \/ Fail(c)
    /\ UNCHANGED clockVars

SetStep(c) ==
    \/ StartUp(c) \/ StartDown(c) \/ Raised(c) \/ RaiseFailed(c)
    \/ Leave(c) \/ Program(c) \/ Back(c) \/ Lowered(c)

Next ==
    \/ ServiceStep
    \/ \E c \in Clusters : SetStep(c) \/ \E f \in Freqs : Target(c, f)

Spec == Init /\ [][Next]_vars

-----------------------------------------------------------------------------
\* The voltage on a cluster's rail is never below what its PLL's step needs.
RailCoversClock ==
    \A c \in Clusters : pmic[c] >= Need[c][pll[c]]

\* Between transitions cpufreq believes in the frequency the PLL runs at.
CurIsTheClock ==
    \A c \in Clusters : at[c] \in {"idle", "want"} => cur[c] = pll[c] /\ onPll[c]

\* What cpufreq sees of a cluster: its clock, and what it is being set to.
Step(c) == INSTANCE CpuStep WITH
    Table <- Freqs,
    clock <- cur[c],
    target <- IF at[c] = "idle" THEN cur[c] ELSE goal[c]

\* A step of the policy of cluster c, or none.
PolicyStep(c) == Step(c)!StepNext \/ UNCHANGED Step(c)!stepVars

\* Whatever becomes of the writes to the rail, every transition of a cluster
\* ends as s9p_target's callers rely on: the policy's clock is the one asked
\* for, or, only if that was higher, the old one.
StepImplemented ==
    /\ \A c \in Clusters : Step(c)!StepInit
    /\ [][\A c \in Clusters : PolicyStep(c)]_vars
=============================================================================
