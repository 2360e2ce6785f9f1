---------------------------- MODULE TouchBringup ----------------------------
(***************************************************************************)
(* s9p-acpm.c, s9p_touch_work: the touch controller's two LDOs are turned  *)
(* off and on again and its driver probed anew, over a PMIC service that   *)
(* may fail and perform a command after its call has failed (PmicService). *)
(*                                                                         *)
(* An LDO is the register of its name, 1 for LDO_ON_MODE and 0 for off.    *)
(* The controller answers only after both were off at once; the driver's   *)
(* only probes are those made here.                                        *)
(***************************************************************************)
EXTENDS PmicService

CONSTANTS
    Touch,          \* the work, a caller of the service
    L35, L43,       \* S2MPS18_L35CTRL and S2MPS18_L43CTRL
    ApmTries,       \* TOUCH_APM_TRIES
    MaxProbes,      \* TOUCH_PROBES_PER_CYCLE
    MaxCycles       \* TOUCH_MAX_CYCLES

Ldos == {L35, L43}

ASSUME TouchAssumption ==
    /\ Touch \in Callers
    /\ Ldos \subseteq Regs /\ L35 # L43
    /\ {0, 1} \subseteq Vals
    /\ {ApmTries, MaxProbes, MaxCycles} \subseteq Nat \ {0}

VARIABLES
    at,         \* where the work is; "check" when it is scheduled
    step,       \* which call of a power cycle is made
    apm_tries, cycles, probes,
    ctl,        \* the controller: "dead", "cut" (a rail is off), "off" (both),
                \* "booting", or "alive"
    bound       \* its driver is bound

counts == <<apm_tries, cycles, probes>>
vars == <<pmic, queue, stage, cmd, answer, at, step, apm_tries, cycles,
          probes, ctl, bound>>

TypeOK ==
    /\ ServiceTypeOK
    /\ at \in {"check", "cycle", "read", "done"} /\ step \in 1 .. 4
    /\ apm_tries \in 0 .. ApmTries
    /\ cycles \in 0 .. MaxCycles /\ probes \in 0 .. MaxProbes
    /\ ctl \in {"dead", "cut", "off", "booting", "alive"}
    /\ bound \in BOOLEAN

On(regs) == \A r \in Ldos : regs[r] = 1
Off(regs) == \A r \in Ldos : regs[r] = 0

\* The rails are on; the controller may be dead since the handover.
Init ==
    /\ ServiceInit
    /\ On(pmic)
    /\ at = "check" /\ step = 1
    /\ apm_tries = 0 /\ cycles = 0 /\ probes = 0
    /\ ctl \in {"dead", "alive"}
    /\ bound = (ctl = "alive")

Set(r, v) == [func |-> "write", reg |-> r, val |-> v]
Ok == Succeed(Touch) /\ answer.rc = "ok"
Failed == Fail(Touch) \/ (Succeed(Touch) /\ answer.rc # "ok")

\* s9p_touch_ldo_power_cycle: both rails off, and two seconds later on.
Cycle == <<Set(L35, 0), Set(L43, 0), Set(L35, 1), Set(L43, 1)>>

-----------------------------------------------------------------------------
\* s9p_touch_work: a driver that is bound is left alone.
AlreadyBound ==
    /\ at = "check" /\ bound
    /\ at' = "done"
    /\ UNCHANGED <<svcVars, step, counts, ctl, bound>>

\* (mutant) One power cycle is enough.
CycleDueOnce == cycles = 0

\* A power cycle comes first, and again after MaxProbes probes in vain.
CycleDue == cycles = 0 \/ probes >= MaxProbes

GiveUpCycling ==
    /\ at = "check" /\ ~bound /\ CycleDue
    /\ cycles >= MaxCycles
    /\ at' = "done"
    /\ UNCHANGED <<svcVars, step, counts, ctl, bound>>

CycleStart ==
    /\ at = "check" /\ ~bound /\ CycleDue
    /\ cycles < MaxCycles
    /\ at' = "cycle" /\ step' = 1
    /\ UNCHANGED <<svcVars, counts, ctl, bound>>

CycleCall ==
    /\ at = "cycle"
    /\ Call(Touch, Cycle[step])
    /\ UNCHANGED <<at, step, counts, ctl, bound>>

\* A call was answered: the next one, or the cycle is over.
CycleGoesOn ==
    /\ at = "cycle" /\ step < 4 /\ Ok
    /\ step' = step + 1
    /\ UNCHANGED <<at, counts, ctl, bound>>

CycleDone ==
    /\ at = "cycle" /\ step = 4 /\ Ok
    /\ cycles' = cycles + 1 /\ probes' = 0
    /\ at' = "read"
    /\ UNCHANGED <<step, apm_tries, ctl, bound>>

\* (mutant) A failed cycle counts as a cycle.
CycleFailsCounted ==
    /\ at = "cycle" /\ Failed
    /\ apm_tries' = apm_tries + 1
    /\ cycles' = cycles + 1 /\ probes' = 0
    /\ at' = IF apm_tries' >= ApmTries THEN "done" ELSE "check"
    /\ UNCHANGED <<step, ctl, bound>>

\* (mutant) Every failure is tried again.
CycleFailsForEver ==
    /\ at = "cycle" /\ Failed
    /\ at' = "check"
    /\ UNCHANGED <<step, counts, ctl, bound>>

\* One failed: the cycle is left as it is, and begun anew in a second, unless
\* too many have failed since boot.
CycleFails ==
    /\ at = "cycle" /\ Failed
    /\ apm_tries' = apm_tries + 1
    /\ at' = IF apm_tries' >= ApmTries THEN "done" ELSE "check"
    /\ UNCHANGED <<step, cycles, probes, ctl, bound>>

\* L35 is read back for the log, whether that works or not.
ReadCall ==
    /\ at = "read"
    /\ Call(Touch, [func |-> "read", reg |-> L35, val |-> 0])
    /\ UNCHANGED <<at, step, counts, ctl, bound>>

ReadOver ==
    /\ at = "read"
    /\ Succeed(Touch) \/ Fail(Touch)
    /\ at' = "check"
    /\ UNCHANGED <<step, counts, ctl, bound>>

\* The device is probed again; with a controller that answers it may bind.
Reprobe ==
    /\ at = "check" /\ ~bound /\ ~CycleDue
    /\ probes' = probes + 1
    /\ bound' \in (IF ctl = "alive" THEN BOOLEAN ELSE {FALSE})
    /\ UNCHANGED <<svcVars, at, step, apm_tries, cycles, ctl>>

-----------------------------------------------------------------------------
\* What the rails do to the controller.
Powered(regs) ==
    CASE Off(regs) -> "off"
      [] On(regs) -> IF ctl = "off" THEN "booting"
                     ELSE IF ctl = "cut" THEN "dead" ELSE ctl
      [] OTHER -> IF ctl = "off" THEN "off" ELSE "cut"

\* The PMIC performs a command, the work's or another caller's.
Performed ==
    /\ Perform
    /\ ctl' = Powered(pmic')
    /\ UNCHANGED <<at, step, counts, bound>>

Boots ==
    /\ ctl = "booting"
    /\ ctl' = "alive"
    /\ UNCHANGED <<svcVars, at, step, counts, bound>>

\* The service's own steps, and its other callers.
ServiceStep ==
    /\ \/ \E c \in Callers : Submit(c) \/ GiveUp(c)
       \/ \E c \in Callers \ {Touch} :
            \/ \E k \in Cmd : k.reg \notin Ldos /\ Call(c, k)
            \/ Succeed(c) \/ Fail(c)
    /\ UNCHANGED <<at, step, counts, ctl, bound>>

Work ==
    \/ AlreadyBound \/ GiveUpCycling \/ CycleStart \/ CycleCall \/ CycleGoesOn
    \/ CycleDone \/ CycleFails \/ ReadCall \/ ReadOver \/ Reprobe

Next == Work \/ Performed \/ Boots \/ ServiceStep

Spec == Init /\ [][Next]_vars

\* The work is scheduled, and XFER_RETRIES bounds each of its calls.
FairSpec ==
    /\ Spec
    /\ WF_vars(AlreadyBound \/ GiveUpCycling \/ CycleStart \/ CycleCall)
    /\ WF_vars(ReadCall \/ Reprobe)
    /\ WF_vars(GiveUp(Touch) /\ UNCHANGED <<at, step, counts, ctl, bound>>)
    /\ SF_vars(CycleGoesOn \/ CycleDone \/ CycleFails) /\ SF_vars(ReadOver)

-----------------------------------------------------------------------------
\* A driver that is bound keeps its rails, and nothing that timed out turns
\* them off behind it ("a driver that is already bound is the proof the rails
\* are fine"); and unless the work gave up on the APM it leaves them on.
TouchPowered ==
    /\ bound => On(pmic) /\ ctl = "alive"
    /\ at = "done" /\ apm_tries < ApmTries => On(pmic)

\* The work ends, with the controller bound or given up on.
WorkEnds == <>(at = "done")
=============================================================================
