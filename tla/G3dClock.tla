------------------------------ MODULE G3dClock ------------------------------
(***************************************************************************)
(* s9p-g3d.c and s9p-g3d-pd.c: the GPU's PLL, its rail (BUCK6) and its     *)
(* power domain, on top of the PMIC service.                               *)
(*                                                                         *)
(* Everything but the rail's way up in the probe happens under g3d_lock,   *)
(* so there is one pc, `at', for whoever holds it (`who').  PLL_CON0 is    *)
(* its PMS field, as the table's step or Other, its MUX_SEL bit, and what  *)
(* the mux really passes on: a switch that times out may or may not have   *)
(* happened.  A rate is a step, Osc the 26 MHz of a lost PLL.              *)
(***************************************************************************)
EXTENDS PmicService

CONSTANTS
    Steps,      \* the rates of s9p_g3d_steps
    Volt,       \* the vsel of each
    Polls, Attempts,    \* G3D_RAIL_POLLS, G3D_RAIL_ATTEMPTS
    LateEnable  \* step_volt may be switched on while the driver runs

Buck6 == "buck6"
Lowest == CHOOSE f \in Steps : \A g \in Steps : f <= g
Top == CHOOSE f \in Steps : \A g \in Steps : g <= f
Osc == 0
Other == 0      \* a PMS of about 260 MHz that no table entry has

ASSUME G3dAssumption ==
    /\ {"gpu", "probe"} \subseteq Callers /\ Buck6 \in Regs
    /\ Steps \subseteq Nat \ {0} /\ Lowest \in Steps /\ Top \in Steps
    /\ \A f \in Steps : Lowest <= f /\ f <= Top
    /\ Volt \in [Steps -> Vals \ {0}]
    /\ \A f, g \in Steps : f <= g => Volt[f] <= Volt[g]
    /\ Polls \in Nat \ {0} /\ Attempts \in Nat \ {0}
    /\ LateEnable \in BOOLEAN

VARIABLES
    pms, sel, src,          \* the PLL: setting, MUX_SEL, what the GPU runs from
    cur, step_volt, rail_set, powered,  \* the driver's g3d_ variables
    req, thermal, max,      \* its three requests
    at, who, st, old, up,   \* the lock holder: place, kind, and its locals
    err,                    \* the last attempt at the wanted rate failed
    lost,                   \* a rollback of the PLL failed once
    probe, poll, attempts,  \* s9p_g3d_probe; probe = "done": clock published
    mapped,                 \* the registers behind g3d_con0 are mapped
    hw, prot, genpd, always_on, initialized, asked  \* the power domain

pllVars == <<pms, sel, src>>
reqVars == <<req, thermal, max>>
locals == <<st, old, up>>
probeVars == <<probe, poll, attempts, mapped>>
pdVars == <<hw, prot, genpd, always_on, initialized, asked>>
vars == <<svcVars, pllVars, cur, step_volt, rail_set, powered, reqVars,
          at, who, locals, err, lost, probeVars, pdVars>>

Places == {"free", "apply", "raise", "away", "program", "back", "lower", "undo",
           "relock", "reselect", "toggle", "readback", "energize", "cut", "restore", "oops"}

\* "unmap": the probe fails, but its registers are still mapped.
ProbePlaces == {"start", "write", "retry", "apply", "publish", "done", "unmap",
                "failed"}

\* Types, those of the PMIC service included.
TypeOK ==
    /\ ServiceTypeOK
    /\ pms \in Steps \union {Other} /\ sel \in BOOLEAN /\ src \in {"pll", "osc"}
    /\ cur \in Steps \union {Osc}
    /\ step_volt \in BOOLEAN /\ rail_set \in BOOLEAN /\ powered \in BOOLEAN
    /\ req \in Steps /\ thermal \in Steps /\ max \in Steps
    /\ at \in Places /\ who \in {"none", "other", "probe", "on", "off"}
    /\ st \in Steps /\ up \in BOOLEAN
    /\ old \in [pms : Steps \union {Other}, sel : BOOLEAN]
    /\ err \in BOOLEAN /\ lost \in BOOLEAN
    /\ probe \in ProbePlaces
    /\ poll \in 0..Polls /\ attempts \in 0..Attempts /\ mapped \in BOOLEAN
    /\ hw \in {"on", "off", "partial"} /\ prot \in BOOLEAN
    /\ genpd \in {"on", "off", "panic"}
    /\ always_on \in BOOLEAN /\ initialized \in BOOLEAN /\ asked \in BOOLEAN

\* What sboot leaves: any rail, its 260 MHz, and the domain on or off.
Init ==
    /\ ServiceInit
    /\ pms \in {Lowest, Other} /\ sel \in BOOLEAN
    /\ src = IF sel THEN "pll" ELSE "osc"
    /\ cur = Osc /\ step_volt = FALSE /\ rail_set = FALSE /\ powered = TRUE
    /\ req = Top /\ thermal = Top /\ max = Top
    /\ at = "free" /\ who = "none" /\ st = Lowest /\ up = FALSE
    /\ old = [pms |-> Other, sel |-> FALSE]
    /\ err = FALSE /\ lost = FALSE
    /\ probe = "start" /\ poll = 0 /\ attempts = 0 /\ mapped = FALSE
    /\ hw \in {"on", "off"} /\ (hw = "on" => sel) /\ prot = (hw = "on") /\ genpd = hw
    /\ initialized = (hw = "on")
    /\ always_on = FALSE /\ asked = FALSE

-----------------------------------------------------------------------------
(* s9p_g3d_apply and s9p_g3d_set_pll *)

Wanted == CHOOSE f \in {req, thermal, max} :
            f <= req /\ f <= thermal /\ f <= max

PllIs(f) == pms = f /\ sel

RailWrite(v) == [func |-> "write", reg |-> Buck6, val |-> v]

Lock(h, place) == at = "free" /\ at' = place /\ who' = h

\* The locals are gone once the lock is released.
NoLocals == st' = Lowest /\ up' = FALSE /\ old' = [pms |-> Other, sel |-> FALSE]

\* The lock is released: the probe goes on or fails, the power callback is over.
Unlock(ok) ==
    /\ at' = "free" /\ who' = "none"
    /\ NoLocals
    /\ probe' = IF who = "probe" THEN IF ok THEN "publish" ELSE "unmap" ELSE probe
    /\ genpd' = IF who = "on" THEN "on" ELSE genpd
    /\ UNCHANGED <<poll, attempts, mapped, hw, prot, always_on, initialized, asked>>

\* While the domain is off the request is only kept.
ApplyLater ==
    /\ at = "apply" /\ ~powered
    /\ Unlock(TRUE)
    /\ UNCHANGED <<svcVars, pllVars, cur, step_volt, rail_set, powered, reqVars,
                   err, lost>>

ApplyNothing ==
    /\ at = "apply" /\ powered /\ mapped /\ PllIs(Wanted)
    /\ cur' = Wanted /\ err' = FALSE
    /\ Unlock(TRUE)
    /\ UNCHANGED <<svcVars, pllVars, step_volt, rail_set, powered, reqVars, lost>>

\* Where the PLL's registers are used.
Changing == {"away", "program", "back", "undo", "relock", "reselect"}

\* g3d_con0 is not NULL, and points nowhere: the kernel stops here.
Oops ==
    /\ ~mapped /\ ((at = "apply" /\ powered) \/ at \in Changing)
    /\ at' = "oops"
    /\ UNCHANGED <<svcVars, pllVars, cur, step_volt, rail_set, powered, reqVars, who,
                   locals, err, lost, probeVars, pdVars>>

ApplySetPll ==
    /\ at = "apply" /\ powered /\ mapped /\ ~PllIs(Wanted)
    /\ st' = Wanted
    /\ up' = (cur < Wanted)
    /\ old' = [pms |-> pms, sel |-> sel]
    /\ IF step_volt /\ cur < Wanted /\ rail_set
         THEN Call("gpu", RailWrite(Volt[Wanted])) /\ at' = "raise"
         ELSE UNCHANGED svcVars /\ at' = "away"
    /\ UNCHANGED <<pllVars, cur, step_volt, rail_set, powered, reqVars, who,
                   err, lost, probeVars, pdVars>>

Raised ==
    /\ at = "raise" /\ Succeed("gpu") /\ answer.rc = "ok"
    /\ at' = "away"
    /\ UNCHANGED <<pllVars, cur, step_volt, rail_set, powered, reqVars, who,
                   locals, err, lost, probeVars, pdVars>>

RaiseFailed ==
    /\ at = "raise"
    /\ Fail("gpu") \/ (Succeed("gpu") /\ answer.rc # "ok")
    /\ err' = TRUE
    /\ Unlock(FALSE)
    /\ UNCHANGED <<pllVars, cur, step_volt, rail_set, powered, reqVars, lost>>

\* A switch of the mux: it settles, or its BUSY bit stays and nobody can tell.
Switch(s, there, otherwise) ==
    /\ sel' = s
    /\ \/ src' = (IF s THEN "pll" ELSE "osc") /\ at' = there
       \/ src' \in {src, IF s THEN "pll" ELSE "osc"} /\ at' = otherwise

Away ==
    /\ at = "away"
    /\ Switch(FALSE, "program", "undo")
    /\ UNCHANGED <<svcVars, pms, cur, step_volt, rail_set, powered, reqVars, who,
                   locals, err, lost, probeVars, pdVars>>

\* STABLE within 20 ms, or back to the old setting.
Program ==
    /\ at = "program"
    /\ pms' = st
    /\ at' \in {"back", "undo"}
    /\ UNCHANGED <<svcVars, sel, src, cur, step_volt, rail_set, powered, reqVars,
                   who, locals, err, lost, probeVars, pdVars>>

Back ==
    /\ at = "back"
    /\ \/ /\ sel' = TRUE /\ src' = "pll"
          /\ cur' = st /\ err' = FALSE
          /\ IF step_volt /\ ~up /\ rail_set
               THEN /\ Call("gpu", RailWrite(Volt[st]))
                    /\ at' = "lower"
                    /\ UNCHANGED <<who, locals, probeVars, pdVars>>
               ELSE Unlock(TRUE) /\ UNCHANGED svcVars
       \/ /\ sel' = TRUE /\ src' \in {src, "pll"}
          /\ at' = "undo"
          /\ UNCHANGED <<svcVars, cur, err, who, locals, probeVars, pdVars>>
    /\ UNCHANGED <<pms, step_volt, rail_set, powered, reqVars, lost>>

\* The rail that could not be lowered is reported, no more.
Lowered ==
    /\ at = "lower"
    /\ Succeed("gpu") \/ Fail("gpu")
    /\ Unlock(TRUE)
    /\ UNCHANGED <<pllVars, cur, step_volt, rail_set, powered, reqVars, err, lost>>

\* The driver no longer knows the rate.
RollbackFailed ==
    /\ cur' = Osc /\ lost' = TRUE /\ err' = TRUE
    /\ Unlock(FALSE)

\* restore: away from the PLL, the old setting, and back if it had been selected.
Undo ==
    /\ at = "undo"
    /\ sel' = FALSE
    /\ \/ /\ src' = "osc" /\ at' = "relock"
          /\ UNCHANGED <<cur, lost, err, who, locals, probeVars, pdVars>>
       \/ /\ src' \in {src, "osc"}
          /\ RollbackFailed
    /\ UNCHANGED <<svcVars, pms, step_volt, rail_set, powered, reqVars>>

Relock ==
    /\ at = "relock"
    /\ pms' = old.pms
    /\ \/ /\ at' = "reselect"
          /\ UNCHANGED <<cur, lost, err, who, locals, probeVars, pdVars>>
       \/ RollbackFailed
    /\ UNCHANGED <<svcVars, sel, src, step_volt, rail_set, powered, reqVars>>

Reselect ==
    /\ at = "reselect"
    /\ sel' = old.sel
    /\ \/ /\ src' = (IF old.sel THEN "pll" ELSE "osc")
          /\ err' = TRUE
          /\ Unlock(FALSE)
          /\ UNCHANGED <<cur, lost>>
       \/ /\ src' \in {src, IF old.sel THEN "pll" ELSE "osc"}
          /\ RollbackFailed
    /\ UNCHANGED <<svcVars, pms, step_volt, rail_set, powered, reqVars>>

SetPll ==
    \/ ApplyLater \/ ApplyNothing \/ Oops \/ ApplySetPll
    \/ Raised \/ RaiseFailed \/ Lowered
    \/ mapped /\ (Away \/ Program \/ Back \/ Undo \/ Relock \/ Reselect)

-----------------------------------------------------------------------------
(* Who asks: devfreq, the thermal poll, the user's ceiling, the parameters *)

\* s9p_g3d_clk_set, once the clock is published.
ClkSet(f) ==
    /\ probe = "done" /\ rail_set
    /\ Lock("other", "apply")
    /\ req' = f
    /\ UNCHANGED <<svcVars, pllVars, cur, step_volt, rail_set, powered, thermal, max,
                   locals, err, lost, probeVars, pdVars>>

\* s9p_g3d_set_khz: -EAGAIN before the rail is set, and nothing is kept.
SetKhz(f) ==
    /\ rail_set
    /\ Lock("other", "apply")
    /\ thermal' = f
    /\ UNCHANGED <<svcVars, pllVars, cur, step_volt, rail_set, powered, req, max,
                   locals, err, lost, probeVars, pdVars>>

\* s9p_g3d_max_set keeps the ceiling for later.
MaxSet(f) ==
    /\ max' = f
    /\ IF rail_set THEN Lock("other", "apply") ELSE at = "free" /\ UNCHANGED <<at, who>>
    /\ UNCHANGED <<svcVars, pllVars, cur, step_volt, rail_set, powered, req, thermal,
                   locals, err, lost, probeVars, pdVars>>

\* s9p_g3d_step_volt_set, when there is something to write to the PMIC ...
ToggleStart(enable) ==
    /\ enable # step_volt /\ rail_set /\ cur # Osc
    /\ enable => LateEnable
    /\ Lock("other", "toggle")
    /\ Call("gpu", RailWrite(IF enable THEN Volt[cur] ELSE Volt[Top]))
    /\ UNCHANGED <<pllVars, cur, step_volt, rail_set, powered, reqVars,
                   locals, err, lost, probeVars, pdVars>>

ToggleEnd ==
    /\ at = "toggle"
    /\ \/ Succeed("gpu") /\ step_volt' = IF answer.rc = "ok" THEN ~step_volt ELSE step_volt
       \/ Fail("gpu") /\ step_volt' = step_volt
    /\ Unlock(TRUE)
    /\ UNCHANGED <<pllVars, cur, rail_set, powered, reqVars, err, lost>>

\* (mutant) A plain module parameter: the flag alone, at any time.
TogglePlain ==
    /\ at = "free"
    /\ step_volt' = ~step_volt
    /\ UNCHANGED <<svcVars, pllVars, cur, rail_set, powered, reqVars, at, who,
                   locals, err, lost, probeVars, pdVars>>

\* ... and before the rail is up, when the flag is all there is.
ToggleEarly ==
    /\ at = "free" /\ ~rail_set
    /\ step_volt' = ~step_volt
    /\ UNCHANGED <<svcVars, pllVars, cur, rail_set, powered, reqVars, at, who,
                   locals, err, lost, probeVars, pdVars>>

\* s9p_g3d_rail_uv_get
ReadStart ==
    /\ Lock("other", "readback")
    /\ Call("gpu", [func |-> "read", reg |-> Buck6, val |-> 0])
    /\ UNCHANGED <<pllVars, cur, step_volt, rail_set, powered, reqVars,
                   locals, err, lost, probeVars, pdVars>>

ReadEnd ==
    /\ at = "readback"
    /\ Succeed("gpu") \/ Fail("gpu")
    /\ Unlock(TRUE)
    /\ UNCHANGED <<pllVars, cur, step_volt, rail_set, powered, reqVars, err, lost>>

Request ==
    \/ \E f \in Steps : ClkSet(f) \/ SetKhz(f) \/ MaxSet(f)
    \/ \E enable \in BOOLEAN : ToggleStart(enable)
    \/ ToggleEnd \/ ToggleEarly \/ ReadStart \/ ReadEnd

-----------------------------------------------------------------------------
(* s9p_g3d_probe and s9p_g3d_rail_up *)

\* The registers are mapped unless they have been before.  Whatever sboot left
\* is the table's top rate or taken for its lowest.
ProbeStart ==
    /\ probe = "start"
    /\ cur' = IF attempts > 0 THEN cur ELSE IF PllIs(Top) THEN Top ELSE Lowest
    /\ mapped' = (attempts = 0)
    /\ probe' = "write" /\ poll' = 0
    /\ Call("probe", RailWrite(Volt[Top]))
    /\ UNCHANGED <<pllVars, step_volt, rail_set, powered, reqVars, at, who,
                   locals, err, lost, attempts, pdVars>>

\* One of the mappings fails, and what it left is undone.
MapFails ==
    /\ probe = "start" /\ attempts = 0
    /\ probe' = "failed"
    /\ UNCHANGED <<svcVars, pllVars, cur, step_volt, rail_set, powered, reqVars,
                   at, who, locals, err, lost, poll, attempts, mapped, pdVars>>

\* (mutant) Any answer will do, a refusal as well.
RailSetAnyAnswer ==
    /\ probe = "write" /\ Succeed("probe")
    /\ rail_set' = TRUE
    /\ probe' = "apply" /\ poll' = 0
    /\ UNCHANGED <<pllVars, cur, step_volt, powered, reqVars, at, who,
                   locals, err, lost, attempts, mapped, pdVars>>

RailSet ==
    /\ probe = "write" /\ Succeed("probe") /\ answer.rc = "ok"
    /\ rail_set' = TRUE
    /\ probe' = "apply" /\ poll' = 0
    /\ UNCHANGED <<pllVars, cur, step_volt, powered, reqVars, at, who,
                   locals, err, lost, attempts, mapped, pdVars>>

\* (mutant) The attempts are counted and never run out.
RailWriteFailedForEver ==
    /\ probe = "write"
    /\ Fail("probe") \/ (Succeed("probe") /\ answer.rc # "ok")
    /\ IF poll + 1 < Polls
         THEN /\ poll' = poll + 1 /\ probe' = "retry" /\ UNCHANGED <<attempts, mapped>>
         ELSE /\ attempts' = attempts + 1 /\ poll' = 0 /\ mapped' = FALSE
              /\ probe' = "start"
    /\ UNCHANGED <<pllVars, cur, step_volt, rail_set, powered, reqVars, at, who,
                   locals, err, lost, pdVars>>

\* The write is tried Polls times, then the probe is deferred, at last it fails.
RailWriteFailed ==
    /\ probe = "write"
    /\ Fail("probe") \/ (Succeed("probe") /\ answer.rc # "ok")
    /\ IF poll + 1 < Polls
         THEN /\ poll' = poll + 1 /\ probe' = "retry" /\ UNCHANGED <<attempts, mapped>>
         ELSE /\ attempts' = attempts + 1 /\ poll' = 0 /\ mapped' = FALSE
              /\ probe' = IF attempts + 1 < Attempts THEN "start" ELSE "failed"
    /\ UNCHANGED <<pllVars, cur, step_volt, rail_set, powered, reqVars, at, who,
                   locals, err, lost, pdVars>>

RailRetry ==
    /\ probe = "retry"
    /\ probe' = "write"
    /\ Call("probe", RailWrite(Volt[Top]))
    /\ UNCHANGED <<pllVars, cur, step_volt, rail_set, powered, reqVars, at, who,
                   locals, err, lost, poll, attempts, mapped, pdVars>>

ProbeApply ==
    /\ probe = "apply" /\ who # "probe"
    /\ Lock("probe", "apply")
    /\ UNCHANGED <<svcVars, pllVars, cur, step_volt, rail_set, powered, reqVars,
                   locals, err, lost, probeVars, pdVars>>

\* Only now the clock exists for Panfrost.
Publish ==
    /\ probe = "publish"
    /\ probe' = "done"
    /\ UNCHANGED <<svcVars, pllVars, cur, step_volt, rail_set, powered, reqVars,
                   at, who,
                   locals, err, lost, poll, attempts, mapped, pdVars>>

\* The clock or its provider cannot be registered.
PublishFails ==
    /\ probe = "publish"
    /\ probe' = "unmap"
    /\ UNCHANGED <<svcVars, pllVars, cur, step_volt, rail_set, powered, reqVars,
                   at, who,
                   locals, err, lost, poll, attempts, mapped, pdVars>>

\* The driver core undoes the devm_ioremaps of a probe that failed, whatever
\* the rates' other users are about.
Unmap ==
    /\ probe = "unmap"
    /\ probe' = "failed" /\ mapped' = FALSE
    /\ UNCHANGED <<svcVars, pllVars, cur, step_volt, rail_set, powered, reqVars,
                   at, who,
                   locals, err, lost, poll, attempts, pdVars>>

Probe == \/ ProbeStart \/ MapFails \/ RailSet \/ RailWriteFailed \/ RailRetry
         \/ ProbeApply \/ Publish \/ PublishFails \/ Unmap

-----------------------------------------------------------------------------
(* The power domain: each callback runs under g3d_lock *)

\* s9p_g3d_domain_unlock: with the power on, the kept requests are applied.
DomainUnlock(on) ==
    /\ powered' = on
    /\ at' = IF on /\ rail_set THEN "apply" ELSE "free"

\* s9p_g3d_power_on, up to the block's power: the clock comes first.
PowerOn ==
    /\ genpd = "off"
    /\ IF initialized
         THEN /\ Lock("on", "energize")
              /\ sel' = TRUE /\ src' = "pll"
              /\ UNCHANGED <<pms, powered>>
         ELSE /\ at = "free" /\ pms' = Other
              /\ \/ /\ sel' = TRUE /\ src' = "pll"
                    /\ at' = "energize" /\ who' = "on"
                    /\ UNCHANGED powered
                 \/ /\ sel' = FALSE /\ src' = "osc"     \* the PLL did not lock
                    /\ powered' = FALSE
                    /\ UNCHANGED <<at, who>>
    /\ UNCHANGED <<svcVars, cur, step_volt, rail_set, reqVars,
                   locals, err, lost, probeVars, pdVars>>

\* (mutant) The requests kept while the domain was off are left for later.
EnergizedNoApply ==
    /\ at = "energize"
    /\ hw' = "on" /\ prot' = TRUE /\ initialized' = TRUE
    /\ powered' = TRUE /\ at' = "free"
    /\ who' = "none" /\ genpd' = "on"
    /\ UNCHANGED <<svcVars, pllVars, cur, step_volt, rail_set, reqVars, locals,
                   err, lost, probeVars, always_on, asked>>

\* The callback returns 0 whatever becomes of the requests it applies.
Energized ==
    /\ at = "energize"
    /\ hw' = "on" /\ prot' = TRUE /\ initialized' = TRUE
    /\ DomainUnlock(TRUE)
    /\ IF rail_set THEN UNCHANGED <<who, genpd>> ELSE who' = "none" /\ genpd' = "on"
    /\ UNCHANGED <<svcVars, pllVars, cur, step_volt, rail_set, reqVars, locals,
                   err, lost, probeVars, always_on, asked>>

\* STATUS, the TZPC restore or, the first time, a divider: nothing is undone.
EnergizeFailed ==
    /\ at = "energize"
    /\ \/ hw' = "partial" /\ prot' = prot
       \/ hw' = "on" /\ prot' = FALSE
       \/ hw' = "on" /\ prot' = TRUE /\ ~initialized
    /\ DomainUnlock(FALSE)
    /\ who' = "none"
    /\ UNCHANGED <<svcVars, pllVars, cur, step_volt, rail_set, reqVars, locals,
                   err, lost, probeVars, genpd, always_on, initialized, asked>>

\* s9p_g3d_power_off reads always_on before it takes the lock.
AskPowerOff ==
    /\ genpd = "on" /\ ~asked /\ who # "off"
    /\ ~always_on
    /\ asked' = TRUE
    /\ UNCHANGED <<svcVars, pllVars, cur, step_volt, rail_set, powered, reqVars,
                   at, who, locals, err, lost, probeVars, hw, prot, genpd, always_on, initialized>>

\* The secure state is saved first; if that fails the domain stays on.
PowerOff ==
    /\ asked /\ at = "free"
    /\ asked' = FALSE
    /\ \/ at' = "cut" /\ who' = "off" /\ UNCHANGED powered
       \/ DomainUnlock(TRUE) /\ who' = IF rail_set THEN "off" ELSE "none"
    /\ UNCHANGED <<svcVars, pllVars, cur, step_volt, rail_set, reqVars, locals,
                   err, lost, probeVars, hw, prot, genpd, always_on, initialized>>

CutPower ==
    /\ at = "cut"
    /\ prot' = FALSE
    /\ \/ /\ hw' = "off" /\ genpd' = "off"
          /\ sel' = FALSE /\ src' = "osc"
          /\ DomainUnlock(FALSE)
          /\ who' = "none"
       \/ /\ hw' = "partial" /\ at' = "restore"
          /\ UNCHANGED <<sel, src, powered, who, genpd>>
    /\ UNCHANGED <<svcVars, pms, cur, step_volt, rail_set, reqVars, locals, err,
                   lost, probeVars, always_on, initialized, asked>>

\* (mutant) The power is restored, the secure protection is not.
RestorePowerOnly ==
    /\ at = "restore"
    /\ always_on' = TRUE
    /\ \/ /\ hw' = "on" /\ UNCHANGED prot
          /\ DomainUnlock(TRUE)
          /\ who' = IF rail_set THEN "off" ELSE "none"
          /\ UNCHANGED genpd
       \/ /\ DomainUnlock(FALSE)
          /\ genpd' = "panic" /\ who' = "none"
          /\ UNCHANGED <<hw, prot>>
    /\ UNCHANGED <<svcVars, pllVars, cur, step_volt, rail_set, reqVars, locals,
                   err, lost, probeVars, initialized, asked>>

\* A power-off that timed out is rolled back, and not tried again; when even
\* that fails the kernel panics.
RestorePower ==
    /\ at = "restore"
    /\ always_on' = TRUE
    /\ \/ /\ hw' = "on" /\ prot' = TRUE
          /\ DomainUnlock(TRUE)
          /\ who' = IF rail_set THEN "off" ELSE "none"
          /\ UNCHANGED genpd
       \/ /\ DomainUnlock(FALSE)
          /\ genpd' = "panic" /\ who' = "none"
          /\ UNCHANGED <<hw, prot>>
    /\ UNCHANGED <<svcVars, pllVars, cur, step_volt, rail_set, reqVars, locals,
                   err, lost, probeVars, initialized, asked>>

SetAlwaysOn ==
    /\ always_on' = ~always_on
    /\ UNCHANGED <<svcVars, pllVars, cur, step_volt, rail_set, powered, reqVars,
                   at, who, locals, err, lost, probeVars, hw, prot, genpd, initialized, asked>>

PowerDomain == PowerOn \/ Energized \/ EnergizeFailed \/ AskPowerOff \/ PowerOff
               \/ CutPower \/ RestorePower \/ SetAlwaysOn

-----------------------------------------------------------------------------
g3dVars == <<pllVars, cur, step_volt, rail_set, powered, reqVars,
             at, who, locals, err, lost, probeVars, pdVars>>

ServiceStep ==
    /\ \/ Perform
       \/ \E c \in Callers : Submit(c) \/ GiveUp(c)
    /\ UNCHANGED g3dVars

Next ==
    /\ genpd # "panic"
    /\ SetPll \/ Request \/ Probe \/ PowerDomain \/ ServiceStep

Spec == Init /\ [][Next]_vars

-----------------------------------------------------------------------------
GpuRuns == src = "pll" /\ hw # "off"
Voltage(p) == Volt[IF p = Other THEN Lowest ELSE p]

\* Once the driver has set the rail, BUCK6 is never below what the step the GPU
\* runs at needs: it "is raised before the clock goes up and lowered only after
\* it has come down".  Not so after a failed rollback of the PLL (`lost').
RailCoversGpu ==
    rail_set /\ GpuRuns /\ ~lost => pmic[Buck6] >= Voltage(pms)

\* The same without the exception.
RailAlwaysCoversGpu ==
    rail_set /\ GpuRuns => pmic[Buck6] >= Voltage(pms)

\* Panfrost gets the clock only on a rail that is fit at least for the lowest
\* step, and the rail never falls below that again.
PublishedOnSafeRail ==
    probe = "done" => pmic[Buck6] >= Volt[Lowest]

\* Where the GPU is in use and no attempt has failed, its PLL is at the lowest of
\* the three requests: no cap or ceiling set while the domain was off, or while
\* the rail came up, is lost.
CapHonoured ==
    genpd = "on" /\ at = "free" /\ rail_set /\ probe # "apply" /\ ~err =>
        PllIs(Wanted) /\ cur = Wanted /\ (src = "pll" \/ lost)

\* "The next attempt goes through": no call of the driver touches the PLL's
\* registers while they are not mapped.
PllIsMapped == at # "oops"

\* Outside the power callbacks a domain that is on for its consumers has its
\* power, its secure protection and its clock requests served.
OnIsUsable ==
    genpd = "on" /\ who \notin {"on", "off"} => hw = "on" /\ prot /\ powered
=============================================================================
