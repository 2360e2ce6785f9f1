--------------------------- MODULE G3dClockProofs ---------------------------
(***************************************************************************)
(* For every table of steps and voltages: the GPU's rail covers its clock, *)
(* the three requests are honoured and a domain that is on is usable, over *)
(* a PMIC service that fails and performs late, whatever of a switch of    *)
(* the PLL, its rollback, the rail's way up or a power callback fails, as  *)
(* long as step_volt is not turned on while the driver runs (LateEnable).  *)
(***************************************************************************)
EXTENDS G3dClock, PmicServiceProofs

-----------------------------------------------------------------------------
(* The driver and the power domain *)

PllTypes ==
    /\ pms \in Steps \union {Other} /\ sel \in BOOLEAN /\ src \in {"pll", "osc"}
    /\ cur \in Steps \union {Osc}
    /\ step_volt \in BOOLEAN /\ rail_set \in BOOLEAN /\ powered \in BOOLEAN
    /\ req \in Steps /\ thermal \in Steps /\ max \in Steps
    /\ err \in BOOLEAN /\ lost \in BOOLEAN
LockTypes ==
    /\ at \in Places /\ who \in {"none", "other", "probe", "on", "off"}
    /\ st \in Steps /\ up \in BOOLEAN
    /\ old \in [pms : Steps \union {Other}, sel : BOOLEAN]
ProbeTypes ==
    /\ probe \in ProbePlaces
    /\ poll \in 0..Polls /\ attempts \in 0..Attempts /\ mapped \in BOOLEAN
DomainTypes ==
    /\ hw \in {"on", "off", "partial"} /\ prot \in BOOLEAN
    /\ genpd \in {"on", "off", "panic"}
    /\ always_on \in BOOLEAN /\ initialized \in BOOLEAN /\ asked \in BOOLEAN

DriverTypes == PllTypes /\ LockTypes /\ ProbeTypes /\ DomainTypes

\* The places with locals.
SetPllPlaces == Changing \cup {"raise", "lower"}

\* Who holds the lock where, and what the probe has done by then.
Locked ==
    /\ at = "free" <=> who = "none"
    /\ at \in SetPllPlaces => st = Wanted
    /\ at \notin {"free", "readback", "energize", "cut", "restore"} => rail_set
    /\ who = "on" => genpd = "off"
    /\ who = "off" => genpd = "on"
    /\ asked => genpd = "on" /\ who # "off"
    /\ at = "energize" => who = "on"
    /\ at \in {"cut", "restore"} => who = "off"
    /\ at \in {"toggle", "readback"} => who = "other"
    /\ who = "probe" => probe = "apply"
    /\ probe \in {"apply", "publish", "done"} => rail_set
    /\ probe \in {"start", "write", "retry"} => ~rail_set /\ attempts < Attempts

\* A domain on for its consumers is on, and so is one about to be.
Powers ==
    /\ genpd = "on" /\ at # "restore" => hw = "on" /\ prot /\ powered
    /\ who = "on" /\ at # "energize" => hw = "on" /\ prot /\ powered

\* Only within an undo, and after one that failed or was cut short, may the mux
\* differ from what it was set to.
MuxKnown == ~lost /\ at # "undo" /\ at # "oops" => (sel <=> src = "pll")

\* Unless the last attempt failed, the PLL is where the requests want it.
Honoured ==
    /\ genpd = "on" /\ at \in {"free", "toggle", "readback"} /\ rail_set
         /\ probe # "apply" /\ ~err => PllIs(Wanted) /\ cur = Wanted
    /\ at = "back" => pms = st
    /\ at = "lower" => PllIs(Wanted) /\ cur = Wanted

DriverInv == DriverTypes /\ Locked /\ Powers /\ MuxKnown /\ Honoured

USE DEF svcVars, pllVars, reqVars, locals, probeVars, pdVars

LEMMA Table ==
    /\ {Lowest, Top} \subseteq Steps /\ Steps \subseteq Nat \ {0}
    /\ Volt \in [Steps -> Vals \ {0}] /\ Vals \subseteq Nat
    /\ \A f \in Steps : Volt[Lowest] <= Volt[f] /\ Volt[f] <= Volt[Top]
    /\ \A f, g \in Steps : f <= g => Volt[f] <= Volt[g]
    /\ \A f \in Steps : RailWrite(Volt[f]) \in Cmd
    /\ {"gpu", "probe"} \subseteq Callers /\ Buck6 \in Regs
    /\ Polls \in Nat \ {0} /\ Attempts \in Nat \ {0}
  BY G3dAssumption, ServiceAssumption DEF RailWrite, Cmd

\* The least of the three requests is one of them.
LEMMA WantedIs ==
    ASSUME DriverTypes
    PROVE  Wanted \in Steps /\ Wanted <= req /\ Wanted <= thermal /\ Wanted <= max
  <1>1. {req, thermal, max} \subseteq Nat
    BY Table DEF DriverTypes, PllTypes
  <1>2. \E f \in {req, thermal, max} : f <= req /\ f <= thermal /\ f <= max
    BY <1>1
  <1> QED
    BY <1>2 DEF Wanted, DriverTypes, PllTypes

\* The locals' types when they are gone, and those of the table's bounds.
LEMMA NoLocalsTypes ==
    ASSUME NoLocals
    PROVE  /\ st' \in Steps /\ up' \in BOOLEAN
           /\ old' \in [pms : Steps \union {Other}, sel : BOOLEAN]
  BY Table DEF NoLocals

LEMMA Ends ==
    /\ Lowest \in Steps /\ Top \in Steps
    /\ Polls \in Nat \ {0} /\ Attempts \in Nat \ {0}
  BY Table

\* The step wanted is the same as long as the requests are.
LEMMA SameWanted ==
    ASSUME UNCHANGED reqVars
    PROVE  Wanted' = Wanted
  BY DEF Wanted

LEMMA SetPllDriverInv ==
    ASSUME DriverInv, SetPll
    PROVE  DriverInv'
  <1> USE DEF DriverInv, DriverTypes, PllTypes, LockTypes, ProbeTypes, DomainTypes,
              Places, SetPllPlaces, Changing, ProbePlaces
  <1>1. CASE ApplyLater
    <2>1. Wanted' = Wanted
      BY <1>1, SameWanted DEF ApplyLater
    <2>2. PllTypes'
      BY <1>1, Ends, WantedIs DEF ApplyLater, Unlock, NoLocals
    <2>3. LockTypes'
      BY <1>1, Ends, WantedIs, NoLocalsTypes DEF ApplyLater, Unlock
    <2>4. ProbeTypes'
      BY <1>1, Ends, WantedIs DEF ApplyLater, Unlock, NoLocals
    <2>5. DomainTypes'
      BY <1>1, Ends, WantedIs DEF ApplyLater, Unlock, NoLocals
    <2>6. Locked' /\ Powers' /\ MuxKnown' /\ Honoured'
      BY <1>1, <2>1, WantedIs
      DEF Locked, ApplyLater, Unlock, NoLocals, Powers, MuxKnown, Honoured, PllIs
    <2> QED
      BY <2>2, <2>3, <2>4, <2>5, <2>6 DEF DriverTypes
  <1>2. CASE ApplyNothing
    <2>1. Wanted' = Wanted
      BY <1>2, SameWanted DEF ApplyNothing
    <2>2. PllTypes'
      BY <1>2, Ends, WantedIs DEF ApplyNothing, Unlock, NoLocals, PllIs
    <2>3. LockTypes'
      BY <1>2, Ends, WantedIs, NoLocalsTypes DEF ApplyNothing, Unlock, PllIs
    <2>4. ProbeTypes'
      BY <1>2, Ends, WantedIs DEF ApplyNothing, Unlock, NoLocals, PllIs
    <2>5. DomainTypes'
      BY <1>2, Ends, WantedIs DEF ApplyNothing, Unlock, NoLocals, PllIs
    <2>6. Locked' /\ Powers' /\ MuxKnown' /\ Honoured'
      BY <1>2, <2>1, WantedIs
      DEF Locked, ApplyNothing, Unlock, NoLocals, PllIs, Powers, MuxKnown, Honoured
    <2> QED
      BY <2>2, <2>3, <2>4, <2>5, <2>6 DEF DriverTypes
  <1>3. CASE Oops
    <2>1. Wanted' = Wanted
      BY <1>3, SameWanted DEF Oops
    <2>2. DriverTypes'
      BY <1>3, Ends, WantedIs DEF Oops
    <2>3. Locked' /\ Powers' /\ MuxKnown' /\ Honoured'
      BY <1>3, <2>1, WantedIs DEF Locked, Oops, Powers, MuxKnown, Honoured, PllIs
    <2> QED
      BY <2>2, <2>3 DEF DriverTypes
  <1>4. CASE ApplySetPll
    <2>1. Wanted' = Wanted
      BY <1>4, SameWanted DEF ApplySetPll
    <2>2. DriverTypes'
      BY <1>4, Ends, WantedIs DEF ApplySetPll, PllIs
    <2>3. Locked' /\ Powers' /\ MuxKnown' /\ Honoured'
      BY <1>4, <2>1, WantedIs DEF Locked, ApplySetPll, PllIs, Powers, MuxKnown, Honoured
    <2> QED
      BY <2>2, <2>3 DEF DriverTypes
  <1>5. CASE Raised
    <2>1. Wanted' = Wanted
      BY <1>5, SameWanted DEF Raised
    <2>2. DriverTypes'
      BY <1>5, Ends, WantedIs DEF Raised
    <2>3. Locked' /\ Powers' /\ MuxKnown' /\ Honoured'
      BY <1>5, <2>1, WantedIs DEF Locked, Raised, Powers, MuxKnown, Honoured, PllIs
    <2> QED
      BY <2>2, <2>3 DEF DriverTypes
  <1>6. CASE RaiseFailed
    <2>1. Wanted' = Wanted
      BY <1>6, SameWanted DEF RaiseFailed
    <2>2. PllTypes'
      BY <1>6, Ends, WantedIs DEF RaiseFailed, Unlock, NoLocals
    <2>3. LockTypes'
      BY <1>6, Ends, WantedIs, NoLocalsTypes DEF RaiseFailed, Unlock
    <2>4. ProbeTypes'
      BY <1>6, Ends, WantedIs DEF RaiseFailed, Unlock, NoLocals
    <2>5. DomainTypes'
      BY <1>6, Ends, WantedIs DEF RaiseFailed, Unlock, NoLocals
    <2>6. Locked' /\ Powers' /\ MuxKnown' /\ Honoured'
      BY <1>6, <2>1, WantedIs
      DEF Locked, RaiseFailed, Unlock, NoLocals, Powers, MuxKnown, Honoured, PllIs
    <2> QED
      BY <2>2, <2>3, <2>4, <2>5, <2>6 DEF DriverTypes
  <1>7. CASE Away
    <2>1. Wanted' = Wanted
      BY <1>7, SameWanted DEF Away
    <2>2. PllTypes'
      BY <1>7, Ends, WantedIs DEF Away, Switch
    <2>3. LockTypes'
      BY <1>7, Ends, WantedIs DEF Away, Switch
    <2>4. ProbeTypes'
      BY <1>7, Ends, WantedIs DEF Away, Switch
    <2>5. DomainTypes'
      BY <1>7, Ends, WantedIs DEF Away, Switch
    <2>6. Locked' /\ Powers' /\ MuxKnown' /\ Honoured'
      BY <1>7, <2>1, WantedIs
      DEF Locked, Away, Switch, Powers, MuxKnown, Honoured, PllIs
    <2> QED
      BY <2>2, <2>3, <2>4, <2>5, <2>6 DEF DriverTypes
  <1>8. CASE Program
    <2>1. Wanted' = Wanted
      BY <1>8, SameWanted DEF Program
    <2>2. DriverTypes'
      BY <1>8, Ends, WantedIs DEF Program
    <2>3. Locked' /\ Powers' /\ MuxKnown' /\ Honoured'
      BY <1>8, <2>1, WantedIs DEF Locked, Program, Powers, MuxKnown, Honoured, PllIs
    <2> QED
      BY <2>2, <2>3 DEF DriverTypes
  <1>9. CASE Back
    <2>1. Wanted' = Wanted
      BY <1>9, SameWanted DEF Back
    <2>2. PllTypes'
      BY <1>9, Ends, WantedIs DEF Back, Unlock, NoLocals
    <2>3. LockTypes'
      BY <1>9, Ends, WantedIs, NoLocalsTypes DEF Back, Unlock
    <2>4. ProbeTypes'
      BY <1>9, Ends, WantedIs DEF Back, Unlock, NoLocals
    <2>5. DomainTypes'
      BY <1>9, Ends, WantedIs DEF Back, Unlock, NoLocals
    <2>6. Locked' /\ Powers' /\ MuxKnown' /\ Honoured'
      BY <1>9, <2>1, WantedIs
      DEF Locked, Back, Unlock, NoLocals, Powers, MuxKnown, Honoured, PllIs
    <2> QED
      BY <2>2, <2>3, <2>4, <2>5, <2>6 DEF DriverTypes
  <1>10. CASE Lowered
    <2>1. Wanted' = Wanted
      BY <1>10, SameWanted DEF Lowered
    <2>2. PllTypes'
      BY <1>10, Ends, WantedIs DEF Lowered, Unlock, NoLocals
    <2>3. LockTypes'
      BY <1>10, Ends, WantedIs, NoLocalsTypes DEF Lowered, Unlock
    <2>4. ProbeTypes'
      BY <1>10, Ends, WantedIs DEF Lowered, Unlock, NoLocals
    <2>5. DomainTypes'
      BY <1>10, Ends, WantedIs DEF Lowered, Unlock, NoLocals
    <2>6. Locked' /\ Powers' /\ MuxKnown' /\ Honoured'
      BY <1>10, <2>1, WantedIs
      DEF Locked, Lowered, Unlock, NoLocals, Powers, MuxKnown, Honoured, PllIs
    <2> QED
      BY <2>2, <2>3, <2>4, <2>5, <2>6 DEF DriverTypes
  <1>11. CASE Undo
    <2>1. Wanted' = Wanted
      BY <1>11, SameWanted DEF Undo
    <2>2. PllTypes'
      BY <1>11, Ends, WantedIs DEF Undo, RollbackFailed, Unlock, NoLocals
    <2>3. LockTypes'
      BY <1>11, Ends, WantedIs, NoLocalsTypes DEF Undo, RollbackFailed, Unlock
    <2>4. ProbeTypes'
      BY <1>11, Ends, WantedIs DEF Undo, RollbackFailed, Unlock, NoLocals
    <2>5. DomainTypes'
      BY <1>11, Ends, WantedIs DEF Undo, RollbackFailed, Unlock, NoLocals
    <2>6. Locked' /\ Powers' /\ MuxKnown' /\ Honoured'
      BY <1>11, <2>1, WantedIs
      DEF Locked, Undo, RollbackFailed, Unlock, NoLocals, Powers, MuxKnown, Honoured,
          PllIs
    <2> QED
      BY <2>2, <2>3, <2>4, <2>5, <2>6 DEF DriverTypes
  <1>12. CASE Relock
    <2>1. Wanted' = Wanted
      BY <1>12, SameWanted DEF Relock
    <2>2. PllTypes'
      BY <1>12, Ends, WantedIs DEF Relock, RollbackFailed, Unlock, NoLocals
    <2>3. LockTypes'
      BY <1>12, Ends, WantedIs, NoLocalsTypes DEF Relock, RollbackFailed, Unlock
    <2>4. ProbeTypes'
      BY <1>12, Ends, WantedIs DEF Relock, RollbackFailed, Unlock, NoLocals
    <2>5. DomainTypes'
      BY <1>12, Ends, WantedIs DEF Relock, RollbackFailed, Unlock, NoLocals
    <2>6. Locked' /\ Powers' /\ MuxKnown' /\ Honoured'
      BY <1>12, <2>1, WantedIs
      DEF Locked, Relock, RollbackFailed, Unlock, NoLocals, Powers, MuxKnown, Honoured,
          PllIs
    <2> QED
      BY <2>2, <2>3, <2>4, <2>5, <2>6 DEF DriverTypes
  <1>13. CASE Reselect
    <2>1. Wanted' = Wanted
      BY <1>13, SameWanted DEF Reselect
    <2>2. PllTypes'
      BY <1>13, Ends, WantedIs DEF Reselect, Unlock, NoLocals, RollbackFailed
    <2>3. LockTypes'
      BY <1>13, Ends, WantedIs, NoLocalsTypes DEF Reselect, Unlock, RollbackFailed
    <2>4. ProbeTypes'
      BY <1>13, Ends, WantedIs DEF Reselect, Unlock, NoLocals, RollbackFailed
    <2>5. DomainTypes'
      BY <1>13, Ends, WantedIs DEF Reselect, Unlock, NoLocals, RollbackFailed
    <2>6. Locked' /\ Powers' /\ MuxKnown' /\ Honoured'
      BY <1>13, <2>1, WantedIs
      DEF Locked, Reselect, Unlock, NoLocals, RollbackFailed, Powers, MuxKnown,
          Honoured, PllIs
    <2> QED
      BY <2>2, <2>3, <2>4, <2>5, <2>6 DEF DriverTypes
  <1> QED
    BY <1>1, <1>2, <1>3, <1>4, <1>5, <1>6, <1>7, <1>8, <1>9, <1>10, <1>11, <1>12, <1>13
    DEF SetPll

LEMMA RequestDriverInv ==
    ASSUME DriverInv, Request
    PROVE  DriverInv'
  <1> USE DEF DriverInv, DriverTypes, PllTypes, LockTypes, ProbeTypes, DomainTypes,
              Places, SetPllPlaces, Changing, ProbePlaces
  <1>1. ASSUME NEW f \in Steps, ClkSet(f)
        PROVE  DriverInv'
    <2>1. DriverTypes'
      BY <1>1, Ends, WantedIs DEF ClkSet, Lock
    <2>2. Locked' /\ Powers' /\ MuxKnown' /\ Honoured'
      BY <1>1, WantedIs DEF Locked, ClkSet, Lock, Powers, MuxKnown, Honoured, PllIs
    <2> QED
      BY <2>1, <2>2 DEF DriverTypes
  <1>2. ASSUME NEW f \in Steps, SetKhz(f)
        PROVE  DriverInv'
    <2>1. DriverTypes'
      BY <1>2, Ends, WantedIs DEF SetKhz, Lock
    <2>2. Locked' /\ Powers' /\ MuxKnown' /\ Honoured'
      BY <1>2, WantedIs DEF Locked, SetKhz, Lock, Powers, MuxKnown, Honoured, PllIs
    <2> QED
      BY <2>1, <2>2 DEF DriverTypes
  <1>3. ASSUME NEW f \in Steps, MaxSet(f)
        PROVE  DriverInv'
    <2>1. DriverTypes'
      BY <1>3, Ends, WantedIs DEF MaxSet, Lock
    <2>2. Locked' /\ Powers' /\ MuxKnown' /\ Honoured'
      BY <1>3, WantedIs DEF Locked, MaxSet, Lock, Powers, MuxKnown, Honoured, PllIs
    <2> QED
      BY <2>1, <2>2 DEF DriverTypes
  <1>4. ASSUME NEW e \in BOOLEAN, ToggleStart(e)
        PROVE  DriverInv'
    <2>1. Wanted' = Wanted
      BY <1>4, SameWanted DEF ToggleStart
    <2>2. DriverTypes'
      BY <1>4, Ends, WantedIs DEF ToggleStart, Lock
    <2>3. Locked' /\ Powers' /\ MuxKnown' /\ Honoured'
      BY <1>4, <2>1, WantedIs
      DEF Locked, ToggleStart, Lock, Powers, MuxKnown, Honoured, PllIs
    <2> QED
      BY <2>2, <2>3 DEF DriverTypes
  <1>5. CASE ToggleEnd
    <2>1. Wanted' = Wanted
      BY <1>5, SameWanted DEF ToggleEnd
    <2>2. PllTypes'
      BY <1>5, Ends, WantedIs DEF ToggleEnd, Unlock, NoLocals
    <2>3. LockTypes'
      BY <1>5, Ends, WantedIs, NoLocalsTypes DEF ToggleEnd, Unlock
    <2>4. ProbeTypes'
      BY <1>5, Ends, WantedIs DEF ToggleEnd, Unlock, NoLocals
    <2>5. DomainTypes'
      BY <1>5, Ends, WantedIs DEF ToggleEnd, Unlock, NoLocals
    <2>6. Locked' /\ Powers' /\ MuxKnown' /\ Honoured'
      BY <1>5, <2>1, WantedIs
      DEF Locked, ToggleEnd, Unlock, NoLocals, Powers, MuxKnown, Honoured, PllIs
    <2> QED
      BY <2>2, <2>3, <2>4, <2>5, <2>6 DEF DriverTypes
  <1>6. CASE ToggleEarly
    <2>1. Wanted' = Wanted
      BY <1>6, SameWanted DEF ToggleEarly
    <2>2. DriverTypes'
      BY <1>6, Ends, WantedIs DEF ToggleEarly
    <2>3. Locked' /\ Powers' /\ MuxKnown' /\ Honoured'
      BY <1>6, <2>1, WantedIs DEF Locked, ToggleEarly, Powers, MuxKnown, Honoured, PllIs
    <2> QED
      BY <2>2, <2>3 DEF DriverTypes
  <1>7. CASE ReadStart
    <2>1. Wanted' = Wanted
      BY <1>7, SameWanted DEF ReadStart
    <2>2. DriverTypes'
      BY <1>7, Ends, WantedIs DEF ReadStart, Lock
    <2>3. Locked' /\ Powers' /\ MuxKnown' /\ Honoured'
      BY <1>7, <2>1, WantedIs
      DEF Locked, ReadStart, Lock, Powers, MuxKnown, Honoured, PllIs
    <2> QED
      BY <2>2, <2>3 DEF DriverTypes
  <1>8. CASE ReadEnd
    <2>1. Wanted' = Wanted
      BY <1>8, SameWanted DEF ReadEnd
    <2>2. PllTypes'
      BY <1>8, Ends, WantedIs DEF ReadEnd, Unlock, NoLocals
    <2>3. LockTypes'
      BY <1>8, Ends, WantedIs, NoLocalsTypes DEF ReadEnd, Unlock
    <2>4. ProbeTypes'
      BY <1>8, Ends, WantedIs DEF ReadEnd, Unlock, NoLocals
    <2>5. DomainTypes'
      BY <1>8, Ends, WantedIs DEF ReadEnd, Unlock, NoLocals
    <2>6. Locked' /\ Powers' /\ MuxKnown' /\ Honoured'
      BY <1>8, <2>1, WantedIs
      DEF Locked, ReadEnd, Unlock, NoLocals, Powers, MuxKnown, Honoured, PllIs
    <2> QED
      BY <2>2, <2>3, <2>4, <2>5, <2>6 DEF DriverTypes
  <1> QED
    BY <1>1, <1>2, <1>3, <1>4, <1>5, <1>6, <1>7, <1>8 DEF Request

LEMMA ProbeDriverInv ==
    ASSUME DriverInv, Probe
    PROVE  DriverInv'
  <1> USE DEF DriverInv, DriverTypes, PllTypes, LockTypes, ProbeTypes, DomainTypes,
              Places, SetPllPlaces, Changing, ProbePlaces
  <1>1. CASE ProbeStart
    <2>1. Wanted' = Wanted
      BY <1>1, SameWanted DEF ProbeStart
    <2>2. DriverTypes'
      BY <1>1, Ends, WantedIs DEF ProbeStart, PllIs
    <2>3. Locked' /\ Powers' /\ MuxKnown' /\ Honoured'
      BY <1>1, <2>1, WantedIs DEF Locked, ProbeStart, PllIs, Powers, MuxKnown, Honoured
    <2> QED
      BY <2>2, <2>3 DEF DriverTypes
  <1>2. CASE RailSet
    <2>1. Wanted' = Wanted
      BY <1>2, SameWanted DEF RailSet
    <2>2. DriverTypes'
      BY <1>2, Ends, WantedIs DEF RailSet
    <2>3. Locked' /\ Powers' /\ MuxKnown' /\ Honoured'
      BY <1>2, <2>1, WantedIs DEF Locked, RailSet, Powers, MuxKnown, Honoured, PllIs
    <2> QED
      BY <2>2, <2>3 DEF DriverTypes
  <1>3. CASE RailWriteFailed
    <2>1. Wanted' = Wanted
      BY <1>3, SameWanted DEF RailWriteFailed
    <2>2. PllTypes' /\ LockTypes'
      BY <1>3, Ends, WantedIs DEF RailWriteFailed
    <2>3. ProbeTypes'
      <3>1. attempts < Attempts /\ Polls \in Nat /\ Attempts \in Nat
        BY <1>3, Ends DEF Locked, RailWriteFailed
      <3>2. CASE poll + 1 < Polls
        BY <1>3, <3>1, <3>2 DEF RailWriteFailed
      <3>3. CASE ~(poll + 1 < Polls)
        <4>1. attempts' = attempts + 1 /\ poll' = 0 /\ mapped' = FALSE
          BY <1>3, <3>3 DEF RailWriteFailed
        <4>2. probe' \in {"start", "failed"}
          BY <1>3, <3>3 DEF RailWriteFailed
        <4>3. attempts + 1 \in 0..Attempts /\ 0 \in 0..Polls
          BY <3>1
        <4> QED
          BY <4>1, <4>2, <4>3
      <3> QED
        BY <3>2, <3>3
    <2>4. DomainTypes'
      BY <1>3, Ends, WantedIs DEF RailWriteFailed
    <2>5. Locked' /\ Powers' /\ MuxKnown' /\ Honoured'
      BY <1>3, <2>1, WantedIs
      DEF Locked, RailWriteFailed, Powers, MuxKnown, Honoured, PllIs
    <2> QED
      BY <2>2, <2>3, <2>4, <2>5 DEF DriverTypes
  <1>4. CASE RailRetry
    <2>1. Wanted' = Wanted
      BY <1>4, SameWanted DEF RailRetry
    <2>2. DriverTypes'
      BY <1>4, Ends, WantedIs DEF RailRetry
    <2>3. Locked' /\ Powers' /\ MuxKnown' /\ Honoured'
      BY <1>4, <2>1, WantedIs DEF Locked, RailRetry, Powers, MuxKnown, Honoured, PllIs
    <2> QED
      BY <2>2, <2>3 DEF DriverTypes
  <1>5. CASE ProbeApply
    <2>1. Wanted' = Wanted
      BY <1>5, SameWanted DEF ProbeApply
    <2>2. DriverTypes'
      BY <1>5, Ends, WantedIs DEF ProbeApply, Lock
    <2>3. Locked' /\ Powers' /\ MuxKnown' /\ Honoured'
      BY <1>5, <2>1, WantedIs
      DEF Locked, ProbeApply, Lock, Powers, MuxKnown, Honoured, PllIs
    <2> QED
      BY <2>2, <2>3 DEF DriverTypes
  <1>6. CASE Publish \/ MapFails \/ PublishFails \/ Unmap
    <2> USE DEF Publish, MapFails, PublishFails, Unmap
    <2>1. Wanted' = Wanted
      BY <1>6, SameWanted
    <2>2. PllTypes' /\ LockTypes' /\ DomainTypes'
      BY <1>6
    <2>3. ProbeTypes'
      <3>1. /\ probe' \in ProbePlaces
            /\ poll' = poll /\ attempts' = attempts
        BY <1>6
      <3>2. mapped' \in BOOLEAN
        BY <1>6
      <3> QED
        BY <3>1, <3>2
    <2>4. Locked' /\ Powers' /\ MuxKnown' /\ Honoured'
      BY <1>6, <2>1, WantedIs DEF Locked, Powers, MuxKnown, Honoured, PllIs
    <2> QED
      BY <2>2, <2>3, <2>4
  <1> QED
    BY <1>1, <1>2, <1>3, <1>4, <1>5, <1>6 DEF Probe

LEMMA PowerDomainDriverInv ==
    ASSUME DriverInv, PowerDomain
    PROVE  DriverInv'
  <1> USE DEF DriverInv, DriverTypes, PllTypes, LockTypes, ProbeTypes, DomainTypes,
              Places, SetPllPlaces, Changing, ProbePlaces
  <1>1. CASE PowerOn
    <2>1. Wanted' = Wanted
      BY <1>1, SameWanted DEF PowerOn
    <2>2. PllTypes'
      BY <1>1, Ends, WantedIs DEF PowerOn, Lock
    <2>3. LockTypes'
      BY <1>1, Ends, WantedIs DEF PowerOn, Lock
    <2>4. ProbeTypes'
      BY <1>1, Ends, WantedIs DEF PowerOn, Lock
    <2>5. DomainTypes'
      BY <1>1, Ends, WantedIs DEF PowerOn, Lock
    <2>6. Locked' /\ Powers' /\ MuxKnown' /\ Honoured'
      BY <1>1, <2>1, WantedIs
      DEF Locked, PowerOn, Lock, Powers, MuxKnown, Honoured, PllIs
    <2> QED
      BY <2>2, <2>3, <2>4, <2>5, <2>6 DEF DriverTypes
  <1>2. CASE Energized
    <2>1. Wanted' = Wanted
      BY <1>2, SameWanted DEF Energized
    <2>2. DriverTypes'
      BY <1>2, Ends, WantedIs DEF Energized, DomainUnlock
    <2>3. Locked' /\ Powers' /\ MuxKnown' /\ Honoured'
      BY <1>2, <2>1, WantedIs
      DEF Locked, Energized, DomainUnlock, Powers, MuxKnown, Honoured, PllIs
    <2> QED
      BY <2>2, <2>3 DEF DriverTypes
  <1>3. CASE EnergizeFailed
    <2>1. Wanted' = Wanted
      BY <1>3, SameWanted DEF EnergizeFailed
    <2>2. PllTypes'
      BY <1>3, Ends, WantedIs DEF EnergizeFailed, DomainUnlock
    <2>3. LockTypes'
      BY <1>3, Ends, WantedIs DEF EnergizeFailed, DomainUnlock
    <2>4. ProbeTypes'
      BY <1>3, Ends, WantedIs DEF EnergizeFailed, DomainUnlock
    <2>5. DomainTypes'
      BY <1>3, Ends, WantedIs DEF EnergizeFailed, DomainUnlock
    <2>6. Locked' /\ Powers' /\ MuxKnown' /\ Honoured'
      BY <1>3, <2>1, WantedIs
      DEF Locked, EnergizeFailed, DomainUnlock, Powers, MuxKnown, Honoured, PllIs
    <2> QED
      BY <2>2, <2>3, <2>4, <2>5, <2>6 DEF DriverTypes
  <1>4. CASE AskPowerOff
    <2>1. Wanted' = Wanted
      BY <1>4, SameWanted DEF AskPowerOff
    <2>2. DriverTypes'
      BY <1>4, Ends, WantedIs DEF AskPowerOff
    <2>3. Locked' /\ Powers' /\ MuxKnown' /\ Honoured'
      BY <1>4, <2>1, WantedIs DEF Locked, AskPowerOff, Powers, MuxKnown, Honoured, PllIs
    <2> QED
      BY <2>2, <2>3 DEF DriverTypes
  <1>5. CASE PowerOff
    <2>1. Wanted' = Wanted
      BY <1>5, SameWanted DEF PowerOff
    <2>2. PllTypes'
      BY <1>5, Ends, WantedIs DEF PowerOff, DomainUnlock
    <2>3. LockTypes'
      BY <1>5, Ends, WantedIs DEF PowerOff, DomainUnlock
    <2>4. ProbeTypes'
      BY <1>5, Ends, WantedIs DEF PowerOff, DomainUnlock
    <2>5. DomainTypes'
      BY <1>5, Ends, WantedIs DEF PowerOff, DomainUnlock
    <2>6. Locked'
      BY <1>5, <2>1, WantedIs DEF Locked, PowerOff, DomainUnlock
    <2>7. Powers'
      <3>1. CASE at' = "cut"
        BY <1>5, <2>1, WantedIs, <3>1 DEF Locked, Powers, PowerOff, DomainUnlock
      <3>2. CASE ~(at' = "cut")
        BY <1>5, <2>1, WantedIs, <3>2 DEF Locked, Powers, PowerOff, DomainUnlock
      <3> QED
        BY <3>1, <3>2
    <2>8. MuxKnown' /\ Honoured'
      BY <1>5, <2>1, WantedIs
      DEF Locked, MuxKnown, PowerOff, DomainUnlock, Honoured, PllIs
    <2> QED
      BY <2>2, <2>3, <2>4, <2>5, <2>6, <2>7, <2>8 DEF DriverTypes
  <1>6. CASE CutPower
    <2>1. Wanted' = Wanted
      BY <1>6, SameWanted DEF CutPower
    <2>2. PllTypes'
      BY <1>6, Ends, WantedIs DEF CutPower, DomainUnlock
    <2>3. LockTypes'
      BY <1>6, Ends, WantedIs DEF CutPower, DomainUnlock
    <2>4. ProbeTypes'
      BY <1>6, Ends, WantedIs DEF CutPower, DomainUnlock
    <2>5. DomainTypes'
      BY <1>6, Ends, WantedIs DEF CutPower, DomainUnlock
    <2>6. Locked'
      <3>1. CASE at' = "restore"
        BY <1>6, <2>1, WantedIs, <3>1 DEF Locked, CutPower, DomainUnlock
      <3>2. CASE ~(at' = "restore")
        BY <1>6, <2>1, WantedIs, <3>2 DEF Locked, CutPower, DomainUnlock
      <3> QED
        BY <3>1, <3>2
    <2>7. Powers'
      BY <1>6, <2>1, WantedIs DEF Locked, Powers, CutPower, DomainUnlock
    <2>8. MuxKnown'
      BY <1>6, <2>1, WantedIs DEF Locked, MuxKnown, CutPower, DomainUnlock
    <2>9. Honoured'
      BY <1>6, <2>1, WantedIs DEF Locked, Honoured, CutPower, DomainUnlock, PllIs
    <2> QED
      BY <2>2, <2>3, <2>4, <2>5, <2>6, <2>7, <2>8, <2>9 DEF DriverTypes
  <1>7. CASE RestorePower
    <2>1. Wanted' = Wanted
      BY <1>7, SameWanted DEF RestorePower
    <2>2. PllTypes'
      BY <1>7, Ends, WantedIs DEF RestorePower, DomainUnlock
    <2>3. LockTypes'
      BY <1>7, Ends, WantedIs DEF RestorePower, DomainUnlock
    <2>4. ProbeTypes'
      BY <1>7, Ends, WantedIs DEF RestorePower, DomainUnlock
    <2>5. DomainTypes'
      BY <1>7, Ends, WantedIs DEF RestorePower, DomainUnlock
    <2>6. Locked'
      <3>1. CASE genpd' = "panic"
        BY <1>7, <2>1, WantedIs, <3>1 DEF Locked, RestorePower, DomainUnlock
      <3>2. CASE ~(genpd' = "panic")
        BY <1>7, <2>1, WantedIs, <3>2 DEF Locked, RestorePower, DomainUnlock
      <3> QED
        BY <3>1, <3>2
    <2>7. Powers' /\ MuxKnown' /\ Honoured'
      BY <1>7, <2>1, WantedIs
      DEF Locked, Powers, RestorePower, DomainUnlock, MuxKnown, Honoured, PllIs
    <2> QED
      BY <2>2, <2>3, <2>4, <2>5, <2>6, <2>7 DEF DriverTypes
  <1>8. CASE SetAlwaysOn
    <2>1. Wanted' = Wanted
      BY <1>8, SameWanted DEF SetAlwaysOn
    <2>2. DriverTypes'
      BY <1>8, Ends, WantedIs DEF SetAlwaysOn
    <2>3. Locked' /\ Powers' /\ MuxKnown' /\ Honoured'
      BY <1>8, <2>1, WantedIs DEF Locked, SetAlwaysOn, Powers, MuxKnown, Honoured, PllIs
    <2> QED
      BY <2>2, <2>3 DEF DriverTypes
  <1> QED
    BY <1>1, <1>2, <1>3, <1>4, <1>5, <1>6, <1>7, <1>8 DEF PowerDomain

-----------------------------------------------------------------------------
(* The PMIC service under the driver *)

LEMMA StepCmd ==
    ASSUME NEW f \in Steps
    PROVE  RailWrite(Volt[f]) \in Cmd /\ Volt[f] \in Vals /\ Volt[f] \in Nat
  BY Table

DriverStep == SetPll \/ Request \/ Probe \/ PowerDomain

\* What a step of the driver may do to the service: one call begins or ends.
UsesOnce ==
    \/ UNCHANGED svcVars
    \/ \E c \in {"gpu", "probe"} : \/ \E k \in Cmd : Call(c, k)
                                   \/ Succeed(c) \/ Fail(c)

LEMMA DriverUsesOnce ==
    ASSUME DriverInv, DriverStep
    PROVE  UsesOnce
  <1>1. Wanted \in Steps /\ Top \in Steps /\ st \in Steps /\ (cur # Osc => cur \in Steps)
    BY WantedIs, Ends DEF DriverInv, DriverTypes, PllTypes, LockTypes
  <1>2. /\ [func |-> "read", reg |-> Buck6, val |-> 0] \in Cmd
        /\ \A f \in Steps : RailWrite(Volt[f]) \in Cmd
    BY Table DEF Cmd
  <1>3. CASE SetPll
    <2>1. CASE ApplyLater
      BY <1>1, <1>2, <2>1 DEF UsesOnce, ApplyLater
    <2>2. CASE ApplyNothing
      BY <1>1, <1>2, <2>2 DEF UsesOnce, ApplyNothing
    <2>3. CASE Oops
      BY <1>1, <1>2, <2>3 DEF UsesOnce, Oops
    <2>4. CASE ApplySetPll
      BY <1>1, <1>2, <2>4 DEF UsesOnce, ApplySetPll
    <2>5. CASE Raised
      BY <1>1, <1>2, <2>5 DEF UsesOnce, Raised
    <2>6. CASE RaiseFailed
      BY <1>1, <1>2, <2>6 DEF UsesOnce, RaiseFailed
    <2>7. CASE Away
      BY <1>1, <1>2, <2>7 DEF UsesOnce, Away
    <2>8. CASE Program
      BY <1>1, <1>2, <2>8 DEF UsesOnce, Program
    <2>9. CASE Back
      BY <1>1, <1>2, <2>9 DEF UsesOnce, Back
    <2>10. CASE Lowered
      BY <1>1, <1>2, <2>10 DEF UsesOnce, Lowered
    <2>11. CASE Undo
      BY <1>1, <1>2, <2>11 DEF UsesOnce, Undo
    <2>12. CASE Relock
      BY <1>1, <1>2, <2>12 DEF UsesOnce, Relock
    <2>13. CASE Reselect
      BY <1>1, <1>2, <2>13 DEF UsesOnce, Reselect
    <2> QED
      BY <1>3, <2>1, <2>2, <2>3, <2>4, <2>5, <2>6, <2>7, <2>8, <2>9, <2>10, <2>11,
         <2>12, <2>13
      DEF SetPll
  <1>4. CASE Request
    <2>1. ASSUME NEW e \in BOOLEAN, ToggleStart(e)
          PROVE  UsesOnce
      <3>1. CASE e = TRUE
        BY <1>1, <1>2, <2>1, <3>1 DEF UsesOnce, ToggleStart
      <3>2. CASE e = FALSE
        BY <1>1, <1>2, <2>1, <3>2 DEF UsesOnce, ToggleStart
      <3> QED
        BY <3>1, <3>2
    <2>2. CASE ToggleEnd \/ ReadStart \/ ReadEnd
      BY <1>2, <2>2 DEF UsesOnce, ToggleEnd, ReadStart, ReadEnd
    <2>3. ASSUME NEW f \in Steps, ClkSet(f) \/ SetKhz(f) \/ MaxSet(f)
          PROVE  UsesOnce
      BY <2>3 DEF UsesOnce, ClkSet, SetKhz, MaxSet
    <2> QED
      BY <1>4, <2>1, <2>2, <2>3 DEF Request, ToggleEarly, UsesOnce
  <1>5. CASE Probe
    BY <1>1, <1>2, <1>5
    DEF UsesOnce, Probe, ProbeStart, RailSet, RailWriteFailed, RailRetry, ProbeApply,
        Publish, MapFails, PublishFails, Unmap
  <1>6. CASE PowerDomain
    BY <1>6
    DEF UsesOnce, PowerDomain, PowerOn, Energized, EnergizeFailed, AskPowerOff,
        PowerOff, CutPower, RestorePower, SetAlwaysOn
  <1> QED
    BY <1>3, <1>4, <1>5, <1>6 DEF DriverStep

LEMMA UsesOnceServiceInv ==
    ASSUME ServiceInv, UsesOnce
    PROVE  ServiceInv' /\ pmic' = pmic /\ queue' = queue
  <1>1. CASE UNCHANGED svcVars
    BY <1>1, StutterServiceInv
  <1>2. ASSUME NEW c \in {"gpu", "probe"}, NEW k \in Cmd, Call(c, k)
        PROVE  ServiceInv' /\ pmic' = pmic /\ queue' = queue
    BY <1>2, CallServiceInv, Table DEF Call
  <1>3. ASSUME NEW c \in {"gpu", "probe"}, Succeed(c) \/ Fail(c)
        PROVE  ServiceInv' /\ pmic' = pmic /\ queue' = queue
    BY <1>3, SucceedServiceInv, FailServiceInv, Table DEF Succeed, Fail, Return
  <1> QED
    BY <1>1, <1>2, <1>3 DEF UsesOnce

LEMMA ServiceStepServiceInv ==
    ASSUME ServiceInv, ServiceStep
    PROVE  ServiceInv'
  BY PerformServiceInv, SubmitServiceInv, GiveUpServiceInv DEF ServiceStep

LEMMA StutterDriverInv ==
    ASSUME DriverInv, UNCHANGED g3dVars
    PROVE  DriverInv'
  <1>1. Wanted' = Wanted
    BY SameWanted DEF g3dVars
  <1> USE DEF DriverInv, g3dVars
  <1>2. DriverTypes'
    BY DEF DriverTypes, PllTypes, LockTypes, ProbeTypes, DomainTypes
  <1>3. Locked'
    BY <1>1 DEF Locked
  <1>4. Powers' /\ MuxKnown'
    BY DEF Powers, MuxKnown
  <1>5. Honoured'
    BY <1>1 DEF Honoured, PllIs
  <1> QED
    BY <1>2, <1>3, <1>4, <1>5

LEMMA InitDriverInv ==
    ASSUME Init
    PROVE  ServiceInv /\ DriverInv
  <1>1. ServiceInv
    BY InitServiceInv DEF Init
  <1>2. DriverTypes
    <2>1. PllTypes
      BY Ends DEF Init, PllTypes
    <2>2. LockTypes
      BY Ends DEF Init, LockTypes, Places
    <2>3. ProbeTypes
      <3>1. 0 \in 0..Polls /\ 0 \in 0..Attempts
        BY Ends
      <3> QED
        BY <3>1 DEF Init, ProbeTypes, ProbePlaces
    <2>4. DomainTypes
      BY DEF Init, DomainTypes
    <2> QED
      BY <2>1, <2>2, <2>3, <2>4 DEF DriverTypes
  <1>3. Locked
    BY Ends DEF Init, Locked, SetPllPlaces, Changing
  <1>4. Powers /\ MuxKnown /\ Honoured
    BY DEF Init, Powers, MuxKnown, Honoured
  <1> QED
    BY <1>1, <1>2, <1>3, <1>4 DEF DriverInv

LEMMA NextDriverInv ==
    ASSUME ServiceInv, DriverInv, [Next]_vars
    PROVE  ServiceInv' /\ DriverInv'
  <1>1. CASE DriverStep
    <2>1. DriverInv'
      BY <1>1, SetPllDriverInv, RequestDriverInv, ProbeDriverInv, PowerDomainDriverInv
      DEF DriverStep
    <2> QED
      BY <1>1, <2>1, DriverUsesOnce, UsesOnceServiceInv
  <1>2. CASE ServiceStep
    BY <1>2, ServiceStepServiceInv, StutterDriverInv DEF ServiceStep
  <1>3. CASE UNCHANGED vars
    BY <1>3, StutterServiceInv, StutterDriverInv DEF vars, g3dVars
  <1> QED
    BY <1>1, <1>2, <1>3 DEF Next, DriverStep

-----------------------------------------------------------------------------
(* What holds whatever becomes of step_volt *)

\* The driver's part of the strengthened invariant holds in every reachable
\* state, with what the service keeps.
THEOREM DriverInductive == Spec => [](ServiceInv /\ DriverInv)
  <1>1. Init => ServiceInv /\ DriverInv
    BY InitDriverInv
  <1>2. ServiceInv /\ DriverInv /\ [Next]_vars => (ServiceInv /\ DriverInv)'
    BY NextDriverInv
  <1> QED
    BY <1>1, <1>2, PTL DEF Spec

\* The driver's types, and the service's.
THEOREM TypeCorrect == Spec => []TypeOK
  <1>1. ServiceInv /\ DriverInv => TypeOK
    BY DEF ServiceInv, DriverInv, DriverTypes, PllTypes, LockTypes, ProbeTypes,
           DomainTypes, TypeOK
  <1> QED
    BY <1>1, DriverInductive, PTL

\* No cap and no ceiling is lost: s9p_g3d_apply ends at the lowest request.
THEOREM CapsHonoured == Spec => []CapHonoured
  <1>1. ServiceInv /\ DriverInv => CapHonoured
    BY DEF DriverInv, DriverTypes, PllTypes, Honoured, MuxKnown, CapHonoured, PllIs
  <1> QED
    BY <1>1, DriverInductive, PTL

\* s9p_g3d_power_on and _off: whatever fails, a domain that is on can be used.
THEOREM OnUsable == Spec => []OnIsUsable
  <1>1. ServiceInv /\ DriverInv => OnIsUsable
    BY DEF DriverInv, Powers, Locked, OnIsUsable
  <1> QED
    BY <1>1, DriverInductive, PTL

\* Seen from the PMIC, the driver is one of the service's callers.
THEOREM UsesService == Spec => ServiceSpec
  <1>1. Init => ServiceInit
    BY DEF Init
  <1>2. ServiceInv /\ DriverInv /\ [Next]_vars => [ServiceNext]_svcVars
    <2> SUFFICES ASSUME DriverInv, [Next]_vars
                 PROVE  [ServiceNext]_svcVars
      OBVIOUS
    <2>1. CASE DriverStep
      BY <2>1, DriverUsesOnce, Table DEF UsesOnce, ServiceNext
    <2>2. CASE ServiceStep
      BY <2>2 DEF ServiceStep, ServiceNext
    <2>3. CASE UNCHANGED vars
      BY <2>3 DEF vars
    <2> QED
      BY <2>1, <2>2, <2>3 DEF Next, DriverStep
  <1> QED
    BY <1>1, <1>2, DriverInductive, PTL DEF Spec, ServiceSpec

-----------------------------------------------------------------------------
(* The rail *)

\* The voltages BUCK6 has now and keeps after every command still queued.
Floor == {v \in Vals : /\ pmic[Buck6] >= v
                       /\ \A i \in 1..Len(queue) :
                            queue[i].func = "write" /\ queue[i].reg = Buck6
                              => queue[i].val >= v}

\* The call each place makes; nobody else uses the PMIC.
GpuCall ==
    /\ stage["gpu"] # "idle" <=> at \in {"raise", "lower", "toggle", "readback"}
    /\ at \in {"raise", "lower"} => step_volt /\ cmd["gpu"] = RailWrite(Volt[st])
    /\ at = "toggle" => step_volt /\ cmd["gpu"] = RailWrite(Volt[Top])
    /\ at = "readback" => cmd["gpu"].func = "read"
ProbeCall ==
    /\ probe = "write" <=> stage["probe"] # "idle"
    /\ probe = "write" => cmd["probe"] = RailWrite(Volt[Top])
NoOtherCall == \A c \in Callers \ {"gpu", "probe"} : stage[c] = "idle"

\* Before the rail is set the PLL is at most at the lowest step, and the driver
\* takes it for no less.
BeforeRail ==
    ~rail_set => /\ pms \in {Lowest, Other} /\ ~lost
                 /\ probe \notin {"start", "failed"} \/ attempts > 0 =>
                      cur \in Steps

\* Afterwards the rail is fit for the lowest step, and for the top one unless
\* it follows the steps ...
RailFit ==
    rail_set => /\ Volt[Lowest] \in Floor
                /\ ~step_volt => Volt[Top] \in Floor

\* ... and for the step the driver believes in and the one it is going to.
RailFollows ==
    rail_set /\ ~lost =>
        /\ cur \in Steps /\ Volt[cur] \in Floor
        /\ at \in Changing => /\ Volt[st] \in Floor
                              /\ pms \in {old.pms, st} /\ Voltage(old.pms) <= Volt[cur]
        /\ at \notin Changing /\ at # "oops" => Voltage(pms) <= Volt[cur]
        /\ at = "oops" => Voltage(pms) \in Floor
        /\ at = "raise" => old.pms = pms /\ Volt[cur] <= Volt[st]
        /\ at = "lower" => cur = st
        /\ at = "reselect" => pms = old.pms

RailInv == GpuCall /\ ProbeCall /\ NoOtherCall /\ BeforeRail /\ RailFit /\ RailFollows

LEMMA FloorDown ==
    ASSUME NEW v \in Floor, NEW w \in Vals, w <= v, ServiceInv
    PROVE  w \in Floor
  <1>1. /\ pmic[Buck6] \in Nat /\ v \in Nat /\ w \in Nat
        /\ \A i \in 1..Len(queue) : queue[i].val \in Nat
    <2>1. pmic[Buck6] \in Vals /\ queue \in Seq(Cmd)
      BY Table DEF ServiceInv, ServiceTypeOK
    <2>2. \A i \in 1..Len(queue) : queue[i] \in Cmd
      BY <2>1
    <2> QED
      BY <2>1, <2>2, CmdType, ServiceAssumption DEF Floor
  <1> QED
    BY <1>1 DEF Floor

LEMMA PerformFloor ==
    ASSUME ServiceInv, Perform, NEW v \in Floor
    PROVE  v \in Floor'
  <1> DEFINE k == Head(queue)
  <1>1. /\ queue \in Seq(Cmd) /\ queue # <<>> /\ queue' = Tail(queue)
        /\ pmic \in [Regs -> Vals] /\ Buck6 \in Regs
    BY Table DEF Perform, ServiceInv, ServiceTypeOK
  <1>2. /\ k \in Cmd /\ k = queue[1] /\ 1 \in 1..Len(queue)
        /\ Len(queue') = Len(queue) - 1 /\ Len(queue) \in Nat
        /\ \A i \in 1 .. Len(queue) - 1 : queue'[i] = queue[i + 1]
    BY <1>1, TailEntries
  <1>3. k.reg \in Regs /\ k.val \in Vals
    BY <1>2, CmdType
  <1>4. \/ pmic'[Buck6] = pmic[Buck6]
        \/ k.func = "write" /\ k.reg = Buck6 /\ pmic'[Buck6] = k.val
    BY <1>1, <1>3 DEF Perform
  <1>5. pmic'[Buck6] >= v
    BY <1>2, <1>4 DEF Floor
  <1>6. ASSUME NEW i \in 1..Len(queue'), queue'[i].func = "write", queue'[i].reg = Buck6
        PROVE  queue'[i].val >= v
    <2>1. i + 1 \in 1..Len(queue) /\ queue'[i] = queue[i + 1]
      BY <1>2
    <2> QED
      BY <1>6, <2>1 DEF Floor
  <1> QED
    BY <1>5, <1>6 DEF Floor

LEMMA SubmitFloor ==
    ASSUME ServiceInv, NEW c \in Callers, Submit(c), NEW v \in Floor,
           cmd[c].func = "write" /\ cmd[c].reg = Buck6 => cmd[c].val >= v
    PROVE  v \in Floor'
  <1>1. /\ queue \in Seq(Cmd) /\ queue' = Append(queue, cmd[c]) /\ pmic' = pmic
        /\ cmd[c] \in Cmd
    BY DEF Submit, ServiceInv, ServiceTypeOK, CallHasCmd
  <1>2. /\ Len(queue') = Len(queue) + 1 /\ Len(queue) \in Nat
        /\ queue'[Len(queue) + 1] = cmd[c]
        /\ \A i \in 1..Len(queue) : queue'[i] = queue[i]
    BY <1>1
  <1>3. ASSUME NEW i \in 1..Len(queue'), queue'[i].func = "write", queue'[i].reg = Buck6
        PROVE  queue'[i].val >= v
    <2>1. CASE i = Len(queue) + 1
      BY <1>2, <1>3, <2>1
    <2>2. CASE i \in 1..Len(queue)
      BY <1>2, <1>3, <2>2 DEF Floor
    <2> QED
      BY <1>2, <2>1, <2>2
  <1> QED
    BY <1>1, <1>3 DEF Floor

LEMMA SameFloor ==
    ASSUME pmic' = pmic, queue' = queue
    PROVE  Floor' = Floor
  BY DEF Floor

\* A rail write that succeeded is what the rail has.
LEMMA SucceedFloor ==
    ASSUME ServiceInv, NEW c \in Callers, Succeed(c), answer.rc = "ok",
           NEW f \in Steps, cmd[c] = RailWrite(Volt[f])
    PROVE  Volt[f] \in Floor'
  <1>1. queue = <<>> /\ pmic[Buck6] = Volt[f]
    BY DEF ServiceInv, AnsweredIsSettled, Succeed, RailWrite
  <1>2. queue' = <<>> /\ pmic'[Buck6] = Volt[f] /\ Volt[f] \in Vals /\ Volt[f] \in Nat
    BY <1>1, StepCmd DEF Succeed, Return
  <1> QED
    BY <1>2 DEF Floor

\* What a call that begins or ends does to the calls.
LEMMA CallBegins ==
    ASSUME ServiceInv, NEW c \in Callers, NEW k, Call(c, k)
    PROVE  /\ stage[c] = "idle" /\ stage'[c] = "open" /\ cmd'[c] = k
           /\ \A d \in Callers : d # c => stage'[d] = stage[d] /\ cmd'[d] = cmd[d]
  BY DEF Call, ServiceInv, ServiceTypeOK

LEMMA CallEnds ==
    ASSUME ServiceInv, NEW c \in Callers, Succeed(c) \/ Fail(c)
    PROVE  /\ stage'[c] = "idle"
           /\ \A d \in Callers : d # c => stage'[d] = stage[d] /\ cmd'[d] = cmd[d]
  BY DEF Succeed, Fail, Return, ServiceInv, ServiceTypeOK

-----------------------------------------------------------------------------
LEMMA ServiceStepFloor ==
    ASSUME ServiceInv, DriverInv, RailInv, ServiceStep, rail_set, NEW v \in Floor,
           \/ v = Volt[Lowest] \/ ~step_volt \/ at \in Changing \cup {"oops"}
           \/ ~lost /\ v = Volt[cur]
    PROVE  v \in Floor'
  <1>1. CASE Perform
    BY <1>1, PerformFloor
  <1>2. ASSUME NEW c \in Callers, GiveUp(c)
        PROVE  v \in Floor'
    BY <1>2, SameFloor DEF GiveUp
  <1>3. ASSUME NEW c \in Callers, Submit(c)
        PROVE  v \in Floor'
    <2>1. c = "gpu"
      BY <1>3 DEF Submit, RailInv, NoOtherCall, ProbeCall, DriverInv, Locked
    <2>2. /\ at \in {"raise", "lower", "toggle", "readback"}
          /\ at \notin Changing /\ at # "oops"
          /\ st \in Steps /\ Lowest \in Steps /\ Top \in Steps
      BY <1>3, <2>1, Ends
      DEF Submit, RailInv, GpuCall, Changing, DriverInv, DriverTypes, LockTypes
    <2>3. CASE at = "readback"
      BY <1>3, <2>1, <2>3, SubmitFloor DEF RailInv, GpuCall
    <2>4. CASE at # "readback"
      <3>1. /\ step_volt /\ cmd[c].val \in {Volt[st], Volt[Top]}
            /\ at = "toggle" => cmd[c].val = Volt[Top]
            /\ at # "toggle" => cmd[c].val = Volt[st]
        BY <2>1, <2>2, <2>4 DEF RailInv, GpuCall, RailWrite
      <3>2. CASE v = Volt[Lowest]
        <4>1. cmd[c].val >= v
          BY <2>2, <3>1, <3>2, Table
        <4> QED
          BY <1>3, <4>1, SubmitFloor
      <3>3. CASE ~lost /\ v = Volt[cur]
        <4>1. /\ cur \in Steps
              /\ at = "raise" => Volt[cur] <= Volt[st]
              /\ at = "lower" => cur = st
          BY <3>3 DEF RailInv, RailFollows
        <4>2. Volt[cur] <= Volt[Top] /\ Volt[cur] \in Nat /\ Volt[Top] \in Nat /\ Volt[st] \in Nat
          BY <2>2, <4>1, Table
        <4>3. cmd[c].val >= v
          BY <2>2, <2>4, <3>1, <3>3, <4>1, <4>2
        <4> QED
          BY <1>3, <4>3, SubmitFloor
      <3> QED
        BY <2>2, <3>1, <3>2, <3>3
    <2> QED
      BY <2>3, <2>4
  <1> QED
    BY <1>1, <1>2, <1>3 DEF ServiceStep

LEMMA ServiceStepRailInv ==
    ASSUME ServiceInv, DriverInv, RailInv, ServiceStep
    PROVE  RailInv'
  <1>1. UNCHANGED g3dVars
    BY DEF ServiceStep
  <1>2. /\ cmd' = cmd
        /\ \A c \in Callers : stage'[c] = "idle" <=> stage[c] = "idle"
    BY DEF ServiceStep, Perform, Submit, GiveUp, ServiceInv, ServiceTypeOK
  <1>3. GpuCall' /\ ProbeCall' /\ NoOtherCall'
    <2>1. {"gpu", "probe"} \subseteq Callers
      BY Table
    <2> QED
      BY <1>1, <1>2, <2>1
      DEF RailInv, GpuCall, ProbeCall, NoOtherCall, RailWrite, g3dVars
  <1>4. BeforeRail'
    BY <1>1 DEF RailInv, BeforeRail, g3dVars
  <1>5. RailFit'
    BY <1>1, ServiceStepFloor DEF RailInv, RailFit, g3dVars
  <1>6. RailFollows'
    <2>1. at = "oops" /\ rail_set /\ ~lost => Voltage(pms) \in Floor'
      BY ServiceStepFloor DEF RailInv, RailFollows
    <2> QED
      BY <1>1, <2>1, ServiceStepFloor DEF RailInv, RailFollows, Voltage, g3dVars
  <1> QED
    BY <1>3, <1>4, <1>5, <1>6 DEF RailInv

-----------------------------------------------------------------------------
LEMMA FloorStays ==
    ASSUME ServiceInv, DriverInv, DriverStep
    PROVE  Floor' = Floor
  BY DriverUsesOnce, UsesOnceServiceInv, SameFloor

\* The table's order, for the proofs below.
LEMMA Rising ==
    /\ Lowest \in Steps /\ Top \in Steps /\ Other \notin Steps /\ Osc \notin Steps
    /\ \A f \in Steps : /\ f \in Nat /\ Volt[f] \in Nat /\ Volt[f] \in Vals
                        /\ Volt[Lowest] <= Volt[f] /\ Volt[f] <= Volt[Top]
    /\ \A f, g \in Steps : f <= g => Volt[f] <= Volt[g]
  BY Table, ServiceAssumption DEF Other, Osc

LEMMA SetPllRailInv ==
    ASSUME ServiceInv, DriverInv, RailInv, SetPll
    PROVE  RailInv'
  <1>1. Floor' = Floor /\ {"gpu", "probe"} \subseteq Callers
    BY FloorStays, Table DEF DriverStep
  <1> USE DEF RailInv, DriverInv, DriverTypes, PllTypes, LockTypes, ProbeTypes, DomainTypes,
              Changing, SetPllPlaces, Places, ProbePlaces
  <1>2. CASE ApplyLater
    <2>1. stage' = stage /\ cmd' = cmd
      BY <1>2 DEF ApplyLater
    <2>2. GpuCall' /\ ProbeCall' /\ NoOtherCall'
      BY <1>1, <1>2, <2>1
      DEF GpuCall, Locked, RailWrite, ApplyLater, Unlock, NoLocals, ProbeCall,
          NoOtherCall
    <2>3. BeforeRail' /\ RailFit' /\ RailFollows'
      BY <1>1, <1>2, <2>1, Rising
      DEF BeforeRail, Locked, ApplyLater, Unlock, NoLocals, RailFit, RailFollows,
          Voltage
    <2> QED
      BY <2>2, <2>3
  <1>3. CASE ApplyNothing
    <2>1. stage' = stage /\ cmd' = cmd
      BY <1>3 DEF ApplyNothing
    <2>2. GpuCall' /\ ProbeCall' /\ NoOtherCall'
      BY <1>1, <1>3, <2>1, WantedIs
      DEF GpuCall, Locked, RailWrite, ApplyNothing, Unlock, NoLocals, PllIs, ProbeCall,
          NoOtherCall
    <2>3. BeforeRail' /\ RailFit'
      BY <1>1, <1>3, <2>1, Rising, WantedIs
      DEF BeforeRail, Locked, ApplyNothing, Unlock, NoLocals, PllIs, RailFit
    <2>4. RailFollows'
      <3>1. pms = Wanted /\ Wanted \in Steps /\ cur' = Wanted
        BY <1>3, WantedIs DEF ApplyNothing, PllIs
      <3>2. ~lost => Volt[Wanted] \in Floor
        <4>1. ~lost => /\ cur \in Steps /\ Volt[cur] \in Floor
                       /\ Volt[Wanted] <= Volt[cur]
          BY <1>3, <3>1, Rising DEF ApplyNothing, Locked, RailFollows, Voltage
        <4> QED
          BY <3>1, <4>1, Rising, FloorDown
      <3> QED
        BY <1>1, <1>3, <3>1, <3>2, Rising DEF RailFollows, Voltage, ApplyNothing, Unlock
    <2> QED
      BY <2>2, <2>3, <2>4
  <1>4. CASE Oops
    <2>1. stage' = stage /\ cmd' = cmd
      BY <1>4 DEF Oops
    <2>2. GpuCall' /\ ProbeCall' /\ NoOtherCall'
      BY <1>1, <1>4, <2>1
      DEF GpuCall, Locked, RailWrite, Oops, ProbeCall, NoOtherCall
    <2>3. BeforeRail' /\ RailFit'
      BY <1>1, <1>4, <2>1, Rising DEF BeforeRail, Locked, Oops, RailFit
    <2>4. ~lost => Voltage(pms) \in Floor
      <3> SUFFICES ASSUME ~lost
                   PROVE  Voltage(pms) \in Floor
        OBVIOUS
      <3>1. /\ cur \in Steps /\ Volt[cur] \in Floor /\ st \in Steps
            /\ pms \in Steps \cup {Other}
            /\ Voltage(pms) <= Volt[cur] \/ (pms = st /\ Volt[st] \in Floor)
        BY <1>4 DEF Oops, Locked, RailFollows
      <3>2. Voltage(pms) \in Vals /\ Voltage(st) = Volt[st]
        BY <3>1, Rising DEF Voltage
      <3> QED
        BY <3>1, <3>2, Rising, FloorDown
    <2>5. RailFollows'
      BY <1>1, <1>4, <2>1, <2>4, Rising DEF Locked, Oops, RailFollows, Voltage
    <2> QED
      BY <2>2, <2>3, <2>5
  <1>5. CASE ApplySetPll
    <2>1. /\ \/ UNCHANGED svcVars /\ at' # "raise"
             \/ /\ stage'["gpu"] = "open" /\ cmd'["gpu"] = RailWrite(Volt[Wanted])
                /\ at' = "raise" /\ step_volt
          /\ \A d \in Callers : d # "gpu" => stage'[d] = stage[d] /\ cmd'[d] = cmd[d]
      BY <1>5, <1>1, CallBegins DEF ApplySetPll, PllIs
    <2>2. GpuCall' /\ ProbeCall' /\ NoOtherCall'
      BY <1>1, <1>5, <2>1, WantedIs
      DEF GpuCall, Locked, RailWrite, ApplySetPll, PllIs, ProbeCall, NoOtherCall
    <2>3. BeforeRail' /\ RailFit'
      BY <1>1, <1>5, <2>1, Rising, WantedIs
      DEF BeforeRail, Locked, ApplySetPll, PllIs, RailFit
    <2>4. RailFollows'
      <3>1. /\ rail_set /\ Wanted \in Steps /\ st' = Wanted /\ old'.pms = pms
            /\ pms' = pms /\ cur' = cur /\ lost' = lost
            /\ at' \in {"raise", "away"}
            /\ at' = "raise" => cur < Wanted
            /\ at' = "away" => ~step_volt \/ ~(cur < Wanted)
        BY <1>5, WantedIs DEF ApplySetPll, Locked
      <3>2. ~lost => /\ cur \in Steps /\ Volt[cur] \in Floor
                     /\ Voltage(pms) <= Volt[cur]
        BY <1>5, <3>1 DEF ApplySetPll, RailFollows
      <3>3. ~lost /\ at' = "away" => Volt[Wanted] \in Floor
        <4>1. CASE ~step_volt
          BY <3>1, <4>1, Rising, FloorDown DEF RailFit
        <4>2. CASE ~(cur < Wanted)
          BY <3>1, <3>2, <4>2, Rising, FloorDown
        <4> QED
          BY <3>1, <4>1, <4>2
      <3>4. ~lost /\ at' = "raise" => Volt[cur] <= Volt[Wanted]
        BY <3>1, <3>2, Rising
      <3> QED
        BY <1>1, <3>1, <3>2, <3>3, <3>4 DEF RailFollows, Voltage
    <2> QED
      BY <2>2, <2>3, <2>4
  <1>6. CASE Raised
    <2>1. /\ stage'["gpu"] = "idle"
          /\ \A d \in Callers : d # "gpu" => stage'[d] = stage[d] /\ cmd'[d] = cmd[d]
      BY <1>6, <1>1, CallEnds DEF Raised
    <2>2. GpuCall' /\ ProbeCall' /\ NoOtherCall'
      BY <1>1, <1>6, <2>1 DEF GpuCall, Locked, RailWrite, Raised, ProbeCall, NoOtherCall
    <2>3. BeforeRail' /\ RailFit' /\ RailFollows'
      BY <1>1, <1>6, <2>1, Rising, SucceedFloor
      DEF BeforeRail, Locked, Raised, RailFit, GpuCall, RailFollows, Voltage
    <2> QED
      BY <2>2, <2>3
  <1>7. CASE RaiseFailed
    <2>1. /\ stage'["gpu"] = "idle"
          /\ \A d \in Callers : d # "gpu" => stage'[d] = stage[d] /\ cmd'[d] = cmd[d]
      BY <1>7, <1>1, CallEnds DEF RaiseFailed
    <2>2. GpuCall' /\ ProbeCall' /\ NoOtherCall'
      BY <1>1, <1>7, <2>1
      DEF GpuCall, Locked, RailWrite, RaiseFailed, Unlock, NoLocals, ProbeCall,
          NoOtherCall
    <2>3. BeforeRail' /\ RailFit' /\ RailFollows'
      BY <1>1, <1>7, <2>1, Rising
      DEF BeforeRail, Locked, RaiseFailed, Unlock, NoLocals, RailFit, RailFollows,
          Voltage
    <2> QED
      BY <2>2, <2>3
  <1>8. CASE Away
    <2>1. stage' = stage /\ cmd' = cmd
      BY <1>8 DEF Away
    <2>2. GpuCall' /\ ProbeCall' /\ NoOtherCall'
      BY <1>1, <1>8, <2>1
      DEF GpuCall, Locked, RailWrite, Away, Switch, ProbeCall, NoOtherCall
    <2>3. BeforeRail' /\ RailFit' /\ RailFollows'
      BY <1>1, <1>8, <2>1, Rising
      DEF BeforeRail, Locked, Away, Switch, RailFit, RailFollows, Voltage
    <2> QED
      BY <2>2, <2>3
  <1>9. CASE Program
    <2>1. stage' = stage /\ cmd' = cmd
      BY <1>9 DEF Program
    <2>2. GpuCall' /\ ProbeCall' /\ NoOtherCall'
      BY <1>1, <1>9, <2>1
      DEF GpuCall, Locked, RailWrite, Program, ProbeCall, NoOtherCall
    <2>3. BeforeRail' /\ RailFit' /\ RailFollows'
      BY <1>1, <1>9, <2>1, Rising
      DEF BeforeRail, Locked, Program, RailFit, RailFollows, Voltage
    <2> QED
      BY <2>2, <2>3
  <1>10. CASE Back
    <2>1. /\ \/ UNCHANGED svcVars /\ at' # "lower"
             \/ /\ stage'["gpu"] = "open" /\ cmd'["gpu"] = RailWrite(Volt[st])
                /\ at' = "lower" /\ step_volt
          /\ \A d \in Callers : d # "gpu" => stage'[d] = stage[d] /\ cmd'[d] = cmd[d]
      BY <1>10, <1>1, CallBegins DEF Back, Unlock, NoLocals
    <2>2. GpuCall' /\ ProbeCall' /\ NoOtherCall'
      BY <1>1, <1>10, <2>1
      DEF GpuCall, Locked, RailWrite, Back, Unlock, NoLocals, ProbeCall, NoOtherCall
    <2>3. BeforeRail' /\ RailFit' /\ RailFollows'
      BY <1>1, <1>10, <2>1, Rising
      DEF BeforeRail, Locked, Back, Unlock, NoLocals, RailFit, RailFollows, Voltage,
          Honoured, PllIs
    <2> QED
      BY <2>2, <2>3
  <1>11. CASE Lowered
    <2>1. /\ stage'["gpu"] = "idle"
          /\ \A d \in Callers : d # "gpu" => stage'[d] = stage[d] /\ cmd'[d] = cmd[d]
      BY <1>11, <1>1, CallEnds DEF Lowered
    <2>2. GpuCall' /\ ProbeCall' /\ NoOtherCall'
      BY <1>1, <1>11, <2>1
      DEF GpuCall, Locked, RailWrite, Lowered, Unlock, NoLocals, ProbeCall, NoOtherCall
    <2>3. BeforeRail' /\ RailFit' /\ RailFollows'
      BY <1>1, <1>11, <2>1, Rising
      DEF BeforeRail, Locked, Lowered, Unlock, NoLocals, RailFit, RailFollows, Voltage,
          Honoured, PllIs
    <2> QED
      BY <2>2, <2>3
  <1>12. CASE Undo
    <2>1. stage' = stage /\ cmd' = cmd
      BY <1>12 DEF Undo
    <2>2. GpuCall' /\ ProbeCall' /\ NoOtherCall'
      BY <1>1, <1>12, <2>1
      DEF GpuCall, Locked, RailWrite, Undo, RollbackFailed, Unlock, NoLocals, ProbeCall,
          NoOtherCall
    <2>3. BeforeRail' /\ RailFit' /\ RailFollows'
      BY <1>1, <1>12, <2>1, Rising
      DEF BeforeRail, Locked, Undo, RollbackFailed, Unlock, NoLocals, RailFit,
          RailFollows, Voltage
    <2> QED
      BY <2>2, <2>3
  <1>13. CASE Relock
    <2>1. stage' = stage /\ cmd' = cmd
      BY <1>13 DEF Relock
    <2>2. GpuCall' /\ ProbeCall' /\ NoOtherCall'
      BY <1>1, <1>13, <2>1
      DEF GpuCall, Locked, RailWrite, Relock, RollbackFailed, Unlock, NoLocals,
          ProbeCall, NoOtherCall
    <2>3. BeforeRail' /\ RailFit' /\ RailFollows'
      BY <1>1, <1>13, <2>1, Rising
      DEF BeforeRail, Locked, Relock, RollbackFailed, Unlock, NoLocals, RailFit,
          RailFollows, Voltage
    <2> QED
      BY <2>2, <2>3
  <1>14. CASE Reselect
    <2>1. stage' = stage /\ cmd' = cmd
      BY <1>14 DEF Reselect
    <2>2. GpuCall' /\ ProbeCall' /\ NoOtherCall'
      BY <1>1, <1>14, <2>1
      DEF GpuCall, Locked, RailWrite, Reselect, Unlock, NoLocals, RollbackFailed,
          ProbeCall, NoOtherCall
    <2>3. BeforeRail' /\ RailFit' /\ RailFollows'
      BY <1>1, <1>14, <2>1, Rising
      DEF BeforeRail, Locked, Reselect, Unlock, NoLocals, RollbackFailed, RailFit,
          RailFollows, Voltage
    <2> QED
      BY <2>2, <2>3
  <1> QED
    BY <1>2, <1>3, <1>4, <1>5, <1>6, <1>7, <1>8, <1>9, <1>10, <1>11, <1>12, <1>13, <1>14
    DEF SetPll

LEMMA RequestRailInv ==
    ASSUME ServiceInv, DriverInv, RailInv, ~LateEnable, Request
    PROVE  RailInv'
  <1>1. Floor' = Floor /\ {"gpu", "probe"} \subseteq Callers
    BY FloorStays, Table DEF DriverStep
  <1> USE DEF RailInv, DriverInv, DriverTypes, PllTypes, LockTypes, ProbeTypes, DomainTypes,
              Changing, SetPllPlaces, Places, ProbePlaces
  <1>2. ASSUME NEW f \in Steps, ClkSet(f)
        PROVE  RailInv'
    <2>1. stage' = stage /\ cmd' = cmd
      BY <1>2 DEF ClkSet
    <2>2. GpuCall' /\ ProbeCall' /\ NoOtherCall'
      BY <1>1, <1>2, <2>1
      DEF GpuCall, Locked, RailWrite, ClkSet, Lock, ProbeCall, NoOtherCall
    <2>3. BeforeRail' /\ RailFit' /\ RailFollows'
      BY <1>1, <1>2, <2>1, Rising
      DEF BeforeRail, Locked, ClkSet, Lock, RailFit, RailFollows, Voltage
    <2> QED
      BY <2>2, <2>3
  <1>3. ASSUME NEW f \in Steps, SetKhz(f)
        PROVE  RailInv'
    <2>1. stage' = stage /\ cmd' = cmd
      BY <1>3 DEF SetKhz
    <2>2. GpuCall' /\ ProbeCall' /\ NoOtherCall'
      BY <1>1, <1>3, <2>1
      DEF GpuCall, Locked, RailWrite, SetKhz, Lock, ProbeCall, NoOtherCall
    <2>3. BeforeRail' /\ RailFit' /\ RailFollows'
      BY <1>1, <1>3, <2>1, Rising
      DEF BeforeRail, Locked, SetKhz, Lock, RailFit, RailFollows, Voltage
    <2> QED
      BY <2>2, <2>3
  <1>4. ASSUME NEW f \in Steps, MaxSet(f)
        PROVE  RailInv'
    <2>1. stage' = stage /\ cmd' = cmd
      BY <1>4 DEF MaxSet
    <2>2. GpuCall' /\ ProbeCall' /\ NoOtherCall'
      BY <1>1, <1>4, <2>1
      DEF GpuCall, Locked, RailWrite, MaxSet, Lock, ProbeCall, NoOtherCall
    <2>3. BeforeRail' /\ RailFit' /\ RailFollows'
      BY <1>1, <1>4, <2>1, Rising
      DEF BeforeRail, Locked, MaxSet, Lock, RailFit, RailFollows, Voltage
    <2> QED
      BY <2>2, <2>3
  <1>5. ASSUME NEW e \in BOOLEAN, ToggleStart(e)
        PROVE  RailInv'
    <2>1. /\ stage'["gpu"] = "open" /\ cmd'["gpu"] = RailWrite(IF e THEN Volt[cur] ELSE Volt[Top])
          /\ \A d \in Callers : d # "gpu" => stage'[d] = stage[d] /\ cmd'[d] = cmd[d]
      BY <1>5, <1>1, CallBegins DEF ToggleStart
    <2>2. GpuCall' /\ ProbeCall' /\ NoOtherCall'
      BY <1>1, <1>5, <2>1
      DEF GpuCall, Locked, RailWrite, ToggleStart, Lock, ProbeCall, NoOtherCall
    <2>3. BeforeRail' /\ RailFit' /\ RailFollows'
      BY <1>1, <1>5, <2>1, Rising
      DEF BeforeRail, Locked, ToggleStart, Lock, RailFit, RailFollows, Voltage
    <2> QED
      BY <2>2, <2>3
  <1>6. CASE ToggleEnd
    <2>1. /\ stage'["gpu"] = "idle"
          /\ \A d \in Callers : d # "gpu" => stage'[d] = stage[d] /\ cmd'[d] = cmd[d]
      BY <1>6, <1>1, CallEnds DEF ToggleEnd
    <2>2. GpuCall' /\ ProbeCall' /\ NoOtherCall'
      BY <1>1, <1>6, <2>1
      DEF GpuCall, Locked, RailWrite, ToggleEnd, Unlock, NoLocals, ProbeCall,
          NoOtherCall
    <2>3. BeforeRail' /\ RailFit' /\ RailFollows'
      BY <1>1, <1>6, <2>1, Rising, SucceedFloor
      DEF BeforeRail, Locked, ToggleEnd, Unlock, NoLocals, RailFit, GpuCall,
          RailFollows, Voltage
    <2> QED
      BY <2>2, <2>3
  <1>7. CASE ToggleEarly
    <2>1. stage' = stage /\ cmd' = cmd
      BY <1>7 DEF ToggleEarly
    <2>2. GpuCall' /\ ProbeCall' /\ NoOtherCall'
      BY <1>1, <1>7, <2>1
      DEF GpuCall, Locked, RailWrite, ToggleEarly, ProbeCall, NoOtherCall
    <2>3. BeforeRail' /\ RailFit' /\ RailFollows'
      BY <1>1, <1>7, <2>1, Rising
      DEF BeforeRail, Locked, ToggleEarly, RailFit, RailFollows, Voltage
    <2> QED
      BY <2>2, <2>3
  <1>8. CASE ReadStart
    <2>1. /\ stage'["gpu"] = "open" /\ cmd'["gpu"] = [func |-> "read", reg |-> Buck6, val |-> 0]
          /\ \A d \in Callers : d # "gpu" => stage'[d] = stage[d] /\ cmd'[d] = cmd[d]
      BY <1>8, <1>1, CallBegins DEF ReadStart
    <2>2. GpuCall' /\ ProbeCall' /\ NoOtherCall'
      BY <1>1, <1>8, <2>1
      DEF GpuCall, Locked, RailWrite, ReadStart, Lock, ProbeCall, NoOtherCall
    <2>3. BeforeRail' /\ RailFit' /\ RailFollows'
      BY <1>1, <1>8, <2>1, Rising
      DEF BeforeRail, Locked, ReadStart, Lock, RailFit, RailFollows, Voltage
    <2> QED
      BY <2>2, <2>3
  <1>9. CASE ReadEnd
    <2>1. /\ stage'["gpu"] = "idle"
          /\ \A d \in Callers : d # "gpu" => stage'[d] = stage[d] /\ cmd'[d] = cmd[d]
      BY <1>9, <1>1, CallEnds DEF ReadEnd
    <2>2. GpuCall' /\ ProbeCall' /\ NoOtherCall'
      BY <1>1, <1>9, <2>1
      DEF GpuCall, Locked, RailWrite, ReadEnd, Unlock, NoLocals, ProbeCall, NoOtherCall
    <2>3. BeforeRail' /\ RailFit' /\ RailFollows'
      BY <1>1, <1>9, <2>1, Rising
      DEF BeforeRail, Locked, ReadEnd, Unlock, NoLocals, RailFit, RailFollows, Voltage
    <2> QED
      BY <2>2, <2>3
  <1> QED
    BY <1>2, <1>3, <1>4, <1>5, <1>6, <1>7, <1>8, <1>9 DEF Request

LEMMA ProbeRailInv ==
    ASSUME ServiceInv, DriverInv, RailInv, Probe
    PROVE  RailInv'
  <1>1. Floor' = Floor /\ {"gpu", "probe"} \subseteq Callers
    BY FloorStays, Table DEF DriverStep
  <1> USE DEF RailInv, DriverInv, DriverTypes, PllTypes, LockTypes, ProbeTypes, DomainTypes,
              Changing, SetPllPlaces, Places, ProbePlaces
  <1>2. CASE ProbeStart
    <2>1. /\ stage'["probe"] = "open" /\ cmd'["probe"] = RailWrite(Volt[Top])
          /\ \A d \in Callers : d # "probe" => stage'[d] = stage[d] /\ cmd'[d] = cmd[d]
      BY <1>2, <1>1, CallBegins DEF ProbeStart
    <2>2. GpuCall' /\ ProbeCall' /\ NoOtherCall'
      BY <1>1, <1>2, <2>1
      DEF GpuCall, Locked, RailWrite, ProbeStart, PllIs, ProbeCall, NoOtherCall
    <2>3. BeforeRail' /\ RailFit' /\ RailFollows'
      BY <1>1, <1>2, <2>1, Rising
      DEF BeforeRail, Locked, ProbeStart, PllIs, RailFit, RailFollows, Voltage
    <2> QED
      BY <2>2, <2>3
  <1>3. CASE RailSet
    <2>1. /\ stage'["probe"] = "idle"
          /\ \A d \in Callers : d # "probe" => stage'[d] = stage[d] /\ cmd'[d] = cmd[d]
      BY <1>3, <1>1, CallEnds DEF RailSet
    <2>2. GpuCall' /\ ProbeCall' /\ NoOtherCall'
      BY <1>1, <1>3, <2>1
      DEF GpuCall, Locked, RailWrite, RailSet, ProbeCall, NoOtherCall
    <2>3. BeforeRail'
      BY <1>1, <1>3, <2>1, Rising DEF BeforeRail, Locked, RailSet
    <2>4. \A f \in Steps : Volt[f] \in Floor
      <3>1. Volt[Top] \in Floor
        BY <1>1, <1>3, Rising, SucceedFloor DEF ProbeCall, RailSet
      <3> QED
        BY <3>1, Rising, FloorDown
    <2>5. RailFit'
      BY <1>1, <1>3, <2>4, Rising DEF RailFit, RailSet
    <2>6. RailFollows'
      BY <1>1, <1>3, <2>4, Rising DEF RailFollows, BeforeRail, Locked, Voltage, RailSet
    <2> QED
      BY <2>2, <2>3, <2>4, <2>5, <2>6
  <1>4. CASE RailWriteFailed
    <2>1. /\ stage'["probe"] = "idle"
          /\ \A d \in Callers : d # "probe" => stage'[d] = stage[d] /\ cmd'[d] = cmd[d]
      BY <1>4, <1>1, CallEnds DEF RailWriteFailed
    <2>2. GpuCall' /\ ProbeCall' /\ NoOtherCall'
      BY <1>1, <1>4, <2>1
      DEF GpuCall, Locked, RailWrite, RailWriteFailed, ProbeCall, NoOtherCall
    <2>3. BeforeRail' /\ RailFit' /\ RailFollows'
      BY <1>1, <1>4, <2>1, Rising
      DEF BeforeRail, Locked, RailWriteFailed, RailFit, RailFollows, Voltage
    <2> QED
      BY <2>2, <2>3
  <1>5. CASE RailRetry
    <2>1. /\ stage'["probe"] = "open" /\ cmd'["probe"] = RailWrite(Volt[Top])
          /\ \A d \in Callers : d # "probe" => stage'[d] = stage[d] /\ cmd'[d] = cmd[d]
      BY <1>5, <1>1, CallBegins DEF RailRetry
    <2>2. GpuCall' /\ ProbeCall' /\ NoOtherCall'
      BY <1>1, <1>5, <2>1
      DEF GpuCall, Locked, RailWrite, RailRetry, ProbeCall, NoOtherCall
    <2>3. BeforeRail' /\ RailFit' /\ RailFollows'
      BY <1>1, <1>5, <2>1, Rising
      DEF BeforeRail, Locked, RailRetry, RailFit, RailFollows, Voltage
    <2> QED
      BY <2>2, <2>3
  <1>6. CASE ProbeApply
    <2>1. stage' = stage /\ cmd' = cmd
      BY <1>6 DEF ProbeApply
    <2>2. GpuCall' /\ ProbeCall' /\ NoOtherCall'
      BY <1>1, <1>6, <2>1
      DEF GpuCall, Locked, RailWrite, ProbeApply, Lock, ProbeCall, NoOtherCall
    <2>3. BeforeRail' /\ RailFit' /\ RailFollows'
      BY <1>1, <1>6, <2>1, Rising
      DEF BeforeRail, Locked, ProbeApply, Lock, RailFit, RailFollows, Voltage
    <2> QED
      BY <2>2, <2>3
  <1>7. CASE Publish \/ MapFails \/ PublishFails \/ Unmap
    <2> USE DEF Publish, MapFails, PublishFails, Unmap
    <2>1. stage' = stage /\ cmd' = cmd
      BY <1>7
    <2>2. GpuCall' /\ ProbeCall' /\ NoOtherCall'
      BY <1>1, <1>7, <2>1 DEF GpuCall, Locked, RailWrite, ProbeCall, NoOtherCall
    <2>3. BeforeRail' /\ RailFit' /\ RailFollows'
      BY <1>1, <1>7, <2>1, Rising
      DEF BeforeRail, Locked, RailFit, RailFollows, Voltage
    <2> QED
      BY <2>2, <2>3
  <1> QED
    BY <1>2, <1>3, <1>4, <1>5, <1>6, <1>7 DEF Probe

LEMMA PowerDomainRailInv ==
    ASSUME ServiceInv, DriverInv, RailInv, PowerDomain
    PROVE  RailInv'
  <1>1. Floor' = Floor /\ {"gpu", "probe"} \subseteq Callers
    BY FloorStays, Table DEF DriverStep
  <1> USE DEF RailInv, DriverInv, DriverTypes, PllTypes, LockTypes, ProbeTypes, DomainTypes,
              Changing, SetPllPlaces, Places, ProbePlaces
  <1>2. CASE PowerOn
    <2>1. stage' = stage /\ cmd' = cmd
      BY <1>2 DEF PowerOn
    <2>2. GpuCall' /\ ProbeCall' /\ NoOtherCall'
      BY <1>1, <1>2, <2>1
      DEF GpuCall, Locked, RailWrite, PowerOn, Lock, ProbeCall, NoOtherCall
    <2>3. BeforeRail' /\ RailFit' /\ RailFollows'
      BY <1>1, <1>2, <2>1, Rising
      DEF BeforeRail, Locked, PowerOn, Lock, RailFit, RailFollows, Voltage
    <2> QED
      BY <2>2, <2>3
  <1>3. CASE Energized
    <2>1. stage' = stage /\ cmd' = cmd
      BY <1>3 DEF Energized
    <2>2. GpuCall' /\ ProbeCall' /\ NoOtherCall'
      BY <1>1, <1>3, <2>1
      DEF GpuCall, Locked, RailWrite, Energized, DomainUnlock, ProbeCall, NoOtherCall
    <2>3. BeforeRail' /\ RailFit' /\ RailFollows'
      BY <1>1, <1>3, <2>1, Rising
      DEF BeforeRail, Locked, Energized, DomainUnlock, RailFit, RailFollows, Voltage
    <2> QED
      BY <2>2, <2>3
  <1>4. CASE EnergizeFailed
    <2>1. stage' = stage /\ cmd' = cmd
      BY <1>4 DEF EnergizeFailed
    <2>2. GpuCall' /\ ProbeCall' /\ NoOtherCall'
      BY <1>1, <1>4, <2>1
      DEF GpuCall, Locked, RailWrite, EnergizeFailed, DomainUnlock, ProbeCall,
          NoOtherCall
    <2>3. BeforeRail' /\ RailFit' /\ RailFollows'
      BY <1>1, <1>4, <2>1, Rising
      DEF BeforeRail, Locked, EnergizeFailed, DomainUnlock, RailFit, RailFollows,
          Voltage
    <2> QED
      BY <2>2, <2>3
  <1>5. CASE AskPowerOff
    <2>1. stage' = stage /\ cmd' = cmd
      BY <1>5 DEF AskPowerOff
    <2>2. GpuCall' /\ ProbeCall' /\ NoOtherCall'
      BY <1>1, <1>5, <2>1
      DEF GpuCall, Locked, RailWrite, AskPowerOff, ProbeCall, NoOtherCall
    <2>3. BeforeRail' /\ RailFit' /\ RailFollows'
      BY <1>1, <1>5, <2>1, Rising
      DEF BeforeRail, Locked, AskPowerOff, RailFit, RailFollows, Voltage
    <2> QED
      BY <2>2, <2>3
  <1>6. CASE PowerOff
    <2>1. stage' = stage /\ cmd' = cmd
      BY <1>6 DEF PowerOff
    <2>2. GpuCall' /\ ProbeCall' /\ NoOtherCall'
      BY <1>1, <1>6, <2>1
      DEF GpuCall, Locked, RailWrite, PowerOff, DomainUnlock, ProbeCall, NoOtherCall
    <2>3. BeforeRail' /\ RailFit' /\ RailFollows'
      BY <1>1, <1>6, <2>1, Rising
      DEF BeforeRail, Locked, PowerOff, DomainUnlock, RailFit, RailFollows, Voltage
    <2> QED
      BY <2>2, <2>3
  <1>7. CASE CutPower
    <2>1. stage' = stage /\ cmd' = cmd
      BY <1>7 DEF CutPower
    <2>2. GpuCall' /\ ProbeCall' /\ NoOtherCall'
      BY <1>1, <1>7, <2>1
      DEF GpuCall, Locked, RailWrite, CutPower, DomainUnlock, ProbeCall, NoOtherCall
    <2>3. BeforeRail' /\ RailFit' /\ RailFollows'
      BY <1>1, <1>7, <2>1, Rising
      DEF BeforeRail, Locked, CutPower, DomainUnlock, RailFit, RailFollows, Voltage
    <2> QED
      BY <2>2, <2>3
  <1>8. CASE RestorePower
    <2>1. stage' = stage /\ cmd' = cmd
      BY <1>8 DEF RestorePower
    <2>2. GpuCall' /\ ProbeCall' /\ NoOtherCall'
      BY <1>1, <1>8, <2>1
      DEF GpuCall, Locked, RailWrite, RestorePower, DomainUnlock, ProbeCall, NoOtherCall
    <2>3. BeforeRail' /\ RailFit' /\ RailFollows'
      BY <1>1, <1>8, <2>1, Rising
      DEF BeforeRail, Locked, RestorePower, DomainUnlock, RailFit, RailFollows, Voltage
    <2> QED
      BY <2>2, <2>3
  <1>9. CASE SetAlwaysOn
    <2>1. stage' = stage /\ cmd' = cmd
      BY <1>9 DEF SetAlwaysOn
    <2>2. GpuCall' /\ ProbeCall' /\ NoOtherCall'
      BY <1>1, <1>9, <2>1
      DEF GpuCall, Locked, RailWrite, SetAlwaysOn, ProbeCall, NoOtherCall
    <2>3. BeforeRail' /\ RailFit' /\ RailFollows'
      BY <1>1, <1>9, <2>1, Rising
      DEF BeforeRail, Locked, SetAlwaysOn, RailFit, RailFollows, Voltage
    <2> QED
      BY <2>2, <2>3
  <1> QED
    BY <1>2, <1>3, <1>4, <1>5, <1>6, <1>7, <1>8, <1>9 DEF PowerDomain

LEMMA InitRailInv ==
    ASSUME Init
    PROVE  RailInv
  <1>1. \A c \in Callers : stage[c] = "idle"
    BY DEF Init, ServiceInit
  <1>2. {"gpu", "probe"} \subseteq Callers
    BY Table
  <1> QED
    BY <1>1, <1>2
    DEF Init, RailInv, GpuCall, ProbeCall, NoOtherCall, BeforeRail, RailFit, RailFollows

LEMMA NextRailInv ==
    ASSUME ~LateEnable, ServiceInv, DriverInv, RailInv, [Next]_vars
    PROVE  RailInv'
  <1>1. CASE DriverStep
    BY <1>1, SetPllRailInv, RequestRailInv, ProbeRailInv, PowerDomainRailInv
    DEF DriverStep
  <1>2. CASE ServiceStep
    BY <1>2, ServiceStepRailInv
  <1>3. CASE UNCHANGED vars
    <2>1. Floor' = Floor
      BY <1>3, SameFloor DEF vars
    <2> QED
      BY <1>3, <2>1
      DEF vars, RailInv, GpuCall, ProbeCall, NoOtherCall, BeforeRail, RailFit,
          RailFollows, Voltage, RailWrite
  <1> QED
    BY <1>1, <1>2, <1>3 DEF Next, DriverStep

-----------------------------------------------------------------------------
(* What holds as long as step_volt is not turned on late *)

\* BUCK6, and whatever the queued commands will make of it, is enough for the
\* clock at every place of the driver.
THEOREM RailInductive ==
    ASSUME ~LateEnable
    PROVE  Spec => []RailInv
  <1>1. Init => RailInv
    BY InitRailInv
  <1>2. ServiceInv /\ DriverInv /\ RailInv /\ [Next]_vars => RailInv'
    BY NextRailInv
  <1> QED
    BY <1>1, <1>2, DriverInductive, PTL DEF Spec

\* The rail "is raised before the clock goes up and lowered only after it has
\* come down", however many rail writes fail or are performed late.
THEOREM RailSafe ==
    ASSUME ~LateEnable
    PROVE  Spec => []RailCoversGpu
  <1>1. ServiceInv /\ DriverInv /\ RailInv => RailCoversGpu
    <2> SUFFICES ASSUME ServiceInv, DriverInv, RailInv, rail_set, GpuRuns, ~lost
                 PROVE  pmic[Buck6] >= Voltage(pms)
      BY DEF RailCoversGpu
    <2>1. /\ cur \in Steps /\ Volt[cur] \in Floor /\ st \in Steps
          /\ at \in Changing => Volt[st] \in Floor /\ pms \in {old.pms, st}
                                  /\ Voltage(old.pms) <= Volt[cur]
          /\ at \notin Changing /\ at # "oops" => Voltage(pms) <= Volt[cur]
          /\ at = "oops" => Voltage(pms) \in Floor
      BY DEF RailInv, RailFollows, DriverInv, DriverTypes, LockTypes
    <2>2. /\ pmic[Buck6] \in Nat /\ pmic[Buck6] >= Volt[cur]
          /\ at \in Changing => pmic[Buck6] >= Volt[st]
          /\ at = "oops" => pmic[Buck6] >= Voltage(pms)
      BY <2>1, Table DEF Floor, ServiceInv, ServiceTypeOK
    <2>3. Voltage(st) = Volt[st] /\ pms \in Steps \cup {Other}
      BY <2>1, Rising DEF Voltage, DriverInv, DriverTypes, PllTypes
    <2>4. Voltage(pms) \in Nat /\ Volt[cur] \in Nat /\ Volt[st] \in Nat
      BY <2>1, <2>3, Rising DEF Voltage
    <2>5. CASE at \in Changing /\ pms = st
      BY <2>2, <2>3, <2>5
    <2>6. CASE at # "oops" /\ ~(at \in Changing /\ pms = st)
      <3>1. Voltage(pms) <= Volt[cur]
        BY <2>1, <2>6
      <3> QED
        BY <2>2, <2>4, <3>1
    <2> QED
      BY <2>2, <2>5, <2>6
  <1> QED
    BY <1>1, RailInductive, DriverInductive, PTL

\* Once Panfrost has the clock the rail is fit for the lowest step at least.
THEOREM PublishedSafe ==
    ASSUME ~LateEnable
    PROVE  Spec => []PublishedOnSafeRail
  <1>1. ServiceInv /\ DriverInv /\ RailInv => PublishedOnSafeRail
    BY DEF DriverInv, Locked, RailInv, RailFit, Floor, PublishedOnSafeRail
  <1> QED
    BY <1>1, RailInductive, DriverInductive, PTL
=============================================================================
