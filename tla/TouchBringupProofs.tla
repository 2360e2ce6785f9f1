------------------------- MODULE TouchBringupProofs --------------------------
(***************************************************************************)
(* For any number of other users of the PMIC, of tries, probes and cycles, *)
(* and of commands that time out and are performed late: a bound touch     *)
(* driver keeps its rails, and the work leaves them on.                    *)
(***************************************************************************)
EXTENDS TouchBringup, PmicServiceProofs

\* The LDO is on, now and after every command that is still to be performed.
StaysOn(r) ==
    /\ pmic[r] = 1
    /\ \A i \in 1..Len(queue) :
         queue[i].func = "write" /\ queue[i].reg = r => queue[i].val = 1

Steady == StaysOn(L35) /\ StaysOn(L43)

\* The command in the work's call is that of its place.
CallMatches ==
    CASE at = "cycle" -> stage[Touch] # "idle" => cmd[Touch] = Cycle[step]
      [] at = "read" -> stage[Touch] # "idle" => cmd[Touch].func = "read"
      [] OTHER -> stage[Touch] = "idle"

\* The other callers have registers of their own.
OthersElsewhere ==
    \A c \in Callers \ {Touch} : stage[c] # "idle" => cmd[c].reg \notin Ldos

\* A cycle is under way only when one is due, and it has not been for a driver
\* that is bound; failures are counted up to the one that ends the work.
Counted ==
    /\ at = "cycle" => CycleDue /\ ~bound /\ cycles < MaxCycles
    /\ at = "read" => ~CycleDue /\ ~bound
    /\ at # "done" => apm_tries < ApmTries

\* The rails are on for good between the end of a cycle and the start of the
\* next one, and in a cycle the first is when the second is asked for.
RailsOn ==
    /\ bound => ctl = "alive" /\ Steady
    /\ ~CycleDue => Steady
    /\ cycles >= MaxCycles => Steady
    /\ at = "done" /\ apm_tries < ApmTries => Steady
    /\ at = "cycle" /\ step = 4 => StaysOn(L35)

IInv ==
    /\ TypeOK /\ ServiceInv
    /\ CallMatches /\ OthersElsewhere /\ Counted /\ RailsOn

workVars == <<at, step, apm_tries, cycles, probes, bound>>

LEMMA CycleCmd ==
    /\ Touch \in Callers /\ L35 \in Regs /\ L43 \in Regs
    /\ \A s \in 1 .. 4 :
         /\ Cycle[s] \in Cmd /\ Cycle[s].func = "write"
         /\ s = 3 => Cycle[s].reg = L35 /\ Cycle[s].val = 1
         /\ s = 4 => Cycle[s].reg = L43 /\ Cycle[s].val = 1
  BY TouchAssumption DEF Ldos, Cycle, Set, Cmd

LEMMA InitIInv == Init => IInv
<1> SUFFICES ASSUME Init PROVE IInv
  OBVIOUS
<1>1. ServiceInv
  BY InitServiceInv DEF Init
<1>2. TypeOK
  BY <1>1, TouchAssumption DEF Init, TypeOK, ServiceInv
<1>3. Steady
  BY TouchAssumption DEF Init, ServiceInit, On, Ldos, Steady, StaysOn
<1>4. CallMatches /\ OthersElsewhere /\ Counted
  BY CycleCmd, TouchAssumption
  DEF Init, ServiceInit, CallMatches, OthersElsewhere, Counted, CycleDue
<1> QED
  BY <1>1, <1>2, <1>3, <1>4 DEF IInv, RailsOn, Init

-----------------------------------------------------------------------------
(* What stays on while the service works *)

LEMMA PerformStaysOn ==
    ASSUME TypeOK, Perform, NEW r \in Ldos, StaysOn(r)
    PROVE  StaysOn(r)'
  <1> DEFINE k == Head(queue)
  <1>1. /\ queue \in Seq(Cmd) /\ queue # <<>> /\ queue' = Tail(queue)
        /\ pmic \in [Regs -> Vals] /\ r \in Regs
    BY TouchAssumption DEF Perform, TypeOK, ServiceTypeOK
  <1>2. /\ k \in Cmd /\ k = queue[1] /\ 1 \in 1..Len(queue)
        /\ Len(queue') = Len(queue) - 1 /\ Len(queue) \in Nat
        /\ \A i \in 1 .. Len(queue) - 1 : queue'[i] = queue[i + 1]
    BY <1>1, TailEntries
  <1>3. k.reg \in Regs /\ k.val \in Vals
    BY <1>2, CmdType
  <1>4. pmic'[r] = pmic[r] \/ (k.func = "write" /\ k.reg = r /\ pmic'[r] = k.val)
    BY <1>1, <1>3 DEF Perform
  <1>5. pmic'[r] = 1
    BY <1>2, <1>4 DEF StaysOn
  <1>6. ASSUME NEW i \in 1..Len(queue'), queue'[i].func = "write", queue'[i].reg = r
        PROVE  queue'[i].val = 1
    <2>1. i + 1 \in 1..Len(queue) /\ queue'[i] = queue[i + 1]
      BY <1>2
    <2> QED
      BY <1>6, <2>1 DEF StaysOn
  <1> QED
    BY <1>5, <1>6 DEF StaysOn

\* A submission keeps an LDO on unless it is the one that turns it off.
LEMMA SubmitStaysOn ==
    ASSUME TypeOK, NEW d \in Callers, Submit(d), NEW r, StaysOn(r),
           cmd[d].reg = r /\ cmd[d].func = "write" => cmd[d].val = 1
    PROVE  StaysOn(r)'
  <1>1. queue \in Seq(Cmd) /\ queue' = Append(queue, cmd[d]) /\ pmic' = pmic
    BY DEF Submit, TypeOK, ServiceTypeOK
  <1>2. /\ Len(queue') = Len(queue) + 1 /\ Len(queue) \in Nat
        /\ queue'[Len(queue) + 1] = cmd[d]
        /\ \A i \in 1..Len(queue) : queue'[i] = queue[i]
    BY <1>1
  <1> QED
    BY <1>1, <1>2 DEF StaysOn

LEMMA SameSteady ==
    ASSUME pmic' = pmic, queue' = queue
    PROVE  Steady' <=> Steady
  BY DEF Steady, StaysOn

\* A step of the service that changes neither the queue nor the PMIC, and no
\* call of the work's, changes nothing for the work.
LEMMA QuietService ==
    ASSUME IInv, ServiceInv', OthersElsewhere', pmic' = pmic, queue' = queue,
           cmd'[Touch] = cmd[Touch], stage'[Touch] = "idle" <=> stage[Touch] = "idle",
           UNCHANGED <<workVars, ctl>>
    PROVE  IInv'
  <1>1. TypeOK'
    BY DEF IInv, TypeOK, ServiceInv, workVars
  <1>2. CallMatches' /\ Counted' /\ RailsOn'
    BY DEF IInv, CallMatches, Counted, RailsOn, CycleDue, Steady, StaysOn, workVars
  <1> QED
    BY <1>1, <1>2 DEF IInv

\* Late or not, a command of the work's or of another caller's takes effect.
LEMMA PerformedIInv == ASSUME IInv, Performed PROVE IInv'
  <1>1. ServiceInv'
    BY PerformServiceInv DEF IInv, Performed
  <1>2. /\ UNCHANGED <<workVars, stage, cmd>> /\ ctl' = Powered(pmic')
    BY DEF Performed, Perform, counts, workVars
  <1>3. TypeOK'
    BY <1>1, <1>2 DEF IInv, TypeOK, ServiceInv, Powered, workVars
  <1>4. CallMatches' /\ OthersElsewhere' /\ Counted'
    BY <1>2 DEF IInv, CallMatches, OthersElsewhere, Counted, CycleDue, workVars
  <1>5. ASSUME NEW r \in Ldos, StaysOn(r)
        PROVE  StaysOn(r)'
    BY <1>5, PerformStaysOn DEF IInv, Performed
  <1>6. Steady => Steady' /\ (ctl = "alive" => ctl' = "alive")
    <2> SUFFICES ASSUME Steady PROVE Steady' /\ (ctl = "alive" => ctl' = "alive")
      OBVIOUS
    <2>1. Steady'
      BY <1>5 DEF Steady, Ldos
    <2>2. On(pmic') /\ ~Off(pmic')
      BY <2>1 DEF Steady, StaysOn, On, Off, Ldos
    <2> QED
      BY <1>2, <2>1, <2>2 DEF Powered
  <1>7. RailsOn'
    BY <1>2, <1>5, <1>6 DEF IInv, RailsOn, CycleDue, Ldos, workVars
  <1> QED
    BY <1>1, <1>3, <1>4, <1>7 DEF IInv

\* The work's writes reach the queue only in a cycle, in its order.
LEMMA SubmitIInv ==
    ASSUME IInv, NEW c \in Callers, Submit(c), UNCHANGED <<workVars, ctl>>
    PROVE  IInv'
  <1>1. ServiceInv'
    BY SubmitServiceInv DEF IInv
  <1>2. TypeOK'
    BY <1>1 DEF IInv, TypeOK, ServiceInv, workVars
  <1>3. /\ stage[c] = "open" /\ cmd' = cmd
        /\ \A d \in Callers : stage'[d] = "idle" <=> stage[d] = "idle"
    BY DEF IInv, Submit, ServiceInv, ServiceTypeOK
  <1>4. CallMatches' /\ OthersElsewhere' /\ Counted'
    BY <1>3, CycleCmd
    DEF IInv, CallMatches, OthersElsewhere, Counted, CycleDue, workVars
  <1>5. Steady /\ at # "cycle" => Steady'
    <2> SUFFICES ASSUME Steady, at # "cycle" PROVE Steady'
      OBVIOUS
    <2>1. c = Touch => cmd[c].func = "read"
      BY <1>3 DEF IInv, CallMatches
    <2>2. c # Touch => cmd[c].reg \notin Ldos
      BY <1>3 DEF IInv, OthersElsewhere
    <2>3. ASSUME NEW r \in Ldos
          PROVE  cmd[c].reg = r /\ cmd[c].func = "write" => cmd[c].val = 1
      BY <2>1, <2>2
    <2> QED
      BY <2>3, SubmitStaysOn DEF IInv, Steady, Ldos
  <1>6. at = "cycle" /\ step = 4 => StaysOn(L35)'
    <2> SUFFICES ASSUME at = "cycle", step = 4 PROVE StaysOn(L35)'
      OBVIOUS
    <2>1. c = Touch => cmd[c].val = 1
      BY <1>3, CycleCmd DEF IInv, CallMatches
    <2>2. c # Touch => cmd[c].reg # L35
      BY <1>3 DEF IInv, OthersElsewhere, Ldos
    <2> QED
      BY <2>1, <2>2, SubmitStaysOn DEF IInv, RailsOn
  <1>7. RailsOn'
    BY <1>5, <1>6, TouchAssumption
    DEF IInv, TypeOK, RailsOn, Counted, CycleDue, workVars
  <1> QED
    BY <1>1, <1>2, <1>4, <1>7 DEF IInv

LEMMA ServiceStepIInv == ASSUME IInv, ServiceStep PROVE IInv'
  <1>1. UNCHANGED <<workVars, ctl>>
    BY DEF ServiceStep, counts, workVars
  <1>2. ASSUME NEW c \in Callers, GiveUp(c)
        PROVE  IInv'
    <2>1. ServiceInv'
      BY <1>2, GiveUpServiceInv DEF IInv
    <2>2. /\ pmic' = pmic /\ queue' = queue /\ cmd' = cmd
          /\ \A d \in Callers : stage'[d] = "idle" <=> stage[d] = "idle"
      BY <1>2 DEF IInv, GiveUp, ServiceInv, ServiceTypeOK
    <2> QED
      BY <1>1, <2>1, <2>2, CycleCmd, QuietService DEF IInv, OthersElsewhere
  <1>3. ASSUME NEW c \in Callers \ {Touch}, NEW k \in Cmd, k.reg \notin Ldos,
               Call(c, k)
        PROVE  IInv'
    <2>1. ServiceInv'
      BY <1>3, CallServiceInv DEF IInv
    <2>2. /\ pmic' = pmic /\ queue' = queue /\ cmd'[c] = k
          /\ \A d \in Callers : d # c => stage'[d] = stage[d] /\ cmd'[d] = cmd[d]
      BY <1>3 DEF IInv, Call, ServiceInv, ServiceTypeOK
    <2>3. OthersElsewhere'
      BY <1>3, <2>2 DEF IInv, OthersElsewhere
    <2> QED
      BY <1>1, <2>1, <2>2, <2>3, CycleCmd, QuietService
  <1>4. ASSUME NEW c \in Callers \ {Touch}, Succeed(c) \/ Fail(c)
        PROVE  IInv'
    <2>1. ServiceInv'
      BY <1>4, SucceedServiceInv, FailServiceInv DEF IInv
    <2>2. /\ pmic' = pmic /\ queue' = queue /\ stage'[c] = "idle"
          /\ \A d \in Callers : d # c => stage'[d] = stage[d] /\ cmd'[d] = cmd[d]
      BY <1>4 DEF IInv, Succeed, Fail, Return, ServiceInv, ServiceTypeOK
    <2>3. OthersElsewhere'
      BY <2>2 DEF IInv, OthersElsewhere
    <2> QED
      BY <1>1, <2>1, <2>2, <2>3, CycleCmd, QuietService
  <1> QED
    BY <1>1, <1>2, <1>3, <1>4, SubmitIInv DEF ServiceStep

-----------------------------------------------------------------------------
(* The work *)

\* The steps of the work that call nothing, and the controller's own.
LEMMA PlainIInv ==
    ASSUME IInv,
           AlreadyBound \/ GiveUpCycling \/ CycleStart \/ Reprobe \/ Boots
             \/ UNCHANGED vars
    PROVE  IInv'
  <1>1. UNCHANGED svcVars
    BY DEF AlreadyBound, GiveUpCycling, CycleStart, Reprobe, Boots, vars, svcVars
  <1>2. ServiceInv'
    BY <1>1, StutterServiceInv DEF IInv
  <1>3. ServiceTypeOK'
    BY <1>2 DEF ServiceInv
  <1>4. CallMatches' /\ OthersElsewhere'
    BY <1>1
    DEF IInv, CallMatches, OthersElsewhere, AlreadyBound, GiveUpCycling,
        CycleStart, Reprobe, Boots, vars, svcVars
  <1>5. (Steady' <=> Steady) /\ (StaysOn(L35)' <=> StaysOn(L35))
    BY <1>1, SameSteady DEF svcVars, StaysOn
  <1>6. TypeOK' /\ Counted' /\ RailsOn'
    <2>1. CASE AlreadyBound
      <3>1. TypeOK'
        BY <1>3, <2>1 DEF IInv, TypeOK, AlreadyBound, counts
      <3>2. Counted'
        BY <2>1 DEF IInv, Counted, CycleDue, AlreadyBound, counts
      <3>3. RailsOn'
        BY <1>5, <2>1 DEF IInv, RailsOn, CycleDue, AlreadyBound, counts
      <3> QED
        BY <3>1, <3>2, <3>3
    <2>2. CASE GiveUpCycling
      <3>1. TypeOK'
        BY <1>3, <2>2 DEF IInv, TypeOK, GiveUpCycling, counts
      <3>2. Counted'
        BY <2>2 DEF IInv, Counted, CycleDue, GiveUpCycling, counts
      <3>3. RailsOn'
        BY <1>5, <2>2 DEF IInv, RailsOn, CycleDue, GiveUpCycling, counts
      <3> QED
        BY <3>1, <3>2, <3>3
    <2>3. CASE CycleStart
      <3>1. TypeOK'
        BY <1>3, <2>3 DEF IInv, TypeOK, CycleStart, counts
      <3>2. Counted'
        BY <2>3 DEF IInv, Counted, CycleDue, CycleStart, counts
      <3>3. RailsOn'
        BY <1>5, <2>3 DEF IInv, RailsOn, CycleDue, CycleStart, counts
      <3> QED
        BY <3>1, <3>2, <3>3
    <2>4. CASE Reprobe
      <3>1. TypeOK'
        <4>1. at = "check" /\ probes < MaxProbes /\ probes' = probes + 1
          BY <2>4, TouchAssumption DEF Reprobe, CycleDue, IInv, TypeOK
        <4>2. bound' \in BOOLEAN
          BY <2>4 DEF Reprobe
        <4> QED
          BY <1>3, <2>4, <4>1, <4>2, TouchAssumption DEF IInv, TypeOK, Reprobe
      <3>2. Counted'
        BY <2>4 DEF IInv, Counted, Reprobe
      <3>3. RailsOn'
        <4>1. Steady
          BY <2>4 DEF IInv, RailsOn, Reprobe
        <4>2. bound' => ctl' = "alive"
          BY <2>4 DEF Reprobe
        <4>3. at' = "check"
          BY <2>4 DEF Reprobe
        <4> QED
          BY <1>5, <4>1, <4>2, <4>3 DEF RailsOn
      <3> QED
        BY <3>1, <3>2, <3>3
    <2>5. CASE Boots
      <3>1. TypeOK'
        BY <1>3, <2>5 DEF IInv, TypeOK, Boots, counts
      <3>2. Counted'
        BY <2>5 DEF IInv, Counted, CycleDue, Boots, counts
      <3>3. RailsOn'
        BY <1>5, <2>5 DEF IInv, RailsOn, CycleDue, Boots, counts
      <3> QED
        BY <3>1, <3>2, <3>3
    <2>6. CASE UNCHANGED vars
      <3>1. TypeOK'
        BY <1>3, <2>6 DEF IInv, TypeOK, vars
      <3>2. Counted'
        BY <2>6 DEF IInv, Counted, CycleDue, vars
      <3>3. RailsOn'
        BY <1>5, <2>6 DEF IInv, RailsOn, CycleDue, vars
      <3> QED
        BY <3>1, <3>2, <3>3
    <2> QED
      BY <2>1, <2>2, <2>3, <2>4, <2>5, <2>6
  <1> QED
    BY <1>2, <1>4, <1>6 DEF IInv

\* A call of the work's is made.
LEMMA CallIInv == ASSUME IInv, CycleCall \/ ReadCall PROVE IInv'
  <1>1. PICK k \in Cmd :
          /\ Call(Touch, k)
          /\ at = "cycle" => k = Cycle[step]
          /\ at = "read" => k.func = "read"
          /\ at \in {"cycle", "read"}
          /\ UNCHANGED <<workVars, ctl>>
    <2>1. [func |-> "read", reg |-> L35, val |-> 0] \in Cmd
      BY CycleCmd DEF Cmd
    <2> QED
      BY <2>1, CycleCmd DEF IInv, TypeOK, CycleCall, ReadCall, counts, workVars
  <1>2. ServiceInv'
    BY <1>1, CycleCmd, CallServiceInv DEF IInv
  <1>3. /\ pmic' = pmic /\ queue' = queue /\ cmd'[Touch] = k
        /\ \A d \in Callers : d # Touch => stage'[d] = stage[d] /\ cmd'[d] = cmd[d]
    BY <1>1, CycleCmd DEF IInv, Call, ServiceInv, ServiceTypeOK
  <1>4. TypeOK'
    BY <1>1, <1>2 DEF IInv, TypeOK, ServiceInv, workVars
  <1>5. CallMatches' /\ OthersElsewhere' /\ Counted'
    BY <1>1, <1>3
    DEF IInv, CallMatches, OthersElsewhere, Counted, CycleDue, workVars
  <1>6. RailsOn'
    BY <1>1, <1>3
    DEF IInv, RailsOn, CycleDue, Steady, StaysOn, workVars
  <1> QED
    BY <1>2, <1>4, <1>5, <1>6 DEF IInv

\* A call of the work's is over.
LEMMA ReturnIInv ==
    ASSUME IInv, CycleGoesOn \/ CycleDone \/ CycleFails \/ ReadOver
    PROVE  IInv'
  <1>1. Succeed(Touch) \/ Fail(Touch)
    BY DEF CycleGoesOn, CycleDone, CycleFails, ReadOver, Ok, Failed
  <1>2. ServiceInv'
    BY <1>1, CycleCmd, SucceedServiceInv, FailServiceInv DEF IInv
  <1>3. /\ pmic' = pmic /\ queue' = queue /\ stage'[Touch] = "idle"
        /\ \A d \in Callers : d # Touch => stage'[d] = stage[d] /\ cmd'[d] = cmd[d]
    BY <1>1, CycleCmd DEF IInv, Succeed, Fail, Return, ServiceInv, ServiceTypeOK
  <1>4. OthersElsewhere'
    BY <1>3 DEF IInv, OthersElsewhere
  <1>5. Steady' <=> Steady
    BY <1>3, SameSteady
  <1>6. StaysOn(L35)' <=> StaysOn(L35)
    BY <1>3 DEF StaysOn
  <1>7. CASE CycleGoesOn
    <2>1. step = 3 => StaysOn(L35)
      <3> SUFFICES ASSUME step = 3 PROVE StaysOn(L35)
        OBVIOUS
      <3>1. Answered(Touch) /\ answer.rc = "ok" /\ cmd[Touch] = Cycle[3]
        BY <1>7 DEF IInv, CycleGoesOn, Ok, Succeed, Answered, CallMatches
      <3>2. queue = <<>> /\ pmic[L35] = 1
        BY <3>1, CycleCmd DEF IInv, ServiceInv, AnsweredIsSettled
      <3> QED
        BY <3>2 DEF StaysOn
    <2>2. TypeOK'
      BY <1>2, <1>7 DEF IInv, TypeOK, ServiceInv, CycleGoesOn, counts
    <2>3. CallMatches' /\ Counted'
      BY <1>3, <1>7 DEF IInv, CallMatches, Counted, CycleDue, CycleGoesOn, counts
    <2>4. RailsOn'
      BY <1>5, <1>6, <1>7, <2>1
      DEF IInv, TypeOK, RailsOn, CycleDue, CycleGoesOn, counts
    <2> QED
      BY <1>2, <1>4, <2>2, <2>3, <2>4 DEF IInv
  <1>8. CASE CycleDone
    <2>1. Answered(Touch) /\ answer.rc = "ok" /\ cmd[Touch] = Cycle[4]
      BY <1>8 DEF IInv, CycleDone, Ok, Succeed, Answered, CallMatches
    <2>2. queue = <<>> /\ pmic[L43] = 1
      BY <2>1, CycleCmd DEF IInv, ServiceInv, AnsweredIsSettled
    <2>3. Steady
      BY <1>8, <2>2 DEF IInv, RailsOn, CycleDone, Steady, StaysOn
    <2>4. TypeOK'
      BY <1>2, <1>8, TouchAssumption
      DEF IInv, TypeOK, ServiceInv, Counted, CycleDone
    <2>5. CallMatches' /\ Counted'
      BY <1>3, <1>8, TouchAssumption
      DEF IInv, TypeOK, CallMatches, Counted, CycleDue, CycleDone
    <2>6. RailsOn'
      BY <1>5, <1>8, <2>3 DEF IInv, RailsOn, Counted, CycleDone
    <2> QED
      BY <1>2, <1>4, <2>4, <2>5, <2>6 DEF IInv
  <1>9. CASE CycleFails
    <2>1. TypeOK'
      BY <1>2, <1>9, TouchAssumption
      DEF IInv, TypeOK, ServiceInv, Counted, CycleFails
    <2>2. CallMatches' /\ Counted'
      BY <1>3, <1>9, TouchAssumption
      DEF IInv, TypeOK, CallMatches, Counted, CycleDue, CycleFails
    <2>3. RailsOn'
      BY <1>5, <1>9, TouchAssumption
      DEF IInv, TypeOK, RailsOn, Counted, CycleDue, CycleFails
    <2> QED
      BY <1>2, <1>4, <2>1, <2>2, <2>3 DEF IInv
  <1>10. CASE ReadOver
    <2>1. TypeOK'
      BY <1>2, <1>10 DEF IInv, TypeOK, ServiceInv, ReadOver, counts
    <2>2. CallMatches' /\ Counted'
      BY <1>3, <1>10 DEF IInv, CallMatches, Counted, CycleDue, ReadOver, counts
    <2>3. RailsOn'
      BY <1>5, <1>10 DEF IInv, RailsOn, Counted, CycleDue, ReadOver, counts
    <2> QED
      BY <1>2, <1>4, <2>1, <2>2, <2>3 DEF IInv
  <1> QED
    BY <1>7, <1>8, <1>9, <1>10

LEMMA Inductive == Spec => []IInv
<1>1. IInv /\ [Next]_vars => IInv'
  BY PlainIInv, CallIInv, ReturnIInv, PerformedIInv, ServiceStepIInv
  DEF Next, Work
<1> QED
  BY <1>1, InitIInv, PTL DEF Spec

-----------------------------------------------------------------------------
\* In every reachable state of the touch work its variables have their types:
\* no more tries, probes and cycles than their limits.
THEOREM TouchTypeCorrect == Spec => []TypeOK
<1>1. IInv => TypeOK
  BY DEF IInv
<1> QED
  BY <1>1, Inductive, PTL

\* A touch driver that is bound keeps its rails and its controller, whatever
\* the work and other callers have left behind with the PMIC; and only when it
\* gave up on the APM may s9p_touch_work leave a rail off.
THEOREM RailsKept == Spec => []TouchPowered
<1>1. IInv => TouchPowered
  BY DEF IInv, RailsOn, Steady, StaysOn, TouchPowered, On, Ldos
<1> QED
  BY <1>1, Inductive, PTL

\* The touch work is one of the PMIC service's callers, and what it waits for is
\* what the service, and with it the mailbox, promises.
THEOREM TouchUsesService == Spec => ServiceSpec
<1>1. Init => ServiceInit
  BY DEF Init
<1>2. ASSUME IInv, [Next]_vars
      PROVE  [ServiceNext]_svcVars
  <2>1. CASE Work
    <3>1. Touch \in Callers /\ Cycle[step] \in Cmd
      BY <1>2, CycleCmd DEF IInv, TypeOK
    <3>2. [func |-> "read", reg |-> L35, val |-> 0] \in Cmd
      BY CycleCmd DEF Cmd
    <3>3. \/ Call(Touch, Cycle[step])
          \/ Call(Touch, [func |-> "read", reg |-> L35, val |-> 0])
          \/ Succeed(Touch) \/ Fail(Touch) \/ UNCHANGED svcVars
      BY <2>1 DEF Work, AlreadyBound, GiveUpCycling, CycleStart, CycleCall, CycleGoesOn,
         CycleDone, CycleFails, ReadCall, ReadOver, Reprobe, Ok, Failed
    <3>4. QED
      BY <3>1, <3>2, <3>3 DEF ServiceNext
  <2>2. CASE Performed
    BY <2>2 DEF Performed, ServiceNext
  <2>3. CASE Boots
    BY <2>3 DEF Boots
  <2>4. CASE ServiceStep
    BY <2>4 DEF ServiceStep, ServiceNext
  <2>5. CASE UNCHANGED vars
    BY <2>5 DEF vars, svcVars
  <2>6. QED
    BY <1>2, <2>1, <2>2, <2>3, <2>4, <2>5 DEF Next
<1>3. IInv /\ [Next]_vars => [ServiceNext]_svcVars
  BY <1>2
<1>4. QED
  BY <1>1, <1>3, Inductive, PTL DEF Spec, ServiceSpec
-----------------------------------------------------------------------------
(* The work comes to an end *)

\* How far the work is from its next probe, failure or end: the read-back comes
\* before the check, the check before the four calls of a cycle.
Waiting == IF stage[Touch] = "idle" THEN 1 ELSE 0
Ahead ==
    CASE at = "read"  -> 10 + Waiting
      [] at = "check" -> 9
      [] at = "cycle" -> 2 * (4 - step) + Waiting
      [] OTHER        -> 0

\* A step brings the end closer: one more failure, or else one more cycle, or
\* else one more probe, or else fewer steps to go to one of these.
Closer ==
    \/ apm_tries' > apm_tries
    \/ /\ apm_tries' = apm_tries
       /\ \/ cycles' > cycles
          \/ /\ cycles' = cycles
             /\ \/ probes' > probes
                \/ probes' = probes /\ Ahead' < Ahead

\* No step of the work is in vain, and no other step takes it back.
WorkAdvances == [][IF Work THEN Closer ELSE UNCHANGED <<counts, Ahead>>]_vars

LEMMA WorkCloser == ASSUME IInv, Work PROVE Closer
  <1>1. /\ stage \in [Callers -> {"idle", "open", "live"}] /\ Touch \in Callers
        /\ step \in 1 .. 4
        /\ apm_tries \in Nat /\ cycles \in Nat /\ probes \in Nat
    BY TouchAssumption DEF IInv, TypeOK, ServiceTypeOK
  <1>2. ASSUME NEW k, Call(Touch, k)
        PROVE  stage[Touch] = "idle" /\ stage'[Touch] = "open"
    BY <1>1, <1>2 DEF Call
  <1>3. ASSUME Ok \/ Failed \/ Succeed(Touch) \/ Fail(Touch)
        PROVE  stage[Touch] # "idle" /\ stage'[Touch] = "idle"
    BY <1>1, <1>3 DEF Ok, Failed, Succeed, Fail, Answered, Return
  <1>4. CASE AlreadyBound \/ GiveUpCycling \/ CycleStart
    BY <1>1, <1>4
    DEF AlreadyBound, GiveUpCycling, CycleStart, counts, svcVars, Closer, Ahead, Waiting
  <1>5. CASE CycleCall
    BY <1>1, <1>2, <1>5 DEF CycleCall, counts, Closer, Ahead, Waiting
  <1>6. CASE CycleGoesOn
    BY <1>1, <1>3, <1>6 DEF CycleGoesOn, counts, Closer, Ahead, Waiting
  <1>7. CASE CycleDone
    BY <1>1, <1>7 DEF CycleDone, Closer
  <1>8. CASE CycleFails
    BY <1>1, <1>8 DEF CycleFails, Closer
  <1>9. CASE ReadCall
    BY <1>1, <1>2, <1>9 DEF ReadCall, counts, Closer, Ahead, Waiting
  <1>10. CASE ReadOver
    BY <1>1, <1>3, <1>10 DEF ReadOver, counts, Closer, Ahead, Waiting
  <1>11. CASE Reprobe
    BY <1>1, <1>11 DEF Reprobe, Closer
  <1>12. QED
    BY <1>4, <1>5, <1>6, <1>7, <1>8, <1>9, <1>10, <1>11 DEF Work

LEMMA OthersLeaveIt ==
    ASSUME IInv, [Next]_vars, ~Work
    PROVE  UNCHANGED <<counts, Ahead>>
  <1>1. stage \in [Callers -> {"idle", "open", "live"}] /\ Touch \in Callers
    BY TouchAssumption DEF IInv, TypeOK, ServiceTypeOK
  <1>2. UNCHANGED <<counts, at, step>> /\ (stage'[Touch] = "idle" <=> stage[Touch] = "idle")
    <2>1. CASE Performed
      BY <2>1 DEF Performed, Perform, counts
    <2>2. CASE Boots \/ UNCHANGED vars
      BY <2>2 DEF Boots, vars, counts, svcVars
    <2>3. CASE ServiceStep
      <3>1. UNCHANGED <<counts, at, step>>
        BY <2>3 DEF ServiceStep
      <3>2. PICK c \in Callers :
               \/ Submit(c) \/ GiveUp(c)
               \/ c # Touch /\ ((\E k \in Cmd : Call(c, k)) \/ Succeed(c) \/ Fail(c))
        BY <2>3 DEF ServiceStep
      <3>3. stage'[Touch] = "idle" <=> stage[Touch] = "idle"
        BY <1>1, <3>2 DEF Submit, GiveUp, Call, Succeed, Fail, Return
      <3>4. QED
        BY <3>1, <3>3
    <2>4. QED
      BY <2>1, <2>2, <2>3 DEF Next
  <1>3. QED
    BY <1>2 DEF Ahead, Waiting

\* s9p_touch_work ends: no step of it is in vain.  Failures, cycles and probes
\* have their limits (TouchTypeCorrect) and only a new cycle starts the probes
\* again, so that the work takes finitely many steps; that it takes them at all
\* is WorkEnds, under fairness.
THEOREM EveryStepCounts == Spec => WorkAdvances
<1>1. IInv /\ [Next]_vars
          => [IF Work THEN Closer ELSE UNCHANGED <<counts, Ahead>>]_vars
  BY WorkCloser, OthersLeaveIt
<1> QED
  BY <1>1, Inductive, PTL DEF Spec, WorkAdvances
=============================================================================
