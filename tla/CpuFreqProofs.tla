--------------------------- MODULE CpuFreqProofs ----------------------------
(***************************************************************************)
(* s9p-cpufreq.c, for any table of steps, voltages, thermal levels and     *)
(* caps, any number of clusters, cores and other users of the PMIC, and    *)
(* any number of late commands: the rails cover the clocks, a transition   *)
(* ends as the policy relies on, no cap is lost on its way to the clock,   *)
(* and a spike of the sensor does nothing.                                 *)
(***************************************************************************)
EXTENDS CpuClock, CpuPolicy, PmicServiceProofs, FiniteSetTheorems,
        WellFoundedInduction

(***************************************************************************)
(* PART 1: s9p_target and s9p_set_step over the PMIC service (CpuClock).   *)
(***************************************************************************)
\* The voltage code v is enough for frequency f of cluster c, on the rail now
\* and after every command that is still to be performed.
Holds(c, f) ==
    /\ pmic[c] >= Need[c][f]
    /\ \A i \in 1..Len(queue) :
         queue[i].func = "write" /\ queue[i].reg = c => queue[i].val >= Need[c][f]

\* Inside s9p_set_step only the write it has asked for is in the call.
CallMatches(c) ==
    CASE at[c] = "raise" -> cmd[c] = RailWrite(c) /\ stage[c] # "idle"
                              /\ pll[c] < goal[c] /\ up[c]
      [] at[c] = "lower" -> cmd[c] = RailWrite(c) /\ stage[c] # "idle"
                              /\ pll[c] = goal[c]
      [] OTHER -> stage[c] = "idle"

\* Outside the stretch from leaving the PLL to coming back cpufreq is right, and
\* a transition is to another frequency than the one it knows.
ClockKnown(c) ==
    /\ at[c] # "idle" => cur[c] # goal[c]
    /\ at[c] \in {"idle", "want", "raise"} => cur[c] = pll[c] /\ onPll[c]
    /\ at[c] \in {"back", "lower"} => pll[c] = goal[c]
    /\ at[c] = "lower" => onPll[c]

IInv ==
    /\ TypeOK
    /\ ServiceInv
    /\ \A c \in Clusters :
         /\ Holds(c, pll[c])
         /\ at[c] \in {"leave", "program"} => Holds(c, goal[c])
         /\ CallMatches(c)
         /\ ClockKnown(c)
    /\ \A c \in Callers \ Clusters : stage[c] # "idle" => cmd[c].reg \notin Clusters

LEMMA NeedType ==
    ASSUME NEW c \in Clusters, NEW f \in Freqs
    PROVE  Need[c][f] \in Nat /\ Need[c][f] \in Vals /\ f \in Nat
  BY ClockAssumption, ServiceAssumption

LEMMA NeedMonotone ==
    ASSUME NEW c \in Clusters, NEW f \in Freqs, NEW g \in Freqs, f <= g
    PROVE  Need[c][f] <= Need[c][g]
  BY ClockAssumption

LEMMA RailWriteType ==
    ASSUME TypeOK, NEW c \in Clusters
    PROVE  RailWrite(c) \in Cmd
  BY NeedType, ClockAssumption DEF TypeOK, RailWrite, Cmd

LEMMA InitIInv == Init => IInv
  <1> SUFFICES ASSUME Init PROVE IInv
    OBVIOUS
  <1>1. ServiceInv
    BY InitServiceInv DEF Init
  <1>2. TypeOK
    BY <1>1 DEF Init, TypeOK, ServiceInv, Places
  <1>3. ASSUME NEW c \in Clusters
        PROVE  Holds(c, pll[c]) /\ at[c] = "idle" /\ stage[c] = "idle"
    BY ClockAssumption DEF Init, ServiceInit, Holds
  <1>4. QED
    BY <1>1, <1>2, <1>3 DEF IInv, CallMatches, ClockKnown, Init, ServiceInit

-----------------------------------------------------------------------------
(* The service performs one command: what holds for all of the queue and   *)
(* the rail holds for the rest of the queue and the new value.             *)

LEMMA PerformHolds ==
    ASSUME TypeOK, Perform, NEW c \in Clusters, NEW f \in Freqs, Holds(c, f)
    PROVE  Holds(c, f)'
  <1> DEFINE k == Head(queue)
  <1>1. /\ queue \in Seq(Cmd) /\ queue # <<>> /\ queue' = Tail(queue)
        /\ pmic \in [Regs -> Vals] /\ c \in Regs
    BY ClockAssumption DEF Perform, TypeOK, ServiceTypeOK
  <1>2. /\ k \in Cmd /\ k = queue[1] /\ 1 \in 1..Len(queue)
        /\ Len(queue') = Len(queue) - 1 /\ Len(queue) \in Nat
        /\ \A i \in 1 .. Len(queue) - 1 : queue'[i] = queue[i + 1]
    BY <1>1, TailEntries
  <1>3. k.reg \in Regs /\ k.val \in Vals
    BY <1>2, CmdType
  <1>4. pmic'[c] = pmic[c] \/ (k.func = "write" /\ k.reg = c /\ pmic'[c] = k.val)
    BY <1>1, <1>3 DEF Perform
  <1>5. pmic'[c] >= Need[c][f]
    BY <1>2, <1>4 DEF Holds
  <1>6. ASSUME NEW i \in 1..Len(queue'), queue'[i].func = "write", queue'[i].reg = c
        PROVE  queue'[i].val >= Need[c][f]
    <2>1. i + 1 \in 1..Len(queue) /\ queue'[i] = queue[i + 1]
      BY <1>2
    <2>2. QED
      BY <1>6, <2>1 DEF Holds
  <1>7. QED
    BY <1>5, <1>6 DEF Holds

\* A submission keeps what holds, if the command is about another register or
\* its value is enough.
LEMMA SubmitHolds ==
    ASSUME TypeOK, NEW d \in Callers, Submit(d), cmd[d] \in Cmd,
           NEW c \in Clusters, NEW f \in Freqs, Holds(c, f),
           cmd[d].reg = c /\ cmd[d].func = "write" => cmd[d].val >= Need[c][f]
    PROVE  Holds(c, f)'
  <1>1. /\ queue \in Seq(Cmd) /\ queue' = Append(queue, cmd[d]) /\ pmic' = pmic
    BY DEF Submit, TypeOK, ServiceTypeOK
  <1>2. /\ Len(queue') = Len(queue) + 1 /\ Len(queue) \in Nat
        /\ queue'[Len(queue) + 1] = cmd[d]
        /\ \A i \in 1..Len(queue) : queue'[i] = queue[i]
    BY <1>1
  <1>3. ASSUME NEW i \in 1..Len(queue'), queue'[i].func = "write", queue'[i].reg = c
        PROVE  queue'[i].val >= Need[c][f]
    <2>1. CASE i = Len(queue) + 1
      BY <1>2, <1>3, <2>1
    <2>2. CASE i \in 1..Len(queue)
      BY <1>2, <1>3, <2>2 DEF Holds
    <2>3. QED
      BY <1>2, <2>1, <2>2
  <1>4. QED
    BY <1>1, <1>3 DEF Holds

LEMMA SameHolds ==
    ASSUME NEW c, NEW f, Holds(c, f), pmic' = pmic, queue' = queue
    PROVE  Holds(c, f)'
  BY DEF Holds

-----------------------------------------------------------------------------
LEMMA ServiceStepIInv ==
    ASSUME IInv, ServiceStep
    PROVE  IInv'
  <1> USE DEF IInv
  <1>1. UNCHANGED clockVars
    BY DEF ServiceStep
  <1>2. CASE Perform
    <2>1. ServiceInv'
      BY <1>2, PerformServiceInv
    <2>2. TypeOK'
      BY <1>1, <2>1 DEF TypeOK, ServiceInv, clockVars
    <2>3. ASSUME NEW c \in Clusters
          PROVE  /\ Holds(c, pll[c])'
                 /\ at'[c] \in {"leave", "program"} => Holds(c, goal[c])'
      BY <1>1, <1>2, PerformHolds DEF TypeOK, clockVars, Holds
    <2>4. stage' = stage /\ cmd' = cmd
      BY <1>2 DEF Perform
    <2>5. QED
      BY <1>1, <2>1, <2>2, <2>3, <2>4 DEF CallMatches, ClockKnown, RailWrite, clockVars
  <1>3. ASSUME NEW d \in Callers, Submit(d)
        PROVE  IInv'
    <2>1. ServiceInv'
      BY <1>3, SubmitServiceInv
    <2>2. TypeOK'
      BY <1>1, <2>1 DEF TypeOK, ServiceInv, clockVars
    <2>3. cmd[d] \in Cmd /\ stage[d] = "open" /\ cmd' = cmd
      BY <1>3 DEF Submit, ServiceInv, CallHasCmd
    <2>4. ASSUME NEW c \in Clusters, cmd[d].reg = c
          PROVE  /\ d = c /\ at[c] \in {"raise", "lower"}
                 /\ cmd[d].val >= Need[c][pll[c]]
      <3>1. d \in Clusters
        BY <2>3, <2>4
      <3>2. CallMatches(d)
        BY <3>1
      <3>3. at[d] \in {"raise", "lower"} /\ cmd[d] = RailWrite(d) /\ pll[d] <= goal[d]
        BY <2>3, <3>1, <3>2, NeedType DEF CallMatches, TypeOK
      <3>4. d = c
        BY <2>4, <3>3 DEF RailWrite
      <3>5. Need[c][pll[c]] <= Need[c][goal[c]]
        BY <3>3, <3>4, NeedMonotone DEF TypeOK
      <3>6. QED
        BY <3>3, <3>4, <3>5, NeedType DEF RailWrite, TypeOK
    <2>5. ASSUME NEW c \in Clusters
          PROVE  /\ Holds(c, pll[c])'
                 /\ at'[c] \in {"leave", "program"} => Holds(c, goal[c])'
      <3>1. Holds(c, pll[c]) /\ pll[c] \in Freqs /\ goal[c] \in Freqs
        BY DEF TypeOK
      <3>2. \A f \in Freqs : Holds(c, f) /\ (cmd[d].reg = c => cmd[d].val >= Need[c][f])
                             => Holds(c, f)'
        BY <1>3, <2>3, SubmitHolds
      <3>3. Holds(c, pll[c])'
        BY <1>1, <2>4, <3>1, <3>2 DEF clockVars, Holds
      <3>4. at[c] \in {"leave", "program"} => Holds(c, goal[c])'
        BY <1>1, <2>4, <3>1, <3>2 DEF clockVars, Holds
      <3>5. QED
        BY <1>1, <3>3, <3>4 DEF clockVars
    <2>6. ASSUME NEW c \in Callers
          PROVE  stage'[c] = "idle" <=> stage[c] = "idle"
      BY <1>3, <2>3 DEF Submit, ServiceInv, ServiceTypeOK
    <2>7. QED
      BY <1>1, <2>1, <2>2, <2>3, <2>5, <2>6, ClockAssumption
      DEF CallMatches, ClockKnown, RailWrite, clockVars
  <1>4. ASSUME NEW d \in Callers, GiveUp(d)
        PROVE  IInv'
    <2>1. ServiceInv'
      BY <1>4, GiveUpServiceInv
    <2>2. TypeOK'
      BY <1>1, <2>1 DEF TypeOK, ServiceInv, clockVars
    <2>3. pmic' = pmic /\ queue' = queue /\ cmd' = cmd
      BY <1>4 DEF GiveUp
    <2>4. ASSUME NEW c \in Callers
          PROVE  stage'[c] = "idle" <=> stage[c] = "idle"
      BY <1>4 DEF GiveUp, ServiceInv, ServiceTypeOK
    <2>5. QED
      BY <1>1, <2>1, <2>2, <2>3, <2>4, ClockAssumption
      DEF CallMatches, ClockKnown, RailWrite, clockVars, Holds
  <1>5. ASSUME NEW d \in Callers \ Clusters, NEW k \in Cmd,
               k.reg \notin Clusters, Call(d, k)
        PROVE  IInv'
    <2>1. ServiceInv'
      BY <1>5, CallServiceInv
    <2>2. TypeOK'
      BY <1>1, <2>1 DEF TypeOK, ServiceInv, clockVars
    <2>3. /\ pmic' = pmic /\ queue' = queue
          /\ \A c \in Callers : c # d => stage'[c] = stage[c] /\ cmd'[c] = cmd[c]
          /\ cmd'[d] = k
      BY <1>5 DEF Call, ServiceInv, ServiceTypeOK
    <2>4. QED
      BY <1>1, <1>5, <2>1, <2>2, <2>3, ClockAssumption
      DEF CallMatches, ClockKnown, RailWrite, clockVars, Holds
  <1>6. ASSUME NEW d \in Callers \ Clusters, Succeed(d) \/ Fail(d)
        PROVE  IInv'
    <2>1. ServiceInv'
      BY <1>6, SucceedServiceInv, FailServiceInv
    <2>2. TypeOK'
      BY <1>1, <2>1 DEF TypeOK, ServiceInv, clockVars
    <2>3. /\ pmic' = pmic /\ queue' = queue
          /\ \A c \in Callers : c # d => stage'[c] = stage[c] /\ cmd'[c] = cmd[c]
          /\ stage'[d] = "idle"
      BY <1>6 DEF Succeed, Fail, Return, ServiceInv, ServiceTypeOK
    <2>4. QED
      BY <1>1, <1>6, <2>1, <2>2, <2>3, ClockAssumption
      DEF CallMatches, ClockKnown, RailWrite, clockVars, Holds
  <1>7. QED
    BY <1>2, <1>3, <1>4, <1>5, <1>6 DEF ServiceStep

-----------------------------------------------------------------------------
LEMMA TargetIInv ==
    ASSUME IInv, NEW c \in Clusters, NEW f \in Freqs, Target(c, f)
    PROVE  IInv'
  <1>1. ServiceInv'
    BY StutterServiceInv DEF IInv, Target
  <1>2. TypeOK'
    BY <1>1 DEF IInv, TypeOK, Target, Goto, Places, svcVars, ServiceInv
  <1>3. ASSUME NEW d \in Clusters
        PROVE  /\ Holds(d, pll[d])'
               /\ at'[d] \in {"leave", "program"} => Holds(d, goal[d])'
               /\ CallMatches(d)' /\ ClockKnown(d)'
    BY DEF IInv, TypeOK, Target, Goto, svcVars, Holds, CallMatches, ClockKnown, RailWrite
  <1>4. QED
    BY <1>1, <1>2, <1>3 DEF IInv, Target, svcVars

LEMMA StartUpIInv ==
    ASSUME IInv, NEW c \in Clusters, StartUp(c)
    PROVE  IInv'
  <1>1. RailWrite(c) \in Cmd /\ c \in Callers
    BY RailWriteType, ClockAssumption DEF IInv
  <1>2. ServiceInv'
    BY <1>1, CallServiceInv DEF IInv, StartUp
  <1>3. TypeOK'
    BY <1>2 DEF IInv, TypeOK, StartUp, Goto, Places, ServiceInv
  <1>4. /\ pmic' = pmic /\ queue' = queue
        /\ \A d \in Callers : d # c => stage'[d] = stage[d] /\ cmd'[d] = cmd[d]
        /\ stage'[c] = "open" /\ cmd'[c] = RailWrite(c)
    BY <1>1 DEF IInv, StartUp, Call, ServiceInv, ServiceTypeOK
  <1>5. ASSUME NEW d \in Clusters
        PROVE  /\ Holds(d, pll[d])'
               /\ at'[d] \in {"leave", "program"} => Holds(d, goal[d])'
               /\ CallMatches(d)' /\ ClockKnown(d)'
    BY <1>4, ClockAssumption
    DEF IInv, TypeOK, StartUp, Goto, Holds, CallMatches, ClockKnown, RailWrite
  <1>6. QED
    BY <1>2, <1>3, <1>4, <1>5 DEF IInv

LEMMA StartDownIInv ==
    ASSUME IInv, NEW c \in Clusters, StartDown(c)
    PROVE  IInv'
  <1>1. ServiceInv'
    BY StutterServiceInv DEF IInv, StartDown
  <1>2. TypeOK'
    BY <1>1 DEF IInv, TypeOK, StartDown, Goto, Places, svcVars, ServiceInv
  <1>3. Need[c][goal[c]] <= Need[c][pll[c]]
    BY NeedMonotone DEF IInv, TypeOK, StartDown
  <1>4. /\ Need[c][goal[c]] \in Nat /\ Need[c][pll[c]] \in Nat
        /\ pmic[c] \in Nat /\ \A i \in 1..Len(queue) : queue[i].val \in Nat
    <2>1. queue \in Seq(Cmd) /\ pmic \in [Regs -> Vals] /\ c \in Regs
      BY ClockAssumption DEF IInv, TypeOK, ServiceTypeOK
    <2>2. \A i \in 1..Len(queue) : queue[i] \in Cmd
      BY <2>1
    <2>3. \A i \in 1..Len(queue) : queue[i].val \in Vals
      BY <2>2, CmdType
    <2>4. Need[c][goal[c]] \in Nat /\ Need[c][pll[c]] \in Nat
      BY NeedType DEF IInv, TypeOK
    <2>5. QED
      BY <2>1, <2>3, <2>4, ServiceAssumption
  <1>5. Holds(c, goal[c])
    BY <1>3, <1>4 DEF IInv, Holds
  <1>6. ASSUME NEW d \in Clusters
        PROVE  /\ Holds(d, pll[d])'
               /\ at'[d] \in {"leave", "program"} => Holds(d, goal[d])'
               /\ CallMatches(d)' /\ ClockKnown(d)'
    BY <1>5 DEF IInv, TypeOK, StartDown, Goto, svcVars, Holds, CallMatches, ClockKnown, RailWrite
  <1>7. QED
    BY <1>1, <1>2, <1>6 DEF IInv, StartDown, svcVars

LEMMA RaisedIInv ==
    ASSUME IInv, NEW c \in Clusters, Raised(c)
    PROVE  IInv'
  <1>1. c \in Callers
    BY ClockAssumption
  <1>2. ServiceInv'
    BY <1>1, SucceedServiceInv DEF IInv, Raised
  <1>3. TypeOK'
    BY <1>2 DEF IInv, TypeOK, Raised, Goto, Places, ServiceInv
  <1>4. /\ pmic' = pmic /\ queue' = queue
        /\ \A d \in Callers : d # c => stage'[d] = stage[d] /\ cmd'[d] = cmd[d]
        /\ stage'[c] = "idle"
    BY <1>1 DEF IInv, Raised, Succeed, Return, ServiceInv, ServiceTypeOK
  <1>5. cmd[c] = RailWrite(c)
    BY DEF IInv, Raised, CallMatches
  <1>6. queue = <<>> /\ pmic[c] = Need[c][goal[c]]
    BY <1>1, <1>5 DEF IInv, ServiceInv, AnsweredIsSettled, Raised, Succeed, RailWrite
  <1>7. Holds(c, goal[c])
    BY <1>6, NeedType DEF Holds, IInv, TypeOK
  <1>8. ASSUME NEW d \in Clusters
        PROVE  /\ Holds(d, pll[d])'
               /\ at'[d] \in {"leave", "program"} => Holds(d, goal[d])'
               /\ CallMatches(d)' /\ ClockKnown(d)'
    <2>1. d \in Callers /\ d \in DOMAIN at
      BY ClockAssumption DEF IInv, TypeOK
    <2>2. /\ Holds(d, pll[d])'
          /\ at'[d] \in {"leave", "program"} => Holds(d, goal[d])'
      BY <1>4, <1>7, <2>1 DEF IInv, TypeOK, Raised, Goto, Holds
    <2>3. CallMatches(d)'
      BY <1>4, <2>1 DEF IInv, TypeOK, Raised, Goto, CallMatches, RailWrite
    <2>4. ClockKnown(d)'
      BY <2>1 DEF IInv, TypeOK, Raised, Goto, ClockKnown
    <2>5. QED
      BY <2>2, <2>3, <2>4
  <1>9. QED
    BY <1>2, <1>3, <1>4, <1>8 DEF IInv

\* The call ends and the transition with it.
LEMMA EndIInv ==
    ASSUME IInv, NEW c \in Clusters, RaiseFailed(c) \/ Lowered(c)
    PROVE  IInv'
  <1>1. c \in Callers
    BY ClockAssumption
  <1>2. ServiceInv'
    BY <1>1, SucceedServiceInv, FailServiceInv DEF IInv, RaiseFailed, Lowered
  <1>3. TypeOK'
    BY <1>2 DEF IInv, TypeOK, RaiseFailed, Lowered, Goto, Places, ServiceInv
  <1>4. /\ pmic' = pmic /\ queue' = queue
        /\ \A d \in Callers : d # c => stage'[d] = stage[d] /\ cmd'[d] = cmd[d]
        /\ stage'[c] = "idle"
    BY <1>1
    DEF IInv, RaiseFailed, Lowered, Succeed, Fail, Return, ServiceInv, ServiceTypeOK
  <1>5. ASSUME NEW d \in Clusters
        PROVE  /\ Holds(d, pll[d])'
               /\ at'[d] \in {"leave", "program"} => Holds(d, goal[d])'
               /\ CallMatches(d)' /\ ClockKnown(d)'
    <2>1. d \in Callers /\ d \in DOMAIN at
      BY ClockAssumption DEF IInv, TypeOK
    <2>2. /\ Holds(d, pll[d])'
          /\ at'[d] \in {"leave", "program"} => Holds(d, goal[d])'
      BY <1>4, <2>1 DEF IInv, TypeOK, RaiseFailed, Lowered, Goto, Holds
    <2>3. CallMatches(d)'
      BY <1>4, <2>1 DEF IInv, TypeOK, RaiseFailed, Lowered, Goto, CallMatches, RailWrite
    <2>4. ClockKnown(d)'
      BY <2>1 DEF IInv, TypeOK, RaiseFailed, Lowered, Goto, CallMatches, ClockKnown
    <2>5. QED
      BY <2>2, <2>3, <2>4
  <1>6. QED
    BY <1>2, <1>3, <1>4, <1>5 DEF IInv

LEMMA LeaveIInv ==
    ASSUME IInv, NEW c \in Clusters, Leave(c)
    PROVE  IInv'
  <1>1. ServiceInv'
    BY StutterServiceInv DEF IInv, Leave
  <1>2. TypeOK'
    BY <1>1 DEF IInv, TypeOK, Leave, Goto, Places, svcVars, ServiceInv
  <1>3. ASSUME NEW d \in Clusters
        PROVE  /\ Holds(d, pll[d])'
               /\ at'[d] \in {"leave", "program"} => Holds(d, goal[d])'
               /\ CallMatches(d)' /\ ClockKnown(d)'
    BY DEF IInv, TypeOK, Leave, Goto, svcVars, Holds, CallMatches, ClockKnown, RailWrite
  <1>4. QED
    BY <1>1, <1>2, <1>3 DEF IInv, Leave, svcVars

LEMMA ProgramIInv ==
    ASSUME IInv, NEW c \in Clusters, Program(c)
    PROVE  IInv'
  <1>1. ServiceInv'
    BY StutterServiceInv DEF IInv, Program
  <1>2. TypeOK'
    BY <1>1 DEF IInv, TypeOK, Program, Goto, Places, svcVars, ServiceInv
  <1>3. ASSUME NEW d \in Clusters
        PROVE  /\ Holds(d, pll[d])'
               /\ at'[d] \in {"leave", "program"} => Holds(d, goal[d])'
               /\ CallMatches(d)' /\ ClockKnown(d)'
    BY DEF IInv, TypeOK, Program, Goto, svcVars, Holds, CallMatches, ClockKnown, RailWrite
  <1>4. QED
    BY <1>1, <1>2, <1>3 DEF IInv, Program, svcVars

LEMMA BackIInv ==
    ASSUME IInv, NEW c \in Clusters, Back(c)
    PROVE  IInv'
  <1>1. CASE up[c]
    <2>1. ServiceInv'
      BY <1>1, StutterServiceInv DEF IInv, Back
    <2>2. TypeOK'
      BY <1>1, <2>1 DEF IInv, TypeOK, Back, Goto, Places, svcVars, ServiceInv
    <2>3. ASSUME NEW d \in Clusters
          PROVE  /\ Holds(d, pll[d])'
                 /\ at'[d] \in {"leave", "program"} => Holds(d, goal[d])'
                 /\ CallMatches(d)' /\ ClockKnown(d)'
      BY <1>1 DEF IInv, TypeOK, Back, Goto, svcVars, Holds, CallMatches, ClockKnown,
                  RailWrite
    <2>4. QED
      BY <1>1, <2>1, <2>2, <2>3 DEF IInv, Back, svcVars
  <1>2. CASE ~up[c]
    <2>1. RailWrite(c) \in Cmd /\ c \in Callers
      BY RailWriteType, ClockAssumption DEF IInv
    <2>2. Call(c, RailWrite(c))
      BY <1>2 DEF Back
    <2>3. ServiceInv'
      BY <2>1, <2>2, CallServiceInv DEF IInv
    <2>4. TypeOK'
      BY <1>2, <2>3 DEF IInv, TypeOK, Back, Goto, Places, ServiceInv
    <2>5. /\ pmic' = pmic /\ queue' = queue
          /\ \A d \in Callers : d # c => stage'[d] = stage[d] /\ cmd'[d] = cmd[d]
          /\ stage'[c] = "open" /\ cmd'[c] = RailWrite(c)
      BY <2>1, <2>2 DEF IInv, Call, ServiceInv, ServiceTypeOK
    <2>6. ASSUME NEW d \in Clusters
          PROVE  /\ Holds(d, pll[d])'
                 /\ at'[d] \in {"leave", "program"} => Holds(d, goal[d])'
                 /\ CallMatches(d)' /\ ClockKnown(d)'
      <3>1. d \in Callers /\ d \in DOMAIN at
        BY ClockAssumption DEF IInv, TypeOK
      <3>2. /\ Holds(d, pll[d])'
            /\ at'[d] \in {"leave", "program"} => Holds(d, goal[d])'
        BY <1>2, <2>5, <3>1 DEF IInv, TypeOK, Back, Goto, Holds
      <3>3. CallMatches(d)'
        BY <1>2, <2>5, <3>1
        DEF IInv, TypeOK, Back, Goto, CallMatches, ClockKnown, RailWrite
      <3>4. ClockKnown(d)'
        BY <1>2, <3>1 DEF IInv, TypeOK, Back, Goto, ClockKnown
      <3>5. QED
        BY <3>2, <3>3, <3>4
    <2>7. QED
      BY <2>1, <2>3, <2>4, <2>5, <2>6 DEF IInv
  <1>3. QED
    BY <1>1, <1>2 DEF IInv, TypeOK

LEMMA StutterIInv ==
    ASSUME IInv, UNCHANGED vars
    PROVE  IInv'
  BY StutterServiceInv
  DEF IInv, TypeOK, vars, svcVars, ServiceInv, Holds, CallMatches, ClockKnown,
      RailWrite

(* In every reachable state the rails, what the mailbox still holds for     *)
(* them, and the place each transition has reached in s9p_set_step agree.   *)
THEOREM Inductive == Spec => []IInv
  <1>1. Init => IInv
    BY InitIInv
  <1>2. ASSUME IInv, [Next]_vars
        PROVE  IInv'
    <2>1. CASE ServiceStep
      BY <1>2, <2>1, ServiceStepIInv
    <2>2. ASSUME NEW c \in Clusters, SetStep(c)
          PROVE  IInv'
      BY <1>2, <2>2, StartUpIInv, StartDownIInv, RaisedIInv, EndIInv, LeaveIInv,
         ProgramIInv, BackIInv DEF SetStep
    <2>3. ASSUME NEW c \in Clusters, NEW f \in Freqs, Target(c, f)
          PROVE  IInv'
      BY <1>2, <2>3, TargetIInv
    <2>4. CASE UNCHANGED vars
      BY <1>2, <2>4, StutterIInv
    <2>5. QED
      BY <1>2, <2>1, <2>2, <2>3, <2>4 DEF Next
  <1>3. QED
    BY <1>1, <1>2, PTL DEF Spec

\* In every reachable state the variables have their types.
THEOREM TypeCorrect == Spec => []TypeOK
  <1>1. IInv => TypeOK
    BY DEF IInv
  <1>2. QED
    BY <1>1, Inductive, PTL

\* s9p_set_step never runs a cluster on a rail too low for it, however many
\* BUCK writes fail, time out, are repeated or are performed late.
THEOREM RailSafe == Spec => []RailCoversClock
  <1>1. IInv => RailCoversClock
    BY DEF IInv, Holds, RailCoversClock
  <1>2. QED
    BY <1>1, Inductive, PTL

\* A transition that is reported as done, or as failed, is what happened.
THEOREM CurTrue == Spec => []CurIsTheClock
  <1>1. IInv => CurIsTheClock
    BY DEF IInv, ClockKnown, CurIsTheClock
  <1>2. QED
    BY <1>1, Inductive, PTL

-----------------------------------------------------------------------------
\* Each action of the module is a step of the policy of every cluster: the first
\* is Aim, the last of a transition StepSet or StepFailed, the others none.
LEMMA TargetIsStep ==
    ASSUME IInv, NEW c \in Clusters, NEW f \in Freqs, Target(c, f),
           NEW d \in Clusters
    PROVE  PolicyStep(d)
  <1>1. /\ at \in [Clusters -> Places] /\ goal \in [Clusters -> Freqs]
        /\ cur' = cur /\ at[c] = "idle" /\ at' = [at EXCEPT ![c] = "want"]
        /\ goal' = [goal EXCEPT ![c] = f]
    BY DEF IInv, TypeOK, Target, Goto
  <1>2. cur[c] = pll[c] /\ f # cur[c]
    BY <1>1 DEF IInv, ClockKnown, Target
  <1>3. CASE d = c
    BY <1>1, <1>2, <1>3
    DEF PolicyStep, Step!StepNext, Step!Aim, Step!Unlocked, Step!stepVars
  <1>4. CASE d # c
    BY <1>1, <1>4 DEF PolicyStep, Step!stepVars
  <1>5. QED
    BY <1>3, <1>4

LEMMA SetStepIsStep ==
    ASSUME IInv, NEW c \in Clusters, SetStep(c), NEW d \in Clusters
    PROVE  PolicyStep(d)
  <1>1. /\ at \in [Clusters -> Places] /\ cur \in [Clusters -> Freqs]
        /\ goal' = goal /\ at[c] # "idle" /\ cur[c] # goal[c]
        /\ cur[c] \in Nat /\ goal[c] \in Nat
    BY ClockAssumption DEF IInv, TypeOK, ClockKnown, SetStep, StartUp, StartDown, Raised,
       RaiseFailed, Leave, Program, Back, Lowered
  <1>2. \/ cur' = cur /\ \E p \in Places \ {"idle"} : at' = [at EXCEPT ![c] = p]
        \/ cur' = [cur EXCEPT ![c] = goal[c]] /\ at' = [at EXCEPT ![c] = "idle"]
        \/ RaiseFailed(c)
    BY DEF SetStep, StartUp, StartDown, Raised, Leave, Program, Back, Lowered, Goto, Places
  <1>3. CASE d # c
    BY <1>1, <1>2, <1>3 DEF PolicyStep, Step!stepVars, RaiseFailed, Goto
  <1>4. CASE d = c /\ cur' = cur /\ \E p \in Places \ {"idle"} : at' = [at EXCEPT ![c] = p]
    BY <1>1, <1>4 DEF PolicyStep, Step!stepVars
  <1>5. CASE d = c /\ cur' = [cur EXCEPT ![c] = goal[c]]
              /\ at' = [at EXCEPT ![c] = "idle"]
    BY <1>1, <1>5
    DEF PolicyStep, Step!StepNext, Step!StepSet, Step!Unlocked, Step!stepVars
  <1>6. CASE d = c /\ RaiseFailed(c)
    <2>1. cur' = cur /\ at[c] = "raise" /\ at' = [at EXCEPT ![c] = "idle"]
      BY <1>6 DEF RaiseFailed, Goto
    <2>2. cur[c] < goal[c]
      BY <2>1 DEF IInv, CallMatches, ClockKnown
    <2>3. QED
      BY <1>1, <1>6, <2>1, <2>2
      DEF PolicyStep, Step!StepNext, Step!StepFailed, Step!Unlocked, Step!stepVars
  <1>7. QED
    BY <1>2, <1>3, <1>4, <1>5, <1>6

(* s9p_target over the PMIC service is, for the policy of each cluster, the *)
(* transition of CpuStep that CpuPolicy is built on.                        *)
THEOREM StepRefined == Spec => StepImplemented
  <1> DEFINE Steps == \A c \in Clusters : PolicyStep(c)
  <1>1. Init => \A c \in Clusters : Step(c)!StepInit
    BY DEF Init, Step!StepInit
  <1>2. ASSUME IInv, Next
        PROVE  Steps
    <2>1. CASE ServiceStep
      BY <2>1 DEF ServiceStep, clockVars, PolicyStep, Step!stepVars
    <2>2. ASSUME NEW c \in Clusters, SetStep(c)
          PROVE  Steps
      BY <1>2, <2>2, SetStepIsStep
    <2>3. ASSUME NEW c \in Clusters, NEW f \in Freqs, Target(c, f)
          PROVE  Steps
      BY <1>2, <2>3, TargetIsStep
    <2>4. QED
      BY <1>2, <2>1, <2>2, <2>3 DEF Next
  <1>3. IInv /\ [Next]_vars => [Steps]_vars
    BY <1>2
  <1>4. QED
    BY <1>1, <1>3, Inductive, PTL DEF Spec, StepImplemented


(* Seen from the PMIC, the clusters are callers of the service like others: *)
(* what is proved of the service holds under the driver, and the mailbox,   *)
(* which implements the service, may take its place.                        *)
THEOREM ClockUsesService == Spec => ServiceSpec
  <1>1. Init => ServiceInit
    BY DEF Init
  <1>2. ASSUME IInv, [Next]_vars
        PROVE  [ServiceNext]_svcVars
    <2>1. CASE ServiceStep
      BY <2>1 DEF ServiceStep, ServiceNext
    <2>2. ASSUME NEW c \in Clusters, SetStep(c)
          PROVE  [ServiceNext]_svcVars
      <3>1. c \in Callers /\ RailWrite(c) \in Cmd
        BY <1>2, RailWriteType, ClockAssumption DEF IInv
      <3>2. Call(c, RailWrite(c)) \/ Succeed(c) \/ Fail(c) \/ UNCHANGED svcVars
        BY <2>2 DEF SetStep, StartUp, StartDown, Raised, RaiseFailed, Leave, Program, Back,
           Lowered
      <3>3. QED
        BY <3>1, <3>2 DEF ServiceNext
    <2>3. ASSUME NEW c \in Clusters, NEW f \in Freqs, Target(c, f)
          PROVE  UNCHANGED svcVars
      BY <2>3 DEF Target
    <2>4. CASE UNCHANGED vars
      BY <2>4 DEF vars, svcVars
    <2>5. QED
      BY <1>2, <2>1, <2>2, <2>3, <2>4 DEF Next
  <1>3. IInv /\ [Next]_vars => [ServiceNext]_svcVars
    BY <1>2
  <1>4. QED
    BY <1>1, <1>3, Inductive, PTL DEF Spec, ServiceSpec


-----------------------------------------------------------------------------
(***************************************************************************)
(* PART 2: the greatest and the least element of a finite set.  The        *)
(* library has induction over finite sets only with an operator for its    *)
(* parameter; that the subset ordering is well-founded serves instead.     *)
(***************************************************************************)
\* A finite, non-empty set of integers has a greatest element: of the sets of
\* elements above one of its elements, one has no smaller one below it.
LEMMA GreatestExists ==
    ASSUME NEW S, S \subseteq Int, S # {}, IsFiniteSet(S)
    PROVE  \E m \in S : \A n \in S : n <= m
  <1> DEFINE Above(x) == {y \in S : x < y}
             Family == {Above(x) : x \in S}
  <1>1. Family \subseteq FiniteSubsetsOf(S) /\ Family # {}
    <2>1. \A x \in S : Above(x) \in SUBSET S
      OBVIOUS
    <2>2. \A x \in S : IsFiniteSet(Above(x))
      BY <2>1, FS_Subset
    <2>3. QED
      BY <2>1, <2>2 DEF FiniteSubsetsOf
  <1>2. PICK A \in Family : \A B \in Family : ~ (<<B, A>> \in StrictSubsetOrdering(S))
    BY <1>1, FS_StrictSubsetOrderingWellFounded, WFMin
  <1>3. PICK m \in S : A = Above(m)
    OBVIOUS
  <1>4. ASSUME NEW n \in S, ~(n <= m)
        PROVE  FALSE
    <2>1. m < n /\ n \in Above(m) /\ n \notin Above(n)
      BY <1>4
    <2>2. \A y \in Above(n) : y \in Above(m)
      BY <1>4
    <2>3. Above(n) \in SUBSET S /\ A \in SUBSET S /\ Above(n) \subseteq A /\ Above(n) # A
      BY <1>3, <2>1, <2>2
    <2>4. <<Above(n), A>> \in StrictSubsetOrdering(S)
      BY <2>3 DEF StrictSubsetOrdering
    <2>5. QED
      BY <1>2, <2>4
  <1>5. QED
    BY <1>4

\* What Max and Min of the community modules return.
LEMMA MaxOf ==
    ASSUME NEW S, S \subseteq Int, S # {}, IsFiniteSet(S)
    PROVE  Max(S) \in S /\ \A n \in S : n <= Max(S)
  <1>1. \E m \in S : \A n \in S : m >= n
    <2>1. PICK m \in S : \A n \in S : n <= m
      BY GreatestExists
    <2>2. \A n \in S : m >= n
      BY <2>1
    <2>3. QED
      BY <2>2
  <1>2. Max(S) \in S /\ \A n \in S : Max(S) >= n
    BY <1>1 DEF Max
  <1>3. QED
    BY <1>2

\* The same for the least: of the sets of elements below one of its elements.
LEMMA LeastExists ==
    ASSUME NEW S, S \subseteq Int, S # {}, IsFiniteSet(S)
    PROVE  \E m \in S : \A n \in S : m <= n
  <1> DEFINE Below(x) == {y \in S : y < x}
             Family == {Below(x) : x \in S}
  <1>1. Family \subseteq FiniteSubsetsOf(S) /\ Family # {}
    <2>1. \A x \in S : Below(x) \in SUBSET S
      OBVIOUS
    <2>2. \A x \in S : IsFiniteSet(Below(x))
      BY <2>1, FS_Subset
    <2>3. QED
      BY <2>1, <2>2 DEF FiniteSubsetsOf
  <1>2. PICK A \in Family : \A B \in Family : ~ (<<B, A>> \in StrictSubsetOrdering(S))
    BY <1>1, FS_StrictSubsetOrderingWellFounded, WFMin
  <1>3. PICK m \in S : A = Below(m)
    OBVIOUS
  <1>4. ASSUME NEW n \in S, ~(m <= n)
        PROVE  FALSE
    <2>1. n < m /\ n \in Below(m) /\ n \notin Below(n)
      BY <1>4
    <2>2. \A y \in Below(n) : y \in Below(m)
      BY <1>4
    <2>3. Below(n) \in SUBSET S /\ A \in SUBSET S /\ Below(n) \subseteq A /\ Below(n) # A
      BY <1>3, <2>1, <2>2
    <2>4. <<Below(n), A>> \in StrictSubsetOrdering(S)
      BY <2>3 DEF StrictSubsetOrdering
    <2>5. QED
      BY <1>2, <2>4
  <1>5. QED
    BY <1>4

LEMMA MinOf ==
    ASSUME NEW S, S \subseteq Int, S # {}, IsFiniteSet(S)
    PROVE  Min(S) \in S /\ \A n \in S : Min(S) <= n
  BY LeastExists DEF Min

-----------------------------------------------------------------------------
(***************************************************************************)
(* PART 3: the filter and the thermal levels (ThermalLevel).               *)
(***************************************************************************)
\* The levels are the numbers from 0 to the last one.
LEMMA LastInLevel ==
    /\ Last \in Nat /\ Level \subseteq Nat /\ 0 \in Level
    /\ \A i \in Int : i \in Level <=> 0 <= i /\ i <= Last
  BY ThermalAssumption DEF Level

\* The level a temperature asks for is one it reaches, and there is no higher one.
LEMMA WantIs ==
    ASSUME NEW temp \in Int
    PROVE  /\ Want(temp) \in Level
           /\ Want(temp) > 0 => temp >= UpAt[Want(temp)]
           /\ \A i \in 1 .. Last : temp >= UpAt[i] => i <= Want(temp)
  <1> DEFINE Hot == {i \in 1 .. Last : temp >= UpAt[i]}
             S == {0} \cup Hot
  <1>1. S \subseteq Int /\ S # {}
    OBVIOUS
  <1>2. IsFiniteSet(S)
    <2>1. IsFiniteSet(1 .. Last)
      BY LastInLevel, FS_Interval
    <2>2. IsFiniteSet(Hot)
      BY <2>1, FS_Subset
    <2>3. QED
      BY <2>2, FS_Singleton, FS_Union
  <1>3. Max(S) \in S /\ \A n \in S : n <= Max(S)
    BY <1>1, <1>2, MaxOf
  <1>4. Want(temp) = Max(S)
    BY DEF Want
  <1> HIDE DEF S
  <1>5. Want(temp) \in S /\ \A n \in S : n <= Want(temp)
    BY <1>3, <1>4
  <1>6. QED
    BY <1>5, LastInLevel DEF S

\* The filter holds one to three samples once there was a reading.
LEMMA RememberType ==
    ASSUME LevelTypeOK, NEW r \in Readings
    PROVE  /\ Remember(r) \in Seq(Readings) /\ Len(Remember(r)) \in 1 .. 3
  <1>1. window \in Seq(Readings) /\ Len(window) \in 0 .. 3
    <2>1. window \in Seq(Readings) /\ Len(window) <= 3
      BY DEF LevelTypeOK
    <2>2. Len(window) \in Nat
      BY <2>1
    <2>3. \A n \in Nat : n <= 3 => n \in 0 .. 3
      OBVIOUS
    <2>4. QED
      BY <2>1, <2>2, <2>3
  <1>2. CASE Len(window) < 3
    BY <1>1, <1>2 DEF Remember
  <1>3. CASE ~(Len(window) < 3)
    <2>1. window # <<>>
      BY <1>1, <1>3
    <2>2. Tail(window) \in Seq(Readings) /\ Len(Tail(window)) = Len(window) - 1
      BY <1>1, <2>1
    <2>3. Remember(r) = Append(Tail(window), r)
      BY <1>3 DEF Remember
    <2>4. QED
      BY <1>1, <1>3, <2>2, <2>3
  <1>4. QED
    BY <1>2, <1>3

\* There are three samples to take the median of, all of them readings.
LEMMA SamplesType ==
    ASSUME NEW w \in Seq(Readings), Len(w) \in 1 .. 3
    PROVE  \A k \in 1 .. 3 : Samples(w)[k] \in Readings
  <1>1. \A k \in 1 .. Len(w) : w[k] \in Readings
    OBVIOUS
  <1>2. CASE Len(w) = 1
    <2>1. Samples(w) = <<w[1], w[1], w[1]>> /\ w[1] \in Readings
      BY <1>1, <1>2 DEF Samples
    <2>2. QED
      BY <2>1
  <1>3. CASE Len(w) = 2
    <2>1. Samples(w) = <<w[1], w[1], w[2]>> /\ w[1] \in Readings /\ w[2] \in Readings
      BY <1>1, <1>3 DEF Samples
    <2>2. QED
      BY <2>1
  <1>4. CASE Len(w) = 3
    <2>1. Samples(w) = w
      BY <1>4 DEF Samples
    <2>2. QED
      BY <1>1, <1>4, <2>1
  <1>5. QED
    BY <1>2, <1>3, <1>4

\* The expression of s9p_tmu_filtered is the median: it is one of the three
\* samples, and at least two of them reach what it reaches.
LEMMA MedianIs ==
    ASSUME NEW s, \A k \in 1 .. 3 : s[k] \in Int
    PROVE  /\ Median(s) \in {s[1], s[2], s[3]}
           /\ \A u \in Int : Median(s) >= u =>
                \E i, j \in 1 .. 3 : i # j /\ s[i] >= u /\ s[j] >= u
           /\ \A u \in Int : Median(s) <= u =>
                \E i, j \in 1 .. 3 : i # j /\ s[i] <= u /\ s[j] <= u
  <1>1. s[1] \in Int /\ s[2] \in Int /\ s[3] \in Int
    OBVIOUS
  <1> DEFINE a == s[1]
             b == s[2]
             c == s[3]
  <1>2. Median(s) = Higher(Lower(a, b), Lower(Higher(a, b), c))
    BY DEF Median
  <1>3. /\ Median(s) \in {a, b, c}
        /\ \A u \in Int : Median(s) >= u =>
             (a >= u /\ b >= u) \/ (a >= u /\ c >= u) \/ (b >= u /\ c >= u)
        /\ \A u \in Int : Median(s) <= u =>
             (a <= u /\ b <= u) \/ (a <= u /\ c <= u) \/ (b <= u /\ c <= u)
    BY <1>1, <1>2 DEF Higher, Lower
  <1>4. 1 \in 1 .. 3 /\ 2 \in 1 .. 3 /\ 3 \in 1 .. 3
    OBVIOUS
  <1>5. QED
    BY <1>3, <1>4

\* The filtered temperature of a reading.
LEMMA MedianType ==
    ASSUME LevelTypeOK, NEW r \in Readings
    PROVE  Median(Samples(Remember(r))) \in Int
  <1> DEFINE s == Samples(Remember(r))
  <1>1. \A k \in 1 .. 3 : s[k] \in Readings
    BY RememberType, SamplesType
  <1>2. \A k \in 1 .. 3 : s[k] \in Int
    BY <1>1, ThermalAssumption
  <1> HIDE DEF s
  <1>3. Median(s) \in {s[1], s[2], s[3]}
    BY <1>2, MedianIs
  <1>4. Median(s) \in Int
    BY <1>2, <1>3
  <1>5. QED
    BY <1>4 DEF s

\* A level that rises is the one the temperature asks for.
LEMMA NextLevel ==
    ASSUME LevelTypeOK, NEW temp \in Int
    PROVE  /\ ThermalNext(temp) \in Level
           /\ ThermalNext(temp) > lvl => ThermalNext(temp) = Want(temp)
  <1>1. Want(temp) \in Level /\ lvl \in Level
    BY WantIs DEF LevelTypeOK
  <1>2. CASE Want(temp) > lvl
    BY <1>1, <1>2 DEF ThermalNext
  <1>3. CASE ~(Want(temp) > lvl) /\ Cools(temp)
    BY <1>1, <1>3, LastInLevel DEF ThermalNext, Cools
  <1>4. CASE ~(Want(temp) > lvl) /\ ~Cools(temp)
    BY <1>1, <1>4, LastInLevel DEF ThermalNext
  <1>5. QED
    BY <1>2, <1>3, <1>4

\* A reading leaves every variable of the level in its type.
LEMMA JudgeType ==
    ASSUME LevelTypeOK, NEW r \in Readings \cup {NoReading}, NEW taken \in BOOLEAN,
           Judge(r, taken), taken \/ refusals < MaxRefusals
    PROVE  /\ reading' \in Readings \cup {NoReading}
           /\ window' \in Seq(Readings) /\ Len(window') <= 3
           /\ lvl' \in Level /\ held' \in 0 .. Hold /\ refusals' \in 0 .. MaxRefusals
  <1>1. Hold \in Nat /\ MaxRefusals \in Nat /\ held \in 0 .. Hold
        /\ refusals \in 0 .. MaxRefusals
    BY ThermalAssumption DEF LevelTypeOK
  <1>2. Lower(held + 1, Hold) \in 0 .. Hold
    BY <1>1 DEF Lower
  <1>3. CASE r = NoReading
    BY <1>1, <1>2, <1>3 DEF Judge, LevelTypeOK
  <1>4. CASE r # NoReading
    <2>1. Remember(r) \in Seq(Readings) /\ Len(Remember(r)) \in 1 .. 3
      BY <1>4, RememberType
    <2>2. Median(Samples(Remember(r))) \in Int
      BY <1>4, MedianType
    <2>3. ThermalNext(Median(Samples(Remember(r)))) \in Level
      BY <2>2, NextLevel
    <2>4. \/ refusals' = refusals
          \/ refusals' = 0
          \/ refusals' = refusals + 1 /\ ~taken
      BY <1>4 DEF Judge
    <2>5. refusals' \in 0 .. MaxRefusals
      BY <1>1, <2>4
    <2>6. held' = 0 \/ held' = Lower(held + 1, Hold)
      BY <1>4 DEF Judge
    <2>7. held' \in 0 .. Hold
      BY <1>1, <1>2, <2>6
    <2>8. /\ window' = Remember(r) /\ reading' = r
          /\ lvl' = lvl \/ lvl' = ThermalNext(Median(Samples(Remember(r))))
      BY <1>4 DEF Judge
    <2>9. lvl' \in Level
      BY <2>3, <2>8 DEF LevelTypeOK
    <2>10. Len(window') <= 3
      <3>1. \A n \in 1 .. 3 : n <= 3
        OBVIOUS
      <3>2. QED
        BY <2>1, <2>8, <3>1
    <2>11. QED
      BY <2>1, <2>5, <2>7, <2>8, <2>9, <2>10
  <1>5. QED
    BY <1>3, <1>4

\* Only an adopted level reaches `lvl', and it is one the median asks for.
LEMMA JudgeRises ==
    ASSUME LevelTypeOK, NEW r \in Readings \cup {NoReading}, NEW taken \in BOOLEAN,
           Judge(r, taken), lvl < lvl'
    PROVE  /\ window' = Remember(r) /\ r \in Readings
           /\ lvl' = Want(Median(Samples(window')))
  <1>1. lvl \in Level /\ ~(lvl < lvl)
    BY LastInLevel DEF LevelTypeOK
  <1>2. r # NoReading /\ r \in Readings
    BY <1>1 DEF Judge
  <1>3. window' = Remember(r) /\ lvl' = ThermalNext(Median(Samples(window')))
    BY <1>1, <1>2 DEF Judge
  <1>4. Median(Samples(window')) \in Int
    BY <1>2, <1>3, MedianType
  <1>5. QED
    BY <1>2, <1>3, <1>4, NextLevel

\* Two places of three at which s reaches u are enough to count two.
LEMMA TwoOfThree ==
    ASSUME NEW s, NEW u, NEW i \in 1 .. 3, NEW j \in 1 .. 3, i # j,
           s[i] >= u, s[j] >= u
    PROVE  Cardinality({k \in 1 .. 3 : s[k] >= u}) >= 2
  <1> DEFINE S == {k \in 1 .. 3 : s[k] >= u}
  <1>1. IsFiniteSet(S)
    <2>1. S \in SUBSET Nat /\ \A k \in S : k <= 3
      OBVIOUS
    <2>2. QED
      BY <2>1, FS_BoundedSetOfNaturals
  <1>2. Cardinality({i, j}) = 2 /\ IsFiniteSet({i, j})
    <2>1. IsFiniteSet({i}) /\ Cardinality({i}) = 1
      BY FS_Singleton
    <2>2. j \notin {i} /\ {i, j} = {i} \cup {j}
      OBVIOUS
    <2>3. /\ IsFiniteSet({i} \cup {j})
          /\ Cardinality({i} \cup {j}) = IF j \in {i} THEN 1 ELSE 1 + 1
      BY <2>1, FS_AddElement
    <2>4. QED
      BY <2>2, <2>3
  <1>3. {i, j} \in SUBSET S
    OBVIOUS
  <1>4. Cardinality({i, j}) <= Cardinality(S)
    BY <1>1, <1>3, FS_Subset
  <1>5. Cardinality(S) \in Nat
    BY <1>1, FS_CardinalityType
  <1>6. QED
    BY <1>2, <1>4, <1>5

\* The level the driver starts with.
LEMMA LevelInitType == LevelInit => LevelTypeOK
  <1>1. 0 \in Level /\ Hold \in 0 .. Hold /\ 0 \in 0 .. MaxRefusals
    BY LastInLevel, ThermalAssumption
  <1>2. SUFFICES ASSUME LevelInit PROVE LevelTypeOK
    OBVIOUS
  <1>3. window \in Seq(Readings) /\ Len(window) <= 3
    BY <1>2 DEF LevelInit
  <1>4. reading \in Readings \cup {NoReading} /\ beat \in BOOLEAN
    BY <1>2 DEF LevelInit
  <1>5. lvl \in Level /\ held \in 0 .. Hold /\ refusals \in 0 .. MaxRefusals
    BY <1>1, <1>2 DEF LevelInit
  <1>6. QED
    BY <1>3, <1>4, <1>5 DEF LevelTypeOK

\* The level never leaves the table of levels, the filter never holds more than
\* three samples, and the hold time and the refusals are counted up to their
\* limits, whatever the sensor reads.
THEOREM LevelTypeCorrect == LevelSpec => []LevelTypeOK
  <1>1. LevelInit => LevelTypeOK
    BY LevelInitType
  <1>2. ASSUME LevelTypeOK, [LevelNext]_thermalVars
        PROVE  LevelTypeOK'
    <2>1. ASSUME NEW r \in Readings \cup {NoReading}, beat' = ~beat,
                 Poll(r) \/ PollRefused(r)
          PROVE  LevelTypeOK'
      <3>1. CASE Poll(r)
        BY <1>2, <2>1, <3>1, JudgeType DEF Poll, LevelTypeOK
      <3>2. CASE PollRefused(r)
        BY <1>2, <2>1, <3>2, JudgeType DEF PollRefused, LevelTypeOK
      <3>3. QED
        BY <2>1, <3>1, <3>2
    <2>2. CASE UNCHANGED thermalVars
      BY <1>2, <2>2 DEF thermalVars, LevelTypeOK
    <2>3. QED
      BY <1>2, <2>1, <2>2 DEF LevelNext
  <1>3. QED
    BY <1>1, <1>2, PTL DEF LevelSpec

\* s9p_tmu_filtered and s9p_thermal_next: whatever the sensor reads and however
\* often the GPU refuses, a level that is entered is one that two of the last
\* three readings reach, or the very first one while there are not yet three.
THEOREM SpikesFiltered == LevelSpec => SpikeHarmless
  <1> DEFINE Two(w, u) == Cardinality({k \in DOMAIN w : w[k] >= u}) >= 2
             Tame == \A i \in Level : lvl < i /\ i <= lvl' =>
                       \/ Len(window') < 3 /\ window'[1] >= UpAt[i]
                       \/ Two(window', UpAt[i])
  <1>1. ASSUME LevelTypeOK, LevelNext
        PROVE  Tame
    <2> DEFINE s == Samples(window')
    <2>1. SUFFICES ASSUME NEW i \in Level, lvl < i, i <= lvl'
                   PROVE  \/ Len(window') < 3 /\ window'[1] >= UpAt[i]
                          \/ Two(window', UpAt[i])
      OBVIOUS
    <2>2. PICK r \in Readings \cup {NoReading}, taken \in BOOLEAN :
              Judge(r, taken) /\ (taken \/ refusals < MaxRefusals)
      BY <1>1 DEF LevelNext, Poll, PollRefused
    <2>3. lvl \in Level /\ lvl' \in Level
      BY <1>1, <2>2, JudgeType DEF LevelTypeOK
    <2>4. lvl < lvl' /\ i \in 1 .. Last
      BY <2>1, <2>3, LastInLevel
    <2>5. /\ window' = Remember(r) /\ r \in Readings
          /\ lvl' = Want(Median(s))
      BY <1>1, <2>2, <2>4, JudgeRises
    <2>6. Median(s) \in Int
      BY <1>1, <2>5, MedianType
    <2>7. /\ window' \in Seq(Readings) /\ Len(window') \in 1 .. 3
          /\ \A k \in 1 .. Len(window') : window'[k] \in Int
      <3>1. window' \in Seq(Readings) /\ Len(window') \in 1 .. 3
        BY <1>1, <2>5, RememberType
      <3>2. \A k \in 1 .. Len(window') : window'[k] \in Readings
        BY <3>1
      <3>3. QED
        BY <3>1, <3>2, ThermalAssumption
    <2>8. Median(s) >= UpAt[lvl']
      BY <2>3, <2>4, <2>5, <2>6, WantIs, LastInLevel
    <2>9. UpAt[i] <= UpAt[lvl'] /\ UpAt[i] \in Int /\ UpAt[lvl'] \in Int
      BY <2>1, <2>3, <2>4, ThermalAssumption, LastInLevel
    <2>10. Median(s) >= UpAt[i]
      BY <2>6, <2>8, <2>9
    <2>11. \A k \in 1 .. 3 : s[k] \in Int
      BY <2>7 DEF Samples
    <2>12. PICK j, k \in 1 .. 3 : j # k /\ s[j] >= UpAt[i] /\ s[k] >= UpAt[i]
      BY <2>9, <2>10, <2>11, MedianIs
    <2>13. CASE Len(window') = 3
      <3>1. s = window' /\ DOMAIN window' = 1 .. 3
        BY <2>7, <2>13 DEF Samples
      <3>2. QED
        BY <2>12, <3>1, TwoOfThree
    <2>14. CASE Len(window') < 3
      <3>1. s[1] = window'[1] /\ s[2] = window'[1]
        <4> DEFINE a == window'[1]
                   b == window'[2]
        <4>1. Len(window') = 1 => s = <<a, a, a>>
          BY DEF Samples
        <4>2. Len(window') = 2 => s = <<a, a, b>>
          BY DEF Samples
        <4>3. Len(window') = 1 \/ Len(window') = 2
          <5>1. \A n \in 1 .. 3 : n < 3 => n = 1 \/ n = 2
            OBVIOUS
          <5>2. QED
            BY <2>7, <2>14, <5>1, Zenon
        <4> HIDE DEF a, b, s
        <4>4. s[1] = a /\ s[2] = a
          BY <4>1, <4>2, <4>3
        <4>5. QED
          BY <4>4 DEF a
      <3>2. window'[1] >= UpAt[i]
        BY <2>12, <3>1
      <3>3. QED
        BY <2>14, <3>2
    <2>15. QED
      BY <2>7, <2>13, <2>14
  <1>2. LevelTypeOK /\ [LevelNext]_thermalVars => [Tame]_thermalVars
    BY <1>1
  <1>3. QED
    BY <1>2, LevelTypeCorrect, PTL DEF LevelSpec, SpikeHarmless

\* Two samples of the filter, now that it holds w, are at or above u; below it.
TwoReach(w, u) ==
    \E i, j \in 1 .. 3 : i # j /\ Samples(w)[i] >= u /\ Samples(w)[j] >= u
TwoBelow(w, u) ==
    \E i, j \in 1 .. 3 : i # j /\ Samples(w)[i] < u /\ Samples(w)[j] < u

\* A level is in force as soon as two samples reach its threshold, unless the
\* GPU refuses; and one is left only for the next lower, after its time, and
\* when two samples are below its threshold by the hysteresis.
LevelMoves ==
    [][/\ \A i \in 1 .. Last : reading' # NoReading /\ TwoReach(window', UpAt[i]) =>
            lvl' >= i \/ refusals' = refusals + 1
       /\ lvl' < lvl =>
            /\ lvl' = lvl - 1 /\ held = Hold
            /\ TwoBelow(window', UpAt[lvl] - Hyst)]_thermalVars

\* A median that two samples reach, and one that is below a temperature.
LEMMA MedianSplits ==
    ASSUME LevelTypeOK, NEW r \in Readings, NEW u \in Int
    PROVE  LET m == Median(Samples(Remember(r)))
           IN  /\ TwoReach(Remember(r), u) => m >= u
               /\ m < u => TwoBelow(Remember(r), u)
  <1> DEFINE s == Samples(Remember(r))
  <1>1. \A k \in 1 .. 3 : s[k] \in Int
    BY RememberType, SamplesType, ThermalAssumption
  <1> HIDE DEF s
  <1>2. Median(s) \in Int
    BY <1>1, MedianIs
  <1>3. /\ Median(s) < u => \E i, j \in 1 .. 3 : i # j /\ s[i] < u /\ s[j] < u
    <2>1. Median(s) < u => Median(s) <= u - 1 /\ u - 1 \in Int
      BY <1>2
    <2>2. Median(s) <= u - 1 /\ u - 1 \in Int =>
            \E i, j \in 1 .. 3 : i # j /\ s[i] <= u - 1 /\ s[j] <= u - 1
      BY <1>1, MedianIs
    <2>3. \A i \in 1 .. 3 : s[i] <= u - 1 => s[i] < u
      BY <1>1
    <2>4. QED
      BY <2>1, <2>2, <2>3
  <1>4. ASSUME NEW i \in 1 .. 3, NEW j \in 1 .. 3, i # j, s[i] >= u, s[j] >= u
        PROVE  Median(s) >= u
    <2>1. SUFFICES ASSUME Median(s) < u PROVE FALSE
      BY <1>2
    <2>2. PICK k, l \in 1 .. 3 : k # l /\ s[k] < u /\ s[l] < u
      BY <1>3, <2>1
    <2>3. i # k /\ i # l /\ j # k /\ j # l
      BY <1>1, <1>4, <2>2
    <2>4. QED
      BY <1>4, <2>2, <2>3
  <1>5. QED
    BY <1>3, <1>4 DEF TwoReach, TwoBelow, s

\* s9p_thermal_next both ways: heat is answered at once and cold step by step,
\* past spikes and gaps in the readings and refusals of the GPU.
THEOREM LevelMovesWell == LevelSpec => LevelMoves
  <1> DEFINE Rises == \A i \in 1 .. Last :
                        reading' # NoReading /\ TwoReach(window', UpAt[i]) =>
                            lvl' >= i \/ refusals' = refusals + 1
             Falls == lvl' < lvl =>
                        /\ lvl' = lvl - 1 /\ held = Hold
                        /\ TwoBelow(window', UpAt[lvl] - Hyst)
  <1>1. ASSUME LevelTypeOK, LevelNext
        PROVE  Rises /\ Falls
    <2>1. PICK r \in Readings \cup {NoReading}, taken \in BOOLEAN :
              Judge(r, taken) /\ (taken \/ refusals < MaxRefusals)
      BY <1>1 DEF LevelNext, Poll, PollRefused
    <2>2. lvl \in Level /\ lvl \in Int /\ ~(lvl < lvl)
      BY <1>1, LastInLevel DEF LevelTypeOK
    <2>3. CASE r = NoReading
      BY <2>1, <2>2, <2>3 DEF Judge
    <2>4. CASE r # NoReading
      <3> DEFINE m == Median(Samples(Remember(r)))
                 next == ThermalNext(m)
      <3>1. r \in Readings
        BY <2>4
      <3>2. m \in Int
        BY <1>1, <3>1, MedianType
      <3>3. /\ window' = Remember(r)
            /\ lvl' = IF taken THEN next ELSE lvl
            /\ refusals' = IF next = lvl THEN refusals
                            ELSE IF taken THEN 0 ELSE refusals + 1
        BY <2>1, <2>4 DEF Judge
      <3>4. \A u \in Int : /\ TwoReach(window', u) => m >= u
                           /\ m < u => TwoBelow(window', u)
        BY <1>1, <3>1, <3>3, MedianSplits
      <3>5. /\ Want(m) \in Level /\ Want(m) \in Int
            /\ \A i \in 1 .. Last : m >= UpAt[i] => i <= Want(m)
        <4> HIDE DEF m, next
        <4>1. /\ Want(m) \in Level
              /\ \A i \in 1 .. Last : m >= UpAt[i] => i <= Want(m)
          BY <3>2, WantIs
        <4>2. \A i \in Level : i \in Int
          BY LastInLevel
        <4>3. QED
          BY <4>1, <4>2
      <3>6. /\ Hyst \in Nat
            /\ \A i \in Level : UpAt[i] \in Int /\ UpAt[i] - Hyst \in Int
        BY ThermalAssumption
      <3>7. \A i \in 1 .. Last : i \in Level /\ i \in Int
        BY LastInLevel
      <3> HIDE DEF m
      <3>8. \/ /\ Want(m) > lvl /\ next = Want(m)
            \/ /\ Want(m) <= lvl /\ next = lvl - 1
               /\ lvl > 0 /\ m < UpAt[lvl] - Hyst /\ held = Hold
            \/ /\ Want(m) <= lvl /\ next = lvl
        BY <2>2, <3>5 DEF ThermalNext, Cools
      <3> HIDE DEF next
      <3>9. Rises
        <4>1. SUFFICES ASSUME NEW i \in 1 .. Last, m >= UpAt[i]
                       PROVE  lvl' >= i \/ refusals' = refusals + 1
          BY <3>4, <3>6, <3>7
        <4>2. i <= Want(m) /\ i \in Int
          BY <3>5, <3>7, <4>1
        <4>3. CASE Want(m) > lvl /\ next = Want(m)
          <5>1. next # lvl
            BY <2>2, <3>5, <4>3
          <5>2. QED
            BY <3>3, <4>2, <4>3, <5>1
        <4>4. CASE Want(m) <= lvl /\ next = lvl - 1 /\ m < UpAt[lvl] - Hyst
          <5>1. i # lvl
            BY <2>2, <3>2, <3>6, <4>1, <4>4
          <5>2. i <= lvl - 1 /\ next # lvl
            BY <2>2, <3>5, <4>2, <4>4, <5>1
          <5>3. QED
            BY <3>3, <4>4, <5>2
        <4>5. CASE Want(m) <= lvl /\ next = lvl
          <5>1. i <= lvl /\ lvl' = lvl
            BY <2>2, <3>3, <3>5, <4>2, <4>5
          <5>2. QED
            BY <2>2, <4>2, <5>1
        <4>6. QED
          BY <3>8, <4>3, <4>4, <4>5
      <3>10. Falls
        <4>1. SUFFICES ASSUME lvl' < lvl
                       PROVE  /\ lvl' = lvl - 1 /\ held = Hold
                              /\ m < UpAt[lvl] - Hyst
          BY <2>2, <3>4, <3>6
        <4>2. lvl' = next
          BY <2>2, <3>3, <4>1
        <4>3. ~(Want(m) > lvl /\ next = Want(m)) /\ next # lvl
          BY <2>2, <3>5, <4>1, <4>2
        <4>4. QED
          BY <3>8, <4>2, <4>3
      <3>11. QED
        BY <3>9, <3>10
    <2>5. QED
      BY <2>3, <2>4
  <1>2. LevelTypeOK /\ [LevelNext]_thermalVars => [Rises /\ Falls]_thermalVars
    BY <1>1
  <1>3. QED
    BY <1>2, LevelTypeCorrect, PTL DEF LevelSpec, LevelMoves

-----------------------------------------------------------------------------
(***************************************************************************)
(* PART 4: the policy of a cluster (CpuPolicy).                            *)
(***************************************************************************)
\* What makes the caps reach the clock: the requests say what the level and the
\* boost switch say, the core's work is queued unless policy->max is the lowest
\* request, and the governor is told unless nothing above it is being set.
CapsKept ==
    /\ qos["thermal"] = MaxKhz[lvl]
    /\ qos["boost"] = IF boost THEN Top ELSE SafeMax
    /\ refresh \/ max = Cap(qos)
    /\ limits \/ target <= max

PolicyInv == PolicyTypeOK /\ CapsKept

\* The lowest and the highest frequency are frequencies of the table.
LEMMA TableIs ==
    /\ Table \subseteq Nat
    /\ Floor \in Table /\ Top \in Table
    /\ \A f \in Table : Floor <= f /\ f <= Top
  <1>1. Table \subseteq Int /\ Table \subseteq Nat /\ Table # {} /\ IsFiniteSet(Table)
    BY PolicyAssumption
  <1>2. QED
    BY <1>1, MinOf, MaxOf DEF Floor, Top

\* The lowest of the requests is one of them, and below all of them.
LEMMA CapIs ==
    ASSUME NEW q \in [Request -> Table]
    PROVE  /\ Cap(q) \in Table
           /\ \A r \in Request : Cap(q) <= q[r]
  <1> DEFINE S == {q[r] : r \in Request}
  <1>1. \A r \in Request : q[r] \in Table
    OBVIOUS
  <1>2. S \in SUBSET Table
    BY <1>1
  <1>3. S \subseteq Int /\ IsFiniteSet(S)
    <2>1. IsFiniteSet(Table) /\ Table \subseteq Int
      BY PolicyAssumption
    <2>2. S \subseteq Int
      BY <1>2, <2>1
    <2>3. IsFiniteSet(S)
      BY <1>2, <2>1, FS_Subset
    <2>4. QED
      BY <2>2, <2>3
  <1>4. S # {}
    BY DEF Request
  <1>5. Min(S) \in S /\ \A n \in S : Min(S) <= n
    BY <1>3, <1>4, MinOf
  <1>6. Cap(q) = Min(S)
    BY DEF Cap
  <1> HIDE DEF S
  <1>7. Cap(q) \in S /\ \A n \in S : Cap(q) <= n
    BY <1>5, <1>6
  <1>8. \A r \in Request : q[r] \in S
    BY DEF S
  <1>9. QED
    BY <1>2, <1>7, <1>8

\* s9p_target never goes above policy->max, nor above what it was asked for.
LEMMA LimitedIs ==
    ASSUME PolicyTypeOK, NEW f \in Table
    PROVE  Limited(f) \in Table /\ Limited(f) <= max /\ Limited(f) <= f
  <1>1. max \in Table /\ busy \in 0 .. Cores /\ BigCap[busy] \in Table
    BY PolicyAssumption DEF PolicyTypeOK
  <1>2. max \in Nat /\ BigCap[busy] \in Nat /\ f \in Nat
    BY <1>1, TableIs
  <1>3. QED
    BY <1>1, <1>2 DEF Limited, Maximum, Lower

\* A request keeps its type, and the core's work is queued if the cap changed.
LEMMA UpdateIs ==
    ASSUME PolicyInv, NEW r \in Request, NEW f \in Table, Update(r, f), max' = max
    PROVE  /\ qos' \in [Request -> Table]
           /\ qos'[r] = f /\ \A s \in Request : s # r => qos'[s] = qos[s]
           /\ refresh' \in BOOLEAN
           /\ refresh' \/ max' = Cap(qos')
  <1>1. qos \in [Request -> Table] /\ refresh \in BOOLEAN
    BY DEF PolicyInv, PolicyTypeOK
  <1>2. QED
    BY <1>1 DEF Update, PolicyInv, CapsKept

LEMMA PollLevelInv ==
    ASSUME PolicyInv, NEW r \in Readings \cup {NoReading}, PollLevel(r)
    PROVE  PolicyInv'
  <1>1. LevelTypeOK /\ qos \in [Request -> Table]
    BY DEF PolicyInv, PolicyTypeOK
  <1>2. Judge(r, TRUE)
    BY DEF PollLevel, Poll
  <1>3. LevelTypeOK'
    BY <1>1, <1>2, JudgeType DEF PollLevel, LevelTypeOK
  <1>4. /\ qos' \in [Request -> Table] /\ refresh' \in BOOLEAN
        /\ qos'["thermal"] = MaxKhz[lvl'] /\ qos'["boost"] = qos["boost"]
        /\ refresh' \/ max' = Cap(qos')
    <2>1. MaxKhz[lvl'] \in Table
      BY <1>3, PolicyAssumption DEF LevelTypeOK
    <2>2. "thermal" \in Request /\ "boost" \in Request
      BY DEF Request
    <2>3. CASE lvl' # lvl
      <3>1. Update("thermal", MaxKhz[lvl']) /\ max' = max
        BY <2>3 DEF PollLevel, UpdateThermal
      <3>2. QED
        BY <2>1, <2>2, <3>1, UpdateIs
    <2>4. CASE lvl' = lvl
      BY <1>1, <2>4 DEF PollLevel, UpdateThermal, PolicyInv, PolicyTypeOK, CapsKept
    <2>5. QED
      BY <2>3, <2>4
  <1>5. QED
    BY <1>3, <1>4 DEF PolicyInv, PolicyTypeOK, CapsKept, PollLevel, stepVars

LEMMA PollBusyInv ==
    ASSUME PolicyInv, PollBusy
    PROVE  PolicyInv'
  <1>1. BigCap[busy] \in Table /\ "busy" \in Request /\ "thermal" \in Request
        /\ "boost" \in Request
    BY PolicyAssumption DEF PolicyInv, PolicyTypeOK, Request
  <1>2. /\ qos' \in [Request -> Table] /\ refresh' \in BOOLEAN
        /\ qos'["thermal"] = qos["thermal"] /\ qos'["boost"] = qos["boost"]
        /\ refresh' \/ max' = Cap(qos')
    <2>1. CASE BigCap[busy] # qos["busy"]
      <3>1. Update("busy", BigCap[busy]) /\ max' = max
        BY <2>1 DEF PollBusy
      <3>2. QED
        BY <1>1, <3>1, UpdateIs
    <2>2. CASE BigCap[busy] = qos["busy"]
      BY <2>2 DEF PollBusy, PolicyInv, PolicyTypeOK, CapsKept
    <2>3. QED
      BY <2>1, <2>2
  <1>3. QED
    BY <1>2 DEF PolicyInv, PolicyTypeOK, LevelTypeOK, CapsKept, PollBusy, stepVars, thermalVars

LEMMA PollFloorInv ==
    ASSUME PolicyInv, PollFloor
    PROVE  PolicyInv'
  <1>1. Floor \in Table /\ Top \in Table /\ "idle" \in Request /\ "thermal" \in Request
        /\ "boost" \in Request
    BY TableIs DEF Request
  <1>2. idle_polls' \in 0 .. IdleEnterPolls
    <2>1. IdleEnterPolls \in Nat /\ idle_polls \in 0 .. IdleEnterPolls
      BY PolicyAssumption DEF PolicyInv, PolicyTypeOK
    <2>2. Lower(idle_polls + 1, IdleEnterPolls) \in 0 .. IdleEnterPolls
          /\ 0 \in 0 .. IdleEnterPolls
      BY <2>1 DEF Lower
    <2>3. QED
      BY <2>2 DEF PollFloor, IdlePolls
  <1>3. /\ qos' \in [Request -> Table] /\ refresh' \in BOOLEAN
        /\ qos'["thermal"] = qos["thermal"] /\ qos'["boost"] = qos["boost"]
        /\ refresh' \/ max' = Cap(qos')
    <2> DEFINE cap == IF idle_polls' = IdleEnterPolls THEN Floor ELSE Top
    <2>1. cap \in Table
      BY <1>1
    <2>2. CASE cap # qos["idle"]
      <3>1. Update("idle", cap) /\ max' = max
        BY <2>2 DEF PollFloor
      <3>2. QED
        BY <1>1, <2>1, <3>1, UpdateIs
    <2>3. CASE cap = qos["idle"]
      BY <2>3 DEF PollFloor, PolicyInv, PolicyTypeOK, CapsKept
    <2>4. QED
      BY <2>2, <2>3
  <1>4. QED
    BY <1>2, <1>3 DEF PolicyInv, PolicyTypeOK, LevelTypeOK, CapsKept, PollFloor, stepVars, thermalVars

LEMMA BoostSetInv ==
    ASSUME PolicyInv, NEW b \in BOOLEAN, BoostSet(b)
    PROVE  PolicyInv'
  <1>1. "boost" \in Request /\ "thermal" \in Request
    BY DEF Request
  <1>2. (IF b THEN Top ELSE SafeMax) \in Table
    BY TableIs, PolicyAssumption
  <1>3. Update("boost", IF b THEN Top ELSE SafeMax) /\ max' = max
    BY DEF BoostSet
  <1>4. /\ qos' \in [Request -> Table] /\ refresh' \in BOOLEAN
        /\ qos'["thermal"] = qos["thermal"] /\ qos'["boost"] = IF b THEN Top ELSE SafeMax
        /\ refresh' \/ max' = Cap(qos')
    BY <1>1, <1>2, <1>3, UpdateIs
  <1>5. QED
    BY <1>4 DEF PolicyInv, PolicyTypeOK, LevelTypeOK, CapsKept, BoostSet, stepVars, thermalVars

\* The switch of the idle floor and the scheduler touch no cap.
LEMMA SwitchInv ==
    ASSUME PolicyInv,
           \/ \E b \in BOOLEAN : IdleFloorSet(b)
           \/ \E n \in 0 .. Cores : Schedule(n)
    PROVE  PolicyInv'
  BY DEF PolicyInv, PolicyTypeOK, LevelTypeOK, CapsKept, IdleFloorSet, Schedule,
         stepVars, thermalVars

LEMMA RefreshInv ==
    ASSUME PolicyInv, Refresh
    PROVE  PolicyInv'
  <1>1. Cap(qos) \in Table
    BY CapIs DEF PolicyInv, PolicyTypeOK
  <1>2. QED
    BY <1>1 DEF PolicyInv, PolicyTypeOK, LevelTypeOK, CapsKept, Refresh, stepVars, thermalVars

LEMMA ApplyLimitsInv ==
    ASSUME PolicyInv, ApplyLimits
    PROVE  PolicyInv'
  <1>1. max \in Table /\ clock \in Table /\ target = clock
    BY DEF PolicyInv, PolicyTypeOK, ApplyLimits, Unlocked
  <1>2. max \in Nat /\ clock \in Nat
    BY <1>1, TableIs
  <1>3. target' \in Table /\ target' <= max /\ clock' = clock
    <2>1. CASE clock > max
      <3>1. Aim(Limited(max))
        BY <2>1 DEF ApplyLimits
      <3>2. Limited(max) \in Table /\ Limited(max) <= max
        BY <1>1, LimitedIs DEF PolicyInv
      <3>3. QED
        BY <3>1, <3>2 DEF Aim
    <2>2. CASE ~(clock > max)
      BY <1>1, <1>2, <2>2 DEF ApplyLimits, stepVars
    <2>3. QED
      BY <2>1, <2>2
  <1>4. QED
    BY <1>3 DEF PolicyInv, PolicyTypeOK, LevelTypeOK, CapsKept, ApplyLimits, thermalVars

LEMMA GovernInv ==
    ASSUME PolicyInv, NEW f \in Table, Govern(f)
    PROVE  PolicyInv'
  <1>1. Limited(f) \in Table /\ Limited(f) <= max
    BY LimitedIs DEF PolicyInv
  <1>2. QED
    BY <1>1 DEF PolicyInv, PolicyTypeOK, LevelTypeOK, CapsKept, Govern, Aim, thermalVars

\* A step that failed was on the way up, so the clock it keeps is below the cap.
LEMMA ClockInv ==
    ASSUME PolicyInv, ClockSet \/ ClockKept
    PROVE  PolicyInv'
  <1>1. max \in Nat /\ clock \in Table /\ target \in Table /\ clock \in Nat /\ target \in Nat
    BY TableIs DEF PolicyInv, PolicyTypeOK
  <1>2. clock' \in Table /\ target' \in Table /\ (target <= max => target' <= max)
    BY <1>1 DEF ClockSet, ClockKept, StepSet, StepFailed
  <1>3. QED
    BY <1>2 DEF PolicyInv, PolicyTypeOK, LevelTypeOK, CapsKept, ClockSet, ClockKept, thermalVars

(* Whatever the poll, the switches, the cpufreq core and the governor do at  *)
(* the same time, a cap is in policy->max or on its way there, and the clock *)
(* is below policy->max or the governor is still to be told.                 *)
THEOREM PolicyInductive == PolicySpec => []PolicyInv
  <1>1. PolicyInit => PolicyInv
    <2> SUFFICES ASSUME PolicyInit PROVE PolicyInv
      OBVIOUS
    <2>1. LevelTypeOK
      BY LevelInitType DEF PolicyInit
    <2>2. qos \in [Request -> Table]
      BY TableIs, PolicyAssumption DEF PolicyInit
    <2>3. Cap(qos) \in Table
      BY <2>2, CapIs
    <2>4. 0 \in 0 .. IdleEnterPolls
      BY PolicyAssumption
    <2>5. PolicyTypeOK
      BY <2>1, <2>2, <2>3, <2>4 DEF PolicyInit, PolicyTypeOK, StepInit
    <2>6. "thermal" \in Request /\ "boost" \in Request
      BY DEF Request
    <2>7. CapsKept
      BY <2>6, PolicyAssumption DEF PolicyInit, CapsKept, LevelInit, StepInit
    <2>8. QED
      BY <2>5, <2>7 DEF PolicyInv
  <1>2. ASSUME PolicyInv, [PolicyNext]_policyVars
        PROVE  PolicyInv'
    <2>1. CASE PollNext
      BY <1>2, <2>1, PollLevelInv, PollBusyInv, PollFloorInv DEF PollNext
    <2>2. CASE \E b \in BOOLEAN : BoostSet(b) \/ IdleFloorSet(b)
      BY <1>2, <2>2, BoostSetInv, SwitchInv
    <2>3. CASE \E n \in 0 .. Cores : Schedule(n)
      BY <1>2, <2>3, SwitchInv
    <2>4. CASE Refresh
      BY <1>2, <2>4, RefreshInv
    <2>5. CASE ApplyLimits
      BY <1>2, <2>5, ApplyLimitsInv
    <2>6. CASE \E f \in Table : Govern(f)
      BY <1>2, <2>6, GovernInv
    <2>7. CASE ClockSet \/ ClockKept
      BY <1>2, <2>7, ClockInv
    <2>8. CASE UNCHANGED policyVars
      BY <1>2, <2>8 DEF policyVars, PolicyInv, PolicyTypeOK, LevelTypeOK, CapsKept
    <2>9. QED
      BY <1>2, <2>1, <2>2, <2>3, <2>4, <2>5, <2>6, <2>7, <2>8 DEF PolicyNext
  <1>3. QED
    BY <1>1, <1>2, PTL DEF PolicySpec

\* The policy of a cluster stays within its table: a cap and a clock are always
\* frequencies of it, and the polls of an idle cluster are counted no further
\* than IDLE_ENTER_POLLS.
THEOREM PolicyTypeCorrect == PolicySpec => []PolicyTypeOK
  <1>1. PolicyInv => PolicyTypeOK
    BY DEF PolicyInv
  <1>2. QED
    BY <1>1, PolicyInductive, PTL

\* When the core has nothing left to do, the clock is below every request, below
\* the cap of the thermal level and, without boost, below safe_max, for every
\* table of frequencies, levels and caps and every order of the updates.
THEOREM NoCapLost == PolicySpec => []LimitsInForce
  <1>1. PolicyInv => LimitsInForce
    <2> SUFFICES ASSUME PolicyInv, ~refresh, ~limits, Unlocked
                 PROVE  /\ clock <= Cap(qos) /\ clock <= MaxKhz[lvl]
                        /\ ~boost => clock <= SafeMax
      BY DEF LimitsInForce
    <2>1. clock <= Cap(qos) /\ clock \in Nat /\ qos \in [Request -> Table]
      BY TableIs DEF PolicyInv, PolicyTypeOK, CapsKept, Unlocked
    <2>2. "thermal" \in Request /\ "boost" \in Request
      BY DEF Request
    <2>3. Cap(qos) \in Nat /\ Cap(qos) <= qos["thermal"] /\ Cap(qos) <= qos["boost"]
      BY <2>1, <2>2, CapIs, TableIs
    <2>4. qos["thermal"] \in Nat /\ qos["boost"] \in Nat
      BY <2>1, <2>2, TableIs
    <2>5. clock <= qos["thermal"] /\ clock <= qos["boost"]
      BY <2>1, <2>3, <2>4
    <2>6. QED
      BY <2>1, <2>5 DEF PolicyInv, CapsKept
  <1>2. QED
    BY <1>1, PolicyInductive, PTL
=============================================================================
