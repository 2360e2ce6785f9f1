------------------------- MODULE PmicServiceProofs -------------------------
(***************************************************************************)
(* The service's invariant, one lemma per action, so that the modules that *)
(* put clocks on top of the service can use them on its actions.           *)
(***************************************************************************)
EXTENDS PmicService, TLAPS

LEMMA CmdType ==
    ASSUME NEW k \in Cmd
    PROVE  /\ k.func \in {"read", "write"} /\ k.reg \in Regs /\ k.val \in Vals
           /\ k # NoCmd
  BY ServiceAssumption DEF Cmd, NoCmd

LEMMA TailEntries ==
    ASSUME NEW S, NEW s \in Seq(S), s # <<>>
    PROVE  /\ Len(s) \in Nat \ {0}
           /\ Head(s) \in S /\ Head(s) = s[1]
           /\ Tail(s) \in Seq(S) /\ Len(Tail(s)) = Len(s) - 1
           /\ \A i \in 1 .. Len(s) - 1 : Tail(s)[i] = s[i + 1]
  OBVIOUS

LEMMA InitServiceInv == ServiceInit => ServiceInv
  BY ServiceAssumption
  DEF ServiceInit, ServiceInv, ServiceTypeOK, OneLive, LiveIsLast, CallHasCmd,
      AnswerIsForLive, AnsweredIsSettled, Answered, NoAnswer, Answer

LEMMA CallServiceInv ==
    ASSUME ServiceInv, NEW c \in Callers, NEW k \in Cmd, Call(c, k)
    PROVE  ServiceInv'
  <1>1. ServiceTypeOK'
    BY DEF ServiceInv, ServiceTypeOK, Call
  <1>2. OneLive' /\ LiveIsLast' /\ CallHasCmd' /\ AnswerIsForLive'
    BY DEF ServiceInv, ServiceTypeOK, OneLive, LiveIsLast, CallHasCmd,
           AnswerIsForLive, Call
  <1>3. AnsweredIsSettled'
    BY DEF ServiceInv, ServiceTypeOK, AnsweredIsSettled, Answered, Call
  <1>4. QED
    BY <1>1, <1>2, <1>3 DEF ServiceInv

LEMMA SubmitServiceInv ==
    ASSUME ServiceInv, NEW c \in Callers, Submit(c)
    PROVE  ServiceInv'
  <1>1. cmd[c] \in Cmd
    BY DEF ServiceInv, CallHasCmd, Submit
  <1>2. ServiceTypeOK'
    BY <1>1, ServiceAssumption DEF ServiceInv, ServiceTypeOK, Submit
  <1>3. answer = NoAnswer
    BY DEF ServiceInv, AnswerIsForLive, Submit
  <1>4. OneLive' /\ LiveIsLast' /\ CallHasCmd' /\ AnswerIsForLive'
    BY <1>1, <1>3 DEF ServiceInv, ServiceTypeOK, OneLive, LiveIsLast, CallHasCmd,
           AnswerIsForLive, Submit
  <1>5. AnsweredIsSettled'
    BY <1>3 DEF AnsweredIsSettled, Answered, Submit
  <1>6. QED
    BY <1>2, <1>4, <1>5 DEF ServiceInv

LEMMA PerformServiceInv ==
    ASSUME ServiceInv, Perform
    PROVE  ServiceInv'
  <1> DEFINE k == Head(queue)
  <1>1. k \in Cmd /\ queue # <<>> /\ queue \in Seq(Cmd)
    BY DEF Perform, ServiceInv, ServiceTypeOK
  <1>2. k.func \in {"read", "write"} /\ k.reg \in Regs /\ k.val \in Vals
    BY <1>1, CmdType
  <1>3. PICK rc \in {"ok", "fault"} :
          /\ pmic' = IF rc = "ok" /\ k.func = "write"
                       THEN [pmic EXCEPT ![k.reg] = k.val] ELSE pmic
          /\ answer' = IF Len(queue) = 1 /\ \E c \in Callers : stage[c] = "live"
                         THEN [rc |-> rc, val |-> IF k.func = "write"
                                                    THEN k.val ELSE pmic[k.reg]]
                         ELSE answer
    BY DEF Perform
  <1>4. ServiceTypeOK'
    BY <1>1, <1>2, <1>3, ServiceAssumption
    DEF ServiceInv, ServiceTypeOK, Perform, Answer, NoAnswer
  <1>5. OneLive' /\ CallHasCmd'
    BY DEF ServiceInv, OneLive, CallHasCmd, Perform
  <1>6. AnswerIsForLive'
    BY <1>3 DEF ServiceInv, AnswerIsForLive, Perform
  <1>7. LiveIsLast'
    <2> SUFFICES ASSUME NEW c \in Callers, stage'[c] = "live", answer' = NoAnswer
                 PROVE  queue' # <<>> /\ queue'[Len(queue')] = cmd'[c]
      BY DEF LiveIsLast
    <2>1. stage[c] = "live" /\ cmd' = cmd
      BY DEF Perform
    <2>2. Len(queue) # 1 /\ answer = NoAnswer
      BY <1>3, <2>1 DEF NoAnswer
    <2>3. queue[Len(queue)] = cmd[c]
      BY <2>1, <2>2 DEF ServiceInv, LiveIsLast
    <2>4. queue' \in Seq(Cmd) /\ Len(queue') = Len(queue) - 1
            /\ \A i \in 1 .. Len(queue) - 1 : queue'[i] = queue[i + 1]
      BY <1>1, TailEntries DEF Perform
    <2>5. Len(queue) \in Nat /\ Len(queue) > 1
      BY <1>1, <2>2, TailEntries
    <2>6. queue'[Len(queue')] = queue[Len(queue)]
      BY <2>4, <2>5
    <2>7. QED
      BY <2>1, <2>3, <2>4, <2>5, <2>6
  <1>8. AnsweredIsSettled'
    <2> SUFFICES ASSUME NEW c \in Callers, Answered(c)'
                 PROVE  /\ queue' = <<>>
                        /\ answer'.rc = "ok" => pmic'[cmd'[c].reg] = answer'.val
                        /\ cmd'[c].func = "write" => answer'.val = cmd'[c].val
      BY DEF AnsweredIsSettled
    <2>1. stage[c] = "live" /\ cmd' = cmd /\ answer' # NoAnswer
      BY DEF Perform, Answered
    <2>2. answer = NoAnswer
      BY <1>1, <2>1 DEF ServiceInv, AnsweredIsSettled, Answered
    <2>3. Len(queue) = 1 /\ queue[1] = cmd[c]
      BY <1>1, <1>3, <2>1, <2>2 DEF ServiceInv, LiveIsLast
    <2>4. k = cmd[c] /\ queue' = <<>>
      BY <1>1, <2>3 DEF Perform
    <2>5. answer' = [rc |-> rc, val |-> IF k.func = "write"
                                          THEN k.val ELSE pmic[k.reg]]
      BY <1>3, <2>1, <2>3
    <2>6. rc = "ok" => pmic'[k.reg] = answer'.val
      BY <1>2, <1>3, <2>5 DEF ServiceInv, ServiceTypeOK
    <2>7. QED
      BY <1>2, <2>1, <2>4, <2>5, <2>6
  <1>9. QED
    BY <1>4, <1>5, <1>6, <1>7, <1>8 DEF ServiceInv

LEMMA GiveUpServiceInv ==
    ASSUME ServiceInv, NEW c \in Callers, GiveUp(c)
    PROVE  ServiceInv'
  <1>1. \A d \in Callers : stage'[d] # "live"
    BY DEF ServiceInv, ServiceTypeOK, OneLive, GiveUp
  <1>2. ServiceTypeOK'
    BY DEF ServiceInv, ServiceTypeOK, GiveUp
  <1>3. OneLive' /\ LiveIsLast' /\ AnswerIsForLive' /\ AnsweredIsSettled'
    BY <1>1 DEF OneLive, LiveIsLast, AnswerIsForLive, AnsweredIsSettled,
                Answered, GiveUp
  <1>4. CallHasCmd'
    BY DEF ServiceInv, ServiceTypeOK, CallHasCmd, GiveUp
  <1>5. QED
    BY <1>2, <1>3, <1>4 DEF ServiceInv

LEMMA SucceedServiceInv ==
    ASSUME ServiceInv, NEW c \in Callers, Succeed(c)
    PROVE  ServiceInv'
  <1>1. \A d \in Callers : stage'[d] # "live"
    BY DEF ServiceInv, ServiceTypeOK, OneLive, Succeed, Answered, Return
  <1>2. ServiceTypeOK'
    BY DEF ServiceInv, ServiceTypeOK, Succeed, Return
  <1>3. OneLive' /\ LiveIsLast' /\ AnswerIsForLive' /\ AnsweredIsSettled'
    BY <1>1 DEF OneLive, LiveIsLast, AnswerIsForLive, AnsweredIsSettled,
                Answered, Succeed
  <1>4. CallHasCmd'
    BY DEF ServiceInv, ServiceTypeOK, CallHasCmd, Succeed, Return
  <1>5. QED
    BY <1>2, <1>3, <1>4 DEF ServiceInv

LEMMA FailServiceInv ==
    ASSUME ServiceInv, NEW c \in Callers, Fail(c)
    PROVE  ServiceInv'
  <1>1. \A d \in Callers : /\ stage'[d] = "live" <=> stage[d] = "live"
                           /\ stage[d] = "live" => cmd'[d] = cmd[d]
    BY DEF ServiceInv, ServiceTypeOK, Fail, Return
  <1>2. ServiceTypeOK'
    BY DEF ServiceInv, ServiceTypeOK, Fail, Return
  <1>3. OneLive' /\ LiveIsLast' /\ AnswerIsForLive'
    BY <1>1 DEF ServiceInv, OneLive, LiveIsLast, AnswerIsForLive, Fail, Return
  <1>4. AnsweredIsSettled'
    BY <1>1 DEF ServiceInv, AnsweredIsSettled, Answered, Fail, Return
  <1>5. CallHasCmd'
    BY DEF ServiceInv, ServiceTypeOK, CallHasCmd, Fail, Return
  <1>6. QED
    BY <1>2, <1>3, <1>4, <1>5 DEF ServiceInv

LEMMA StutterServiceInv ==
    ASSUME ServiceInv, UNCHANGED svcVars
    PROVE  ServiceInv'
  BY DEF ServiceInv, ServiceTypeOK, OneLive, LiveIsLast, CallHasCmd,
         AnswerIsForLive, AnsweredIsSettled, Answered, svcVars

\* A call that is answered has nothing left behind it: the heart of what the
\* service promises, in every behaviour of it.
THEOREM ServiceSettled == ServiceSpec => []AnsweredIsSettled
  <1>1. ServiceInit => ServiceInv
    BY InitServiceInv
  <1>2. ServiceInv /\ [ServiceNext]_svcVars => ServiceInv'
    BY CallServiceInv, SubmitServiceInv, PerformServiceInv, GiveUpServiceInv,
       SucceedServiceInv, FailServiceInv, StutterServiceInv DEF ServiceNext
  <1>3. ServiceInv => AnsweredIsSettled
    BY DEF ServiceInv
  <1>4. QED
    BY <1>1, <1>2, <1>3, PTL DEF ServiceSpec
=============================================================================
