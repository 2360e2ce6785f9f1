---------------------------- MODULE PmicService ----------------------------
(***************************************************************************)
(* What s9p_acpm_pmic_{read,write,update} promise their callers.           *)
(*                                                                         *)
(* The PMIC performs commands one at a time and in the order they were     *)
(* submitted.  A call submits its command once or more; it returns an      *)
(* answer only when the last submission has been performed, and then with  *)
(* the result of that one.  A call may fail instead at any moment, and     *)
(* what it has submitted may still be performed afterwards.                *)
(***************************************************************************)
EXTENDS Integers, Sequences

CONSTANTS
    Callers,    \* the kernel threads that use the PMIC
    Regs,       \* its registers
    Vals,       \* the values of a register
    Capacity    \* how many commands can be outstanding: q_len - 1

ASSUME ServiceAssumption ==
    /\ Vals \subseteq Nat /\ 0 \in Vals
    /\ Capacity \in Nat \ {0}

VARIABLES
    pmic,       \* the PMIC's registers
    queue,      \* the commands submitted and not yet performed
    stage,      \* of each caller: "idle", "open", or "live" when the last
                \* command submitted is its own and it waits for the result
    cmd,        \* of each caller: the command of its call
    answer      \* the result of the live command

svcVars == <<pmic, queue, stage, cmd, answer>>

NoCmd == [func |-> "none"]
Cmd == [func : {"write"}, reg : Regs, val : Vals]
         \union [func : {"read"}, reg : Regs, val : {0}]
NoAnswer == [rc |-> "none", val |-> 0]
Answer == [rc : {"ok", "fault"}, val : Vals]

\* Types, and no more commands outstanding than the ring has room for.
ServiceTypeOK ==
    /\ pmic \in [Regs -> Vals]
    /\ queue \in Seq(Cmd) /\ Len(queue) <= Capacity
    /\ stage \in [Callers -> {"idle", "open", "live"}]
    /\ cmd \in [Callers -> Cmd \union {NoCmd}]
    /\ answer \in Answer \union {NoAnswer}

ServiceInit ==
    /\ pmic \in [Regs -> Vals]
    /\ queue = <<>>
    /\ stage = [c \in Callers |-> "idle"]
    /\ cmd = [c \in Callers |-> NoCmd]
    /\ answer = NoAnswer

Call(c, k) ==
    /\ stage[c] = "idle"
    /\ stage' = [stage EXCEPT ![c] = "open"]
    /\ cmd' = [cmd EXCEPT ![c] = k]
    /\ UNCHANGED <<pmic, queue, answer>>

\* (mutant) One command more than there is room for.
SubmitOffByOne(c) ==
    /\ stage[c] = "open"
    /\ \A d \in Callers : stage[d] # "live"
    /\ Len(queue) <= Capacity
    /\ stage' = [stage EXCEPT ![c] = "live"]
    /\ queue' = Append(queue, cmd[c])
    /\ UNCHANGED <<pmic, cmd, answer>>

Submit(c) ==
    /\ stage[c] = "open"
    /\ \A d \in Callers : stage[d] # "live"
    /\ Len(queue) < Capacity
    /\ stage' = [stage EXCEPT ![c] = "live"]
    /\ queue' = Append(queue, cmd[c])
    /\ UNCHANGED <<pmic, cmd, answer>>

\* (mutant) The first result that comes is taken for the live command's.
PerformAnyAnswer ==
    /\ queue # <<>>
    /\ queue' = Tail(queue)
    /\ LET k == Head(queue) IN
       \E rc \in {"ok", "fault"} :
         /\ pmic' = IF rc = "ok" /\ k.func = "write"
                      THEN [pmic EXCEPT ![k.reg] = k.val] ELSE pmic
         /\ answer' = IF \E c \in Callers : stage[c] = "live"
                        THEN [rc |-> rc, val |-> IF k.func = "write"
                                                   THEN k.val ELSE pmic[k.reg]]
                        ELSE answer
    /\ UNCHANGED <<stage, cmd>>

\* The oldest command takes effect, or the PMIC refuses it.
Perform ==
    /\ queue # <<>>
    /\ queue' = Tail(queue)
    /\ LET k == Head(queue) IN
       \E rc \in {"ok", "fault"} :
         /\ pmic' = IF rc = "ok" /\ k.func = "write"
                      THEN [pmic EXCEPT ![k.reg] = k.val] ELSE pmic
         /\ answer' = IF Len(queue) = 1 /\ \E c \in Callers : stage[c] = "live"
                        THEN [rc |-> rc, val |-> IF k.func = "write"
                                                   THEN k.val ELSE pmic[k.reg]]
                        ELSE answer
    /\ UNCHANGED <<stage, cmd>>

\* An attempt is given up, answered or not; another may follow.
GiveUp(c) ==
    /\ stage[c] = "live"
    /\ stage' = [stage EXCEPT ![c] = "open"]
    /\ answer' = NoAnswer
    /\ UNCHANGED <<pmic, queue, cmd>>

Answered(c) == stage[c] = "live" /\ answer # NoAnswer

Return(c) ==
    /\ stage' = [stage EXCEPT ![c] = "idle"]
    /\ cmd' = [cmd EXCEPT ![c] = NoCmd]
    /\ UNCHANGED <<pmic, queue>>

Succeed(c) == Answered(c) /\ Return(c) /\ answer' = NoAnswer
Fail(c) == stage[c] = "open" /\ Return(c) /\ UNCHANGED answer

ServiceNext ==
    \/ Perform
    \/ \E c \in Callers : \/ \E k \in Cmd : Call(c, k)
                          \/ Submit(c) \/ GiveUp(c) \/ Succeed(c) \/ Fail(c)

ServiceSpec == ServiceInit /\ [][ServiceNext]_svcVars

-----------------------------------------------------------------------------
\* When a call is answered nothing submitted earlier is still to come, and a
\* write that was not refused is what its register holds.
AnsweredIsSettled ==
    \A c \in Callers : Answered(c) =>
        /\ queue = <<>>
        /\ answer.rc = "ok" => pmic[cmd[c].reg] = answer.val
        /\ cmd[c].func = "write" => answer.val = cmd[c].val

\* What makes it so: one call at a time waits for a result, and until it has
\* one its command is the last of the queue.
OneLive ==
    \A c, d \in Callers : stage[c] = "live" /\ stage[d] = "live" => c = d
LiveIsLast ==
    \A c \in Callers : stage[c] = "live" /\ answer = NoAnswer =>
        queue # <<>> /\ queue[Len(queue)] = cmd[c]
CallHasCmd ==
    \A c \in Callers : stage[c] # "idle" => cmd[c] \in Cmd
AnswerIsForLive ==
    answer # NoAnswer => \E c \in Callers : stage[c] = "live"

ServiceInv ==
    /\ ServiceTypeOK
    /\ OneLive /\ LiveIsLast /\ CallHasCmd /\ AnswerIsForLive
    /\ AnsweredIsSettled
=============================================================================
