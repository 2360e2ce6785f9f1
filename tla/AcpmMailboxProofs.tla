------------------------- MODULE AcpmMailboxProofs --------------------------
(***************************************************************************)
(* For any number of callers, any rings, any number of attempts and of     *)
(* sequence numbers: the rings hold, and a caller takes no late reply for  *)
(* its own, as long as the APM is not so far behind that the numbers have  *)
(* come round (MaxLag < SeqMod).                                           *)
(***************************************************************************)
EXTENDS AcpmMailbox, SequenceTheorems, TLAPS

(* The mutex and what the holder's place says *)

Out == {"idle", "lock"}

OneHolder ==
    \A c, d \in Callers : pc[c] \notin Out /\ pc[d] \notin Out => c = d

HasCmd == \A c \in Callers : pc[c] # "idle" => cmd[c] \in Cmd

Placed ==
    /\ \A c \in Callers :
         /\ pc[c] = "send" => ~waiting
         /\ pc[c] = "poll" => waiting
         /\ pc[c] \in {"look", "send", "poll"} => got = NoReply
         /\ pc[c] = "done" => (waiting <=> got # NoReply)
         /\ pc[c] \notin Out \cup {"done"} => retry < Retries
    /\ waiting => \E c \in Callers : pc[c] \notin Out
    /\ ~waiting => got = NoReply

TypeInv == TypeOK /\ OneHolder /\ HasCmd /\ Placed

(* The numbers in the channel *)

\* The numbers do not come round while a command is under way.
InOrder == MaxLag < SeqMod

\* An entry carries the number issued `age' numbers ago.
Numbered(e) ==
    /\ e.age <= MaxLag
    /\ e.seq = IF e.age < seq THEN seq - e.age ELSE seq - e.age + SeqMod

AllNumbered ==
    /\ \A i \in 1 .. Len(tx) : Numbered(tx[i])
    /\ \A i \in 1 .. Len(rx) : Numbered(rx[i])
    /\ hand # NoReply => Numbered(hand)

\* There is room for one more number, which is given only between attempts: the
\* last one was answered, or given up early enough.
Young ==
    /\ \A i \in 1 .. Len(tx) : tx[i].age < MaxLag
    /\ \A i \in 1 .. Len(rx) : rx[i].age < MaxLag
    /\ hand # NoReply => hand.age < MaxLag

InAttempt == waiting \/ \E c \in Callers : pc[c] = "send"

RoomForOne == ~InAttempt => Young

\* What belongs to the newest attempt is the newest in the channel.
NewestLast ==
    /\ \A i \in 1 .. Len(tx) : tx[i].age = 0 => i = Len(tx)
    /\ hand # NoReply /\ hand.age = 0 => tx = <<>>
    /\ \A i \in 1 .. Len(rx) :
         rx[i].age = 0 => i = Len(rx) /\ hand = NoReply /\ tx = <<>>

\* A number that is not sent yet is nobody's.
Unused ==
    (\E c \in Callers : pc[c] = "send") =>
      /\ \A i \in 1 .. Len(tx) : tx[i].age # 0
      /\ \A i \in 1 .. Len(rx) : rx[i].age # 0
      /\ hand # NoReply => hand.age # 0

\* Behind the reply that was waited for there is nothing.
NothingBehind ==
    got # NoReply =>
      /\ got.age = 0 /\ tx = <<>> /\ hand = NoReply
      /\ \A c \in Callers :
           /\ pc[c] = "rear" => seen = Len(rx)
           /\ pc[c] \in {"ack", "done"} => rx = <<>>

Channel == AllNumbered /\ RoomForOne /\ NewestLast /\ Unused /\ NothingBehind

-----------------------------------------------------------------------------
LEMMA Constants ==
    /\ Vals \subseteq Nat /\ 0 \in Vals
    /\ QLen \in Nat /\ QLen >= 2 /\ SeqMod \in Nat /\ SeqMod >= 2
    /\ Retries \in Nat \ {0} /\ MaxLag \in 1..SeqMod
    /\ NoReply \in Reply
    /\ \A r \in Reply : Older(r) \in Reply /\ Older(r).age \in 0..SeqMod
    /\ \A e \in Command : Older(e) \in Command
  BY MailboxAssumption DEF NoReply, Reply, Command, Older

LEMMA Zero == 0 \in 0..Retries /\ 0 < Retries /\ 1 \in 1..SeqMod /\ 0 <= QLen - 1
  BY MailboxAssumption

LEMMA OlderEntries ==
    ASSUME NEW S, \A e \in S : Older(e) \in S, NEW s \in Seq(S)
    PROVE  /\ AllOlder(s) \in Seq(S) /\ Len(AllOlder(s)) = Len(s)
           /\ \A i \in 1 .. Len(s) : AllOlder(s)[i] = Older(s[i])
  BY DEF AllOlder

LEMMA Numbers ==
    ASSUME TypeOK
    PROVE  /\ NextSeq \in 1..SeqMod
           /\ seq < SeqMod => NextSeq = seq + 1
           /\ seq = SeqMod => NextSeq = 1
  <1>1. seq \in 1..SeqMod /\ SeqMod \in Nat \ {0}
    BY Constants DEF TypeOK
  <1>2. seq < SeqMod => seq % SeqMod = seq
    BY <1>1
  <1>3. SeqMod % SeqMod = 0
    BY <1>1
  <1> QED
    BY <1>1, <1>2, <1>3 DEF NextSeq

\* Numbering goes round from SeqMod to 1.
LEMMA OneOlder ==
    ASSUME TypeOK, InOrder, NEW age \in Nat, age < MaxLag, NEW n,
           n = IF age < seq THEN seq - age ELSE seq - age + SeqMod
    PROVE  /\ age + 1 <= MaxLag
           /\ n = IF age + 1 < NextSeq THEN NextSeq - (age + 1)
                                        ELSE NextSeq - (age + 1) + SeqMod
  <1>1. /\ seq \in 1..SeqMod /\ SeqMod \in Nat /\ SeqMod >= 2
        /\ MaxLag \in 1..SeqMod /\ MaxLag < SeqMod
    BY MailboxAssumption DEF TypeOK, InOrder
  <1>2. CASE seq < SeqMod
    BY <1>1, <1>2, Numbers
  <1>3. CASE seq = SeqMod
    BY <1>1, <1>3, Numbers
  <1> QED
    BY <1>1, <1>2, <1>3

-----------------------------------------------------------------------------
(* Types *)

LEMMA InitTypeInv == Init => TypeInv
<1> SUFFICES ASSUME Init PROVE TypeInv
  OBVIOUS
<1>1. /\ tx \in Seq(Command) /\ Len(tx) <= QLen - 1
      /\ rx \in Seq(Reply) /\ Len(rx) <= QLen - 1 /\ seen \in 0..Len(rx)
      /\ seq \in 1..SeqMod /\ retry \in 0..Retries
      /\ got \in Reply /\ hand \in Reply
  BY Constants, Zero DEF Init
<1>3. TypeOK
  BY <1>1 DEF Init, TypeOK, Stages
<1>2. OneHolder /\ HasCmd /\ Placed
  BY DEF Init, OneHolder, HasCmd, Placed, Out
<1> QED
  BY <1>2, <1>3 DEF TypeInv

LEMMA CallTypeInv ==
    ASSUME TypeInv, NEW c \in Callers, NEW k \in Cmd, Call(c, k)
    PROVE  TypeInv'
  <1>1. TypeOK'
    BY DEF TypeInv, TypeOK, Call, Goto, apmVars, Stages
  <1>2. OneHolder' /\ HasCmd'
    BY DEF TypeInv, TypeOK, OneHolder, HasCmd, Call, Goto, Out
  <1>3. Placed'
    BY DEF TypeInv, TypeOK, Placed, Call, Goto, Out
  <1> QED
    BY <1>1, <1>2, <1>3 DEF TypeInv

LEMMA LockTypeInv ==
    ASSUME TypeInv, NEW c \in Callers, Lock(c)
    PROVE  TypeInv'
  <1>1. TypeOK'
    BY Zero DEF TypeInv, TypeOK, Lock, Goto, apmVars, Stages
  <1>2. OneHolder' /\ HasCmd'
    BY DEF TypeInv, TypeOK, OneHolder, HasCmd, Lock, Goto, Out
  <1>3. ~waiting /\ got = NoReply
    BY DEF TypeInv, Placed, Lock, Out
  <1>4. Placed'
    BY <1>3, Zero DEF TypeInv, TypeOK, Placed, Lock, Goto, Out
  <1> QED
    BY <1>1, <1>2, <1>4 DEF TypeInv

LEMMA LookTypeInv ==
    ASSUME TypeInv, NEW c \in Callers, Look(c)
    PROVE  TypeInv'
  <1>1. got' \in Reply /\ (~waiting => got' = got)
    BY DEF TypeInv, TypeOK, Look, Matching
  <1>2. Len(rx) \in 0..Len(rx)
    BY DEF TypeInv, TypeOK
  <1>3. TypeOK'
    BY <1>1, <1>2 DEF TypeInv, TypeOK, Look, Goto, apmVars, Stages
  <1>4. OneHolder' /\ HasCmd'
    BY DEF TypeInv, TypeOK, OneHolder, HasCmd, Look, Goto, Out
  <1>5. Placed'
    BY <1>1 DEF TypeInv, TypeOK, OneHolder, Placed, Look, Goto, Out
  <1> QED
    BY <1>3, <1>4, <1>5 DEF TypeInv

LEMMA RearTypeInv ==
    ASSUME TypeInv, NEW c \in Callers, Rear(c)
    PROVE  TypeInv'
  <1>1. rx' \in Seq(Reply) /\ Len(rx') = Len(rx) - seen /\ Len(rx') \in Nat
    BY DEF TypeInv, TypeOK, Rear
  <1>2. TypeOK'
    BY <1>1, Constants DEF TypeInv, TypeOK, Rear, Goto, apmVars, Stages
  <1>3. OneHolder' /\ HasCmd'
    BY DEF TypeInv, TypeOK, OneHolder, HasCmd, Rear, Goto, Out
  <1>4. Placed'
    BY DEF TypeInv, TypeOK, Placed, Rear, Goto, Out
  <1> QED
    BY <1>2, <1>3, <1>4 DEF TypeInv

LEMMA AckTypeInv ==
    ASSUME TypeInv, NEW c \in Callers, AckStale(c) \/ AckReply(c)
    PROVE  TypeInv'
  <1>1. CASE AckStale(c)
    <2>1. /\ tx' \in Seq(Command) /\ Len(tx') = Len(tx)
          /\ rx' \in Seq(Reply) /\ Len(rx') = Len(rx)
          /\ hand' \in Reply /\ seq' \in 1..SeqMod
      BY <1>1, Constants, OlderEntries, Numbers
      DEF TypeInv, TypeOK, AckStale, Number
    <2>2. TypeOK'
      BY <1>1, <2>1 DEF TypeInv, TypeOK, AckStale, Goto, Stages
    <2>3. OneHolder' /\ HasCmd'
      BY <1>1 DEF TypeInv, TypeOK, OneHolder, HasCmd, AckStale, Goto, Out
    <2>4. Placed'
      BY <1>1 DEF TypeInv, TypeOK, OneHolder, Placed, AckStale, Goto, Out
    <2> QED
      BY <2>2, <2>3, <2>4 DEF TypeInv
  <1>2. CASE AckReply(c)
    <2>1. TypeOK'
      BY <1>2 DEF TypeInv, TypeOK, AckReply, Goto, apmVars, Stages
    <2>2. OneHolder' /\ HasCmd'
      BY <1>2 DEF TypeInv, TypeOK, OneHolder, HasCmd, AckReply, Goto, Out
    <2>3. Placed'
      BY <1>2 DEF TypeInv, TypeOK, OneHolder, Placed, AckReply, Goto, Out
    <2> QED
      BY <2>1, <2>2, <2>3 DEF TypeInv
  <1> QED
    BY <1>1, <1>2

LEMMA SendTypeInv ==
    ASSUME TypeInv, NEW c \in Callers, Send(c)
    PROVE  TypeInv'
  <1>1. [seq |-> seq, age |-> 0, cmd |-> cmd[c]] \in Command
    BY Constants DEF TypeInv, TypeOK, HasCmd, Send, Command
  <1>2. tx' \in Seq(Command) /\ Len(tx') = Len(tx) + 1
    BY <1>1 DEF TypeInv, TypeOK, Send
  <1>3. TypeOK'
    BY <1>2, Constants DEF TypeInv, TypeOK, Send, Goto, apmVars, Stages
  <1>4. OneHolder' /\ HasCmd'
    BY DEF TypeInv, TypeOK, OneHolder, HasCmd, Send, Goto, Out
  <1>5. Placed'
    BY DEF TypeInv, TypeOK, OneHolder, Placed, Send, Goto, Out
  <1> QED
    BY <1>3, <1>4, <1>5 DEF TypeInv

LEMMA PollTypeInv ==
    ASSUME TypeInv, NEW c \in Callers, Poll(c)
    PROVE  TypeInv'
  <1>1. TypeOK'
    BY DEF TypeInv, TypeOK, Poll, Goto, apmVars, Stages
  <1>2. OneHolder' /\ HasCmd'
    BY DEF TypeInv, TypeOK, OneHolder, HasCmd, Poll, Goto, Out
  <1>3. Placed'
    BY DEF TypeInv, TypeOK, Placed, Poll, Goto, Out
  <1> QED
    BY <1>1, <1>2, <1>3 DEF TypeInv

LEMMA GiveUpTypeInv ==
    ASSUME TypeInv, NEW c \in Callers, SendBusy(c) \/ Timeout(c)
    PROVE  TypeInv'
  <1>1. /\ pc[c] \in {"send", "poll"} /\ EndAttempt(c)
        /\ UNCHANGED <<mbox, tx, rx, irq, seq, ready, cmd, seen, got, hand,
                       ringing, pmic>>
    BY DEF SendBusy, Timeout, apmVars
  <1>2. pc' \in [Callers -> Stages]
    BY <1>1 DEF TypeInv, TypeOK, EndAttempt, Goto, Stages
  <1>3. retry' \in 0..Retries /\ (retry + 1 < Retries => retry' < Retries)
    BY <1>1, Constants DEF TypeInv, TypeOK, Placed, EndAttempt, Out
  <1>4. TypeOK'
    BY <1>1, <1>2, <1>3 DEF TypeInv, TypeOK, EndAttempt
  <1>5. OneHolder' /\ HasCmd'
    BY <1>1 DEF TypeInv, TypeOK, OneHolder, HasCmd, EndAttempt, Goto, Out
  <1>6. Placed'
    BY <1>1, <1>3 DEF TypeInv, TypeOK, OneHolder, Placed, EndAttempt, Goto, Out
  <1> QED
    BY <1>4, <1>5, <1>6 DEF TypeInv

LEMMA ReturnTypeInv ==
    ASSUME TypeInv, NEW c \in Callers, Return(c)
    PROVE  TypeInv'
  <1>1. TypeOK'
    <2>1. NoReply \in Reply
      BY Constants
    <2> QED
      BY <2>1, Zero DEF TypeInv, TypeOK, Return, Goto, apmVars, Stages
  <1>2. OneHolder' /\ HasCmd'
    BY DEF TypeInv, TypeOK, OneHolder, HasCmd, Return, Goto, Out
  <1>3. Placed'
    BY DEF TypeInv, TypeOK, OneHolder, Placed, Return, Goto, Out
  <1> QED
    BY <1>1, <1>2, <1>3 DEF TypeInv

LEMMA ApmTypeInv == ASSUME TypeInv, Apm PROVE TypeInv'
  <1>1. UNCHANGED <<mbox, apVars>>
    BY DEF Apm, ApmExecute, ApmPost, ApmRaise, apVars
  <1>2. OneHolder' /\ HasCmd' /\ Placed'
    BY <1>1 DEF TypeInv, OneHolder, HasCmd, Placed, apVars
  <1>3. CASE ApmExecute
    <2> DEFINE e == Head(tx)
    <2>1. e \in Command /\ tx' \in Seq(Command) /\ Len(tx') = Len(tx) - 1
      BY <1>3 DEF TypeInv, TypeOK, ApmExecute
    <2>2. e.cmd.reg \in Regs /\ e.cmd.val \in Vals
      BY <2>1, Constants DEF Command, Cmd
    <2>3. pmic' \in [Regs -> Vals]
      BY <1>3, <2>2 DEF TypeInv, TypeOK, ApmExecute
    <2>4. hand' \in Reply
      BY <1>3, <2>1, <2>2 DEF TypeInv, TypeOK, ApmExecute, Reply, Command
    <2>5. Len(tx') <= QLen - 1
      BY <2>1, Constants DEF TypeInv, TypeOK
    <2>6. TypeOK'
      BY <1>1, <1>3, <2>1, <2>3, <2>4, <2>5
      DEF TypeInv, TypeOK, ApmExecute, apVars
    <2> QED
      BY <1>2, <2>6 DEF TypeInv
  <1>4. CASE ApmPost
    <2>1. rx' \in Seq(Reply) /\ Len(rx') = Len(rx) + 1 /\ Len(rx) \in Nat
      BY <1>4 DEF TypeInv, TypeOK, ApmPost
    <2>2. TypeOK'
      BY <1>1, <1>4, <2>1, Constants DEF TypeInv, TypeOK, ApmPost, apVars
    <2> QED
      BY <1>2, <2>2 DEF TypeInv
  <1>5. CASE ApmRaise
    <2>1. TypeOK'
      BY <1>1, <1>5 DEF TypeInv, TypeOK, ApmRaise, apVars
    <2> QED
      BY <1>2, <2>1 DEF TypeInv
  <1> QED
    BY <1>3, <1>4, <1>5 DEF Apm

LEMMA NextTypeInv == TypeInv /\ [Next]_vars => TypeInv'
<1> SUFFICES ASSUME TypeInv, [Next]_vars PROVE TypeInv'
  OBVIOUS
<1>1. CASE UNCHANGED vars
  <2>1. TypeOK'
    BY <1>1 DEF TypeInv, TypeOK, vars
  <2>2. OneHolder' /\ HasCmd' /\ Placed'
    BY <1>1 DEF TypeInv, OneHolder, HasCmd, Placed, vars
  <2> QED
    BY <2>1, <2>2 DEF TypeInv
<1> QED
  BY <1>1, CallTypeInv, LockTypeInv, LookTypeInv, RearTypeInv, AckTypeInv,
     SendTypeInv, PollTypeInv, GiveUpTypeInv, ReturnTypeInv, ApmTypeInv
  DEF Next, Step

LEMMA TypeInvAlways == Spec => []TypeInv
  BY InitTypeInv, NextTypeInv, PTL DEF Spec

\* Every variable has its type, and neither ring of the mailbox ever holds more
\* than its q_len - 1 entries: s9p_send writes no slot that is still in use.
THEOREM TypeCorrect == Spec => []TypeOK
<1>1. TypeInv => TypeOK
  BY DEF TypeInv
<1> QED
  BY <1>1, TypeInvAlways, PTL

-----------------------------------------------------------------------------
(* The channel *)

LEMMA Entries ==
    ASSUME TypeOK
    PROVE  /\ seq \in 1..SeqMod
           /\ tx \in Seq(Command) /\ Len(tx) \in Nat
           /\ rx \in Seq(Reply) /\ Len(rx) \in Nat
           /\ \A i \in 1 .. Len(tx) : tx[i] \in Command /\ tx[i].age \in 0..SeqMod
           /\ \A i \in 1 .. Len(rx) : rx[i] \in Reply /\ rx[i].age \in 0..SeqMod
           /\ hand \in Reply /\ hand.age \in 0..SeqMod
  <1>1. /\ seq \in 1..SeqMod /\ tx \in Seq(Command) /\ rx \in Seq(Reply)
        /\ hand \in Reply
    BY DEF TypeOK
  <1>2. /\ \A e \in Command : e.age \in 0..SeqMod
        /\ \A r \in Reply : r.age \in 0..SeqMod
    BY DEF Command, Reply
  <1> QED
    BY <1>1, <1>2

LEMMA InitChannel == Init => Channel
  BY DEF Init, Channel, AllNumbered, RoomForOne, Young, NewestLast, Unused,
         NothingBehind, InAttempt

\* A step that leaves the channel as it is.
LEMMA QuietChannel ==
    ASSUME Channel, UNCHANGED <<tx, rx, seq, hand>>
    PROVE  /\ AllNumbered' /\ NewestLast' /\ (Young' <=> Young)
           /\ (\A c \in Callers : pc'[c] = "send" => pc[c] = "send") => Unused'
  BY DEF Channel, AllNumbered, Numbered, NewestLast, Young, Unused

\* Neither the mutex nor a poll changes the channel.
LEMMA PlainChannel ==
    ASSUME TypeInv, Channel, NEW c \in Callers,
           Lock(c) \/ Poll(c) \/ AckReply(c) \/ \E k \in Cmd : Call(c, k)
    PROVE  Channel'
  <1>1. /\ UNCHANGED <<tx, rx, seq, hand, got, seen>>
        /\ \A d \in Callers \ {c} : pc'[d] = pc[d]
        /\ pc'[c] \in {"lock", "look", "done", "poll"} /\ pc[c] # "send"
        /\ pc'[c] = "done" => pc[c] = "ack"
    BY DEF TypeInv, TypeOK, Lock, Poll, AckReply, Call, Goto, apmVars
  <1>2. waiting' = waiting
    <2>1. CASE Lock(c)
      BY <2>1 DEF TypeInv, TypeOK, Placed, Out, Lock
    <2> QED
      BY <2>1 DEF Poll, AckReply, Call
  <1>3. RoomForOne'
    BY <1>1, <1>2, QuietChannel DEF Channel, RoomForOne, InAttempt
  <1>4. NothingBehind'
    BY <1>1 DEF Channel, NothingBehind
  <1> QED
    BY <1>1, <1>3, <1>4, QuietChannel DEF Channel

\* A reply is taken only if it is the newest attempt's.
LEMMA LookChannel ==
    ASSUME TypeInv, InOrder, Channel, NEW c \in Callers, Look(c)
    PROVE  Channel'
  <1>1. /\ UNCHANGED <<tx, rx, seq, hand, waiting>>
        /\ pc[c] = "look" /\ pc' = [pc EXCEPT ![c] = "rear"]
        /\ seen' = Len(rx) /\ got = NoReply
    BY DEF TypeInv, Placed, Look, Goto, apmVars
  <1>2. ASSUME got' # NoReply
        PROVE  got'.age = 0 /\ tx = <<>> /\ hand = NoReply /\ waiting
    <2>1. PICK i \in 1 .. Len(rx) : rx[i].seq = seq /\ got' = rx[i] /\ waiting
      BY <1>1, <1>2 DEF Look, Matching
    <2>2. Numbered(rx[i]) /\ rx[i].age \in 0..SeqMod /\ seq \in 1..SeqMod
      BY <2>1, Entries DEF TypeInv, Channel, AllNumbered
    <2>3. rx[i].age = 0
      BY <2>1, <2>2, Constants DEF Numbered, InOrder
    <2> QED
      BY <2>1, <2>3 DEF Channel, NewestLast
  <1>3. \A d \in Callers : pc'[d] = "send" <=> pc[d] = "send"
    BY <1>1 DEF TypeInv, TypeOK
  <1>4. RoomForOne'
    BY <1>1, <1>3, QuietChannel DEF Channel, RoomForOne, InAttempt
  <1>5. NothingBehind'
    <2>1. \A d \in Callers : pc[d] \notin Out => d = c
      BY <1>1 DEF TypeInv, OneHolder, Out
    <2>2. \A d \in Callers : pc'[d] \in {"rear", "ack", "done"} => d = c
      BY <1>1, <2>1 DEF TypeInv, TypeOK, Out
    <2> QED
      BY <1>1, <1>2, <2>2 DEF TypeInv, TypeOK, NothingBehind
  <1> QED
    BY <1>1, <1>3, <1>4, <1>5, QuietChannel DEF Channel

LEMMA RearChannel ==
    ASSUME TypeInv, Channel, NEW c \in Callers, Rear(c)
    PROVE  Channel'
  <1>1. /\ UNCHANGED <<tx, seq, hand, got, waiting>>
        /\ pc[c] = "rear" /\ pc' = [pc EXCEPT ![c] = "ack"]
        /\ rx' = SubSeq(rx, seen + 1, Len(rx))
    BY DEF Rear, Goto, apmVars
  <1>2. /\ rx \in Seq(Reply) /\ Len(rx) \in Nat /\ seen \in 0..Len(rx)
        /\ Len(rx') = Len(rx) - seen
        /\ \A i \in 1 .. Len(rx') : i + seen \in 1 .. Len(rx) /\ rx'[i] = rx[i + seen]
    BY <1>1 DEF TypeInv, TypeOK
  <1>3. \A d \in Callers : pc'[d] = "send" <=> pc[d] = "send"
    BY <1>1 DEF TypeInv, TypeOK
  <1>4. AllNumbered'
    BY <1>1, <1>2 DEF Channel, AllNumbered, Numbered
  <1>5. RoomForOne'
    BY <1>1, <1>2, <1>3 DEF Channel, RoomForOne, InAttempt, Young
  <1>6. NewestLast'
    BY <1>1, <1>2 DEF Channel, NewestLast
  <1>7. Unused'
    BY <1>1, <1>2, <1>3 DEF Channel, Unused
  <1>8. NothingBehind'
    <2>1. got # NoReply => rx' = <<>>
      BY <1>1, <1>2 DEF Channel, NothingBehind
    <2>2. \A d \in Callers : pc'[d] # "rear"
      BY <1>1 DEF TypeInv, TypeOK, OneHolder, Out
    <2> QED
      BY <1>1, <2>1, <2>2 DEF Channel, NothingBehind
  <1> QED
    BY <1>4, <1>5, <1>6, <1>7, <1>8 DEF Channel

\* A new number makes everything older, and is nobody's yet.
LEMMA AckStaleChannel ==
    ASSUME TypeInv, InOrder, Channel, NEW c \in Callers, AckStale(c)
    PROVE  Channel'
  <1>1. /\ UNCHANGED <<got, waiting, seen>> /\ ~waiting /\ got = NoReply
        /\ pc[c] = "ack" /\ pc' = [pc EXCEPT ![c] = "send"]
        /\ seq' = NextSeq /\ tx' = AllOlder(tx) /\ rx' = AllOlder(rx)
        /\ hand' = IF hand = NoReply THEN hand ELSE Older(hand)
    BY DEF TypeInv, Placed, AckStale, Goto, Number
  <1>2. Young
    BY <1>1 DEF TypeInv, OneHolder, Out, Channel, RoomForOne, InAttempt
  <1>3. /\ Len(tx') = Len(tx) /\ \A i \in 1 .. Len(tx) : tx'[i] = Older(tx[i])
        /\ Len(rx') = Len(rx) /\ \A i \in 1 .. Len(rx) : rx'[i] = Older(rx[i])
    BY <1>1, Entries, Constants, OlderEntries DEF TypeInv
  <1>4. /\ \A i \in 1 .. Len(tx') : Numbered(tx[i])
                                  /\ tx'[i].age = tx[i].age + 1
                                  /\ tx'[i].seq = tx[i].seq
                                  /\ tx[i].age \in 0..SeqMod /\ tx[i].age < MaxLag
        /\ \A i \in 1 .. Len(rx') : Numbered(rx[i])
                                  /\ rx'[i].age = rx[i].age + 1
                                  /\ rx'[i].seq = rx[i].seq
                                  /\ rx[i].age \in 0..SeqMod /\ rx[i].age < MaxLag
        /\ hand' # NoReply => /\ hand # NoReply /\ Numbered(hand)
                              /\ hand'.age = hand.age + 1 /\ hand'.seq = hand.seq
                              /\ hand.age \in 0..SeqMod /\ hand.age < MaxLag
    <2>1. /\ \A e \in Command : /\ e.age < MaxLag => Older(e).age = e.age + 1
                                /\ Older(e).seq = e.seq
          /\ \A e \in Reply : /\ e.age < MaxLag => Older(e).age = e.age + 1
                              /\ Older(e).seq = e.seq
      BY Constants DEF Command, Reply, Older
    <2> QED
      BY <1>1, <1>2, <1>3, <2>1, Entries DEF TypeInv, Channel, AllNumbered, Young
  <1>5. AllNumbered'
    <2>1. ASSUME NEW i \in 1 .. Len(tx')
          PROVE  Numbered(tx[i])'
      <3>1. /\ tx[i].age \in Nat /\ tx[i].age < MaxLag /\ Numbered(tx[i])
            /\ tx'[i].age = tx[i].age + 1 /\ tx'[i].seq = tx[i].seq
        BY <1>4
      <3> QED
        BY <1>1, <3>1, OneOlder DEF TypeInv, Numbered
    <2>2. ASSUME NEW i \in 1 .. Len(rx')
          PROVE  Numbered(rx[i])'
      <3>1. /\ rx[i].age \in Nat /\ rx[i].age < MaxLag /\ Numbered(rx[i])
            /\ rx'[i].age = rx[i].age + 1 /\ rx'[i].seq = rx[i].seq
        BY <1>4
      <3> QED
        BY <1>1, <3>1, OneOlder DEF TypeInv, Numbered
    <2>3. hand' # NoReply => Numbered(hand)'
      BY <1>1, <1>4, OneOlder DEF TypeInv, Numbered
    <2> QED
      BY <2>1, <2>2, <2>3 DEF AllNumbered
  <1>6. RoomForOne'
    BY <1>1 DEF TypeInv, TypeOK, RoomForOne, InAttempt
  <1>7. /\ \A i \in 1 .. Len(tx') : tx'[i].age # 0
        /\ \A i \in 1 .. Len(rx') : rx'[i].age # 0
        /\ hand' # NoReply => hand'.age # 0
    <2>1. \A n \in 0..SeqMod : n + 1 # 0
      BY Constants
    <2> QED
      BY <1>4, <2>1
  <1>9. NewestLast' /\ Unused'
    BY <1>7 DEF NewestLast, Unused
  <1>8. NothingBehind'
    BY <1>1 DEF NothingBehind
  <1> QED
    BY <1>5, <1>6, <1>8, <1>9 DEF Channel

LEMMA SendChannel ==
    ASSUME TypeInv, InOrder, Channel, NEW c \in Callers, Send(c)
    PROVE  Channel'
  <1> DEFINE e == [seq |-> seq, age |-> 0, cmd |-> cmd[c]]
  <1>1. /\ UNCHANGED <<rx, seq, hand, got>> /\ got = NoReply /\ waiting'
        /\ pc[c] = "send" /\ pc' = [pc EXCEPT ![c] = "poll"]
        /\ tx' = Append(tx, e)
    BY DEF TypeInv, Placed, Send, Goto, apmVars
  <1>2. e \in Command /\ tx \in Seq(Command)
    BY Constants DEF TypeInv, TypeOK, HasCmd, Send, Command
  <1>3. /\ Len(tx') = Len(tx) + 1 /\ Len(tx) \in Nat /\ tx'[Len(tx) + 1] = e
        /\ \A i \in 1 .. Len(tx) : tx'[i] = tx[i]
    BY <1>1, <1>2
  <1>4. AllNumbered'
    <2>1. Numbered(e)
      BY Constants DEF TypeInv, TypeOK, Numbered
    <2> QED
      BY <1>1, <1>3, <2>1 DEF Channel, AllNumbered, Numbered
  <1>5. RoomForOne' /\ NothingBehind'
    BY <1>1 DEF RoomForOne, InAttempt, NothingBehind
  <1>6. NewestLast'
    BY <1>1, <1>3 DEF Channel, NewestLast, Unused
  <1>7. Unused'
    BY <1>1 DEF TypeInv, TypeOK, OneHolder, Out, Unused
  <1> QED
    BY <1>4, <1>5, <1>6, <1>7 DEF Channel

LEMMA GiveUpChannel ==
    ASSUME TypeInv, InOrder, Channel, NEW c \in Callers, SendBusy(c) \/ Timeout(c)
    PROVE  Channel'
  <1>1. /\ UNCHANGED <<tx, rx, seq, hand, got, seen>> /\ got = NoReply
        /\ pc[c] \in {"send", "poll"} /\ ~waiting' /\ MayGiveUp
        /\ \/ pc' = [pc EXCEPT ![c] = "look"]
           \/ pc' = [pc EXCEPT ![c] = "done"]
    BY DEF TypeInv, Placed, SendBusy, Timeout, EndAttempt, Goto, apmVars
  <1>2. Young
    BY <1>1, Entries DEF TypeInv, InOrder, MayGiveUp, Young
  <1>3. RoomForOne' /\ NothingBehind'
    BY <1>1, <1>2, QuietChannel DEF RoomForOne, NothingBehind
  <1>4. \A d \in Callers : pc'[d] = "send" => pc[d] = "send"
    BY <1>1 DEF TypeInv, TypeOK
  <1> QED
    BY <1>1, <1>3, <1>4, QuietChannel DEF Channel

LEMMA ReturnChannel ==
    ASSUME TypeInv, Channel, NEW c \in Callers, Return(c)
    PROVE  Channel'
  <1>1. /\ UNCHANGED <<tx, rx, seq, hand>> /\ got' = NoReply /\ ~waiting'
        /\ pc[c] = "done" /\ pc' = [pc EXCEPT ![c] = "idle"]
    BY DEF Return, Goto, apmVars
  <1>2. \A d \in Callers : pc'[d] # "send" /\ pc[d] # "send"
    BY <1>1 DEF TypeInv, TypeOK, OneHolder, Out
  <1>3. Young
    <2>1. CASE got # NoReply
      BY <1>1, <2>1 DEF Channel, NothingBehind, Young
    <2>2. CASE got = NoReply
      BY <1>1, <1>2, <2>2 DEF TypeInv, Placed, Channel, RoomForOne, InAttempt
    <2> QED
      BY <2>1, <2>2
  <1>4. RoomForOne' /\ NothingBehind'
    BY <1>1, <1>3, QuietChannel DEF RoomForOne, NothingBehind
  <1> QED
    BY <1>1, <1>2, <1>4, QuietChannel DEF Channel

\* The APM moves entries on, in their order.
LEMMA ApmChannel == ASSUME TypeInv, Channel, Apm PROVE Channel'
  <1>1. UNCHANGED apVars
    BY DEF Apm, ApmExecute, ApmPost, ApmRaise
  <1>2. CASE ApmExecute
    <2>1. /\ tx \in Seq(Command) /\ tx # <<>> /\ tx' = Tail(tx) /\ rx' = rx
          /\ hand = NoReply
          /\ hand'.seq = Head(tx).seq /\ hand'.age = Head(tx).age
      BY <1>2 DEF TypeInv, TypeOK, ApmExecute
    <2>2. /\ Len(tx) \in Nat \ {0} /\ Len(tx') = Len(tx) - 1 /\ Head(tx) = tx[1]
          /\ \A i \in 1 .. Len(tx) - 1 : tx'[i] = tx[i + 1]
          /\ Len(tx) = 1 => tx' = <<>>
      BY <2>1
    <2>3. AllNumbered'
      BY <1>1, <2>1, <2>2 DEF Channel, AllNumbered, Numbered, apVars
    <2>4. RoomForOne'
      BY <1>1, <2>1, <2>2 DEF Channel, RoomForOne, InAttempt, Young, apVars
    <2>5. NewestLast'
      <3>0. \A i \in 1 .. Len(tx) : tx[i].age = 0 => i = Len(tx)
        BY DEF Channel, NewestLast
      <3>1. ASSUME NEW i \in 1 .. Len(tx'), tx'[i].age = 0
            PROVE  i = Len(tx')
        <4>1. i + 1 \in 1 .. Len(tx) /\ tx[i + 1].age = 0
          BY <2>2, <3>1
        <4> QED
          BY <2>2, <3>0, <4>1
      <3>2. hand'.age = 0 => tx' = <<>>
        <4>1. 1 \in 1 .. Len(tx) /\ hand'.age = tx[1].age
          BY <2>1, <2>2
        <4> QED
          BY <2>2, <3>0, <4>1
      <3>3. \A i \in 1 .. Len(rx) : rx[i].age # 0
        BY <2>1 DEF Channel, NewestLast
      <3> QED
        BY <2>1, <3>1, <3>2, <3>3 DEF NewestLast
    <2>6. Unused'
      BY <1>1, <2>1, <2>2 DEF Channel, Unused, apVars
    <2>7. NothingBehind'
      BY <1>1, <2>1 DEF Channel, NothingBehind, apVars
    <2> QED
      BY <2>3, <2>4, <2>5, <2>6, <2>7 DEF Channel
  <1>3. CASE ApmPost
    <2>1. /\ rx \in Seq(Reply) /\ rx' = Append(rx, hand) /\ tx' = tx
          /\ hand # NoReply /\ hand' = NoReply /\ hand \in Reply
      BY <1>3 DEF TypeInv, TypeOK, ApmPost
    <2>2. /\ Len(rx') = Len(rx) + 1 /\ Len(rx) \in Nat /\ rx'[Len(rx) + 1] = hand
          /\ \A i \in 1 .. Len(rx) : rx'[i] = rx[i]
      BY <2>1
    <2>3. AllNumbered'
      BY <1>1, <2>1, <2>2 DEF Channel, AllNumbered, Numbered, apVars
    <2>4. RoomForOne'
      BY <1>1, <2>1, <2>2 DEF Channel, RoomForOne, InAttempt, Young, apVars
    <2>5. NewestLast'
      <3>1. /\ \A i \in 1 .. Len(rx) : rx'[i].age # 0
            /\ rx'[Len(rx) + 1].age = 0 => tx' = <<>>
        BY <2>1, <2>2 DEF Channel, NewestLast
      <3>2. \A i \in 1 .. Len(rx') : i \in 1 .. Len(rx) \/ i = Len(rx) + 1
        BY <2>2
      <3> QED
        BY <2>1, <2>2, <3>1, <3>2 DEF Channel, NewestLast
    <2>6. Unused'
      BY <1>1, <2>1, <2>2 DEF Channel, Unused, apVars
    <2>7. NothingBehind'
      BY <1>1, <2>1 DEF Channel, NothingBehind, apVars
    <2> QED
      BY <2>3, <2>4, <2>5, <2>6, <2>7 DEF Channel
  <1>4. CASE ApmRaise
    <2>1. UNCHANGED <<tx, rx, seq, hand, pc, got, seen, waiting>>
      BY <1>4 DEF ApmRaise, apVars
    <2> QED
      BY <2>1, QuietChannel DEF Channel, RoomForOne, InAttempt, NothingBehind
  <1> QED
    BY <1>2, <1>3, <1>4 DEF Apm

LEMMA NextChannel ==
    ASSUME InOrder, TypeInv, Channel, [Next]_vars
    PROVE  Channel'
  <1>1. CASE UNCHANGED vars
    <2>1. UNCHANGED <<tx, rx, seq, hand, pc, got, seen, waiting>>
      BY <1>1 DEF vars
    <2> QED
      BY <2>1, QuietChannel DEF Channel, RoomForOne, InAttempt, NothingBehind
  <1> QED
    BY <1>1, PlainChannel, LookChannel, RearChannel, AckStaleChannel, SendChannel,
       GiveUpChannel, ReturnChannel, ApmChannel
    DEF Next, Step

LEMMA ChannelAlways == ASSUME InOrder PROVE Spec => [](TypeInv /\ Channel)
<1>1. Init => TypeInv /\ Channel
  BY InitTypeInv, InitChannel
<1>2. TypeInv /\ Channel /\ [Next]_vars => (TypeInv /\ Channel)'
  BY NextTypeInv, NextChannel
<1> QED
  BY <1>1, <1>2, PTL DEF Spec

\* While the APM is not a whole round of sequence numbers behind, a call takes
\* only the reply to the attempt it makes: what s9p_consume_rx matches is never
\* a late reply to an attempt that was given up.
THEOREM NoLateReply == ASSUME InOrder PROVE Spec => []OwnReply
<1>1. Channel => OwnReply
  BY DEF Channel, NothingBehind, OwnReply
<1> QED
  BY <1>1, ChannelAlways, PTL

-----------------------------------------------------------------------------
(* A command that is waited for is never lost, however slow the APM is *)

\* What belongs to the newest attempt carries its number, also after the
\* numbers have come round.
FreshNumber ==
    /\ \A i \in 1 .. Len(tx) : tx[i].age = 0 => tx[i].seq = seq
    /\ \A i \in 1 .. Len(rx) : rx[i].age = 0 => rx[i].seq = seq
    /\ hand # NoReply /\ hand.age = 0 => hand.seq = seq

There == FreshNumber /\ AwaitedIsThere

LEMMA Domains ==
    ASSUME TypeOK PROVE DOMAIN tx = 1 .. Len(tx) /\ DOMAIN rx = 1 .. Len(rx)
  BY DEF TypeOK

LEMMA InitThere == Init => There
  BY DEF Init, There, FreshNumber, AwaitedIsThere

\* A step that leaves the channel alone, and begins neither a wait nor a walk.
LEMMA QuietThere ==
    ASSUME There, UNCHANGED <<tx, rx, seq, hand>>,
           waiting' /\ got' = NoReply => waiting /\ got = NoReply /\ seen' = seen,
           \A c \in Callers : pc'[c] = "rear" => pc[c] = "rear"
    PROVE  There'
  BY DEF There, FreshNumber, AwaitedIsThere

LEMMA PlainThere ==
    ASSUME TypeInv, There, NEW c \in Callers,
           \/ Lock(c) \/ Poll(c) \/ AckReply(c) \/ SendBusy(c) \/ Timeout(c)
           \/ Return(c) \/ \E k \in Cmd : Call(c, k)
    PROVE  There'
  <1>1. UNCHANGED <<tx, rx, seq, hand, seen>>
    BY DEF Lock, Poll, AckReply, SendBusy, Timeout, Return, Call, apmVars
  <1>2. waiting' /\ got' = NoReply => waiting /\ got = NoReply
    BY DEF Lock, Poll, AckReply, SendBusy, Timeout, EndAttempt, Return, Call
  <1>3. \E stage \in {"lock", "look", "poll", "done", "idle"} :
            pc' = [pc EXCEPT ![c] = stage]
    BY DEF Lock, Poll, AckReply, SendBusy, Timeout, EndAttempt, Return, Call, Goto
  <1>4. \A d \in Callers : pc'[d] = "rear" => pc[d] = "rear"
    BY <1>3 DEF TypeInv, TypeOK
  <1> QED
    BY <1>1, <1>2, <1>4, QuietThere

\* The walk takes every reply that carries the number of the attempt; those that
\* it leaves behind it are not the attempt's.
LEMMA LookThere ==
    ASSUME TypeInv, There, NEW c \in Callers, Look(c)
    PROVE  There'
  <1>1. UNCHANGED <<tx, rx, seq, hand, waiting>> /\ got = NoReply
    BY DEF TypeInv, Placed, Look, apmVars
  <1>2. ASSUME waiting, got' = NoReply
        PROVE  \A i \in 1 .. Len(rx) : rx[i].age # 0
    <2>1. Matching = {}
      <3>1. ASSUME NEW i \in Matching
            PROVE  rx[i] # NoReply
        BY <3>1, Constants DEF TypeInv, TypeOK, Matching, NoReply
      <3>2. QED
        BY <1>2, <3>1 DEF Look
    <2>2. QED
      BY <2>1 DEF Matching, There, FreshNumber
  <1>3. FreshNumber'
    BY <1>1 DEF There, FreshNumber
  <1>4. AwaitedIsThere'
    BY <1>1, <1>2, Domains DEF TypeInv, There, AwaitedIsThere
  <1> QED
    BY <1>3, <1>4 DEF There

\* Only what was walked over is dropped.
LEMMA RearThere ==
    ASSUME TypeInv, There, NEW c \in Callers, Rear(c)
    PROVE  There'
  <1>1. /\ UNCHANGED <<tx, seq, hand, got, waiting>> /\ pc[c] = "rear"
        /\ rx' = SubSeq(rx, seen + 1, Len(rx)) /\ seen' = 0
    BY DEF Rear, apmVars
  <1>2. /\ Len(rx) \in Nat /\ seen \in 0..Len(rx)
        /\ Len(rx') = Len(rx) - seen /\ DOMAIN rx' = 1 .. Len(rx')
        /\ \A i \in 1 .. Len(rx') : i + seen \in 1 .. Len(rx) /\ rx'[i] = rx[i + seen]
    BY <1>1 DEF TypeInv, TypeOK
  <1>3. FreshNumber'
    BY <1>1, <1>2 DEF There, FreshNumber
  <1>4. ASSUME NEW i \in 1 .. Len(rx), seen < i
        PROVE  i - seen \in 1 .. Len(rx') /\ rx'[i - seen] = rx[i] /\ seen' < i - seen
    <2>1. i - seen \in 1 .. Len(rx') /\ i - seen > 0
      BY <1>2, <1>4
    <2>2. QED
      BY <1>1, <1>2, <1>4, <2>1
  <1>5. AwaitedIsThere'
    BY <1>1, <1>2, <1>4, Domains DEF TypeInv, There, AwaitedIsThere
  <1> QED
    BY <1>3, <1>5 DEF There

\* A new number is nobody's yet.
LEMMA AckStaleThere ==
    ASSUME TypeInv, NEW c \in Callers, AckStale(c)
    PROVE  There'
  <1>1. /\ ~waiting' /\ tx' = AllOlder(tx) /\ rx' = AllOlder(rx)
        /\ hand' = IF hand = NoReply THEN hand ELSE Older(hand)
    BY DEF AckStale, Number
  <1>2. /\ \A e \in Command : Older(e).age # 0
        /\ \A r \in Reply : Older(r).age # 0
    BY Constants DEF Command, Reply, Older
  <1>3. /\ Len(tx') = Len(tx) /\ \A i \in 1 .. Len(tx) : tx'[i] = Older(tx[i])
        /\ Len(rx') = Len(rx) /\ \A i \in 1 .. Len(rx) : rx'[i] = Older(rx[i])
    BY <1>1, Entries, Constants, OlderEntries DEF TypeInv
  <1>4. FreshNumber'
    BY <1>1, <1>2, <1>3, Entries DEF TypeInv, FreshNumber
  <1> QED
    BY <1>1, <1>4 DEF There, AwaitedIsThere

LEMMA SendThere ==
    ASSUME TypeInv, There, NEW c \in Callers, Send(c)
    PROVE  There'
  <1> DEFINE e == [seq |-> seq, age |-> 0, cmd |-> cmd[c]]
  <1>1. UNCHANGED <<rx, seq, hand>> /\ tx' = Append(tx, e)
    BY DEF Send, apmVars
  <1>2. e \in Command /\ tx \in Seq(Command)
    BY Constants DEF TypeInv, TypeOK, HasCmd, Send, Command
  <1>3. /\ Len(tx') = Len(tx) + 1 /\ Len(tx) \in Nat /\ tx'[Len(tx) + 1] = e
        /\ \A i \in 1 .. Len(tx) : tx'[i] = tx[i]
        /\ Len(tx) + 1 \in DOMAIN tx'
    BY <1>1, <1>2
  <1>4. FreshNumber'
    BY <1>1, <1>3 DEF There, FreshNumber
  <1>5. AwaitedIsThere'
    BY <1>3 DEF AwaitedIsThere
  <1> QED
    BY <1>4, <1>5 DEF There

\* The APM moves entries on, and a reply it posts comes behind what the walk has
\* read.
LEMMA ApmThere == ASSUME TypeInv, There, Apm PROVE There'
  <1>1. UNCHANGED apVars
    BY DEF Apm, ApmExecute, ApmPost, ApmRaise
  <1>2. CASE ApmExecute
    <2>1. /\ tx \in Seq(Command) /\ tx # <<>> /\ tx' = Tail(tx) /\ rx' = rx
          /\ hand = NoReply
          /\ hand'.seq = Head(tx).seq /\ hand'.age = Head(tx).age
      BY <1>2 DEF TypeInv, TypeOK, ApmExecute
    <2>2. /\ Len(tx) \in Nat \ {0} /\ Len(tx') = Len(tx) - 1 /\ Head(tx) = tx[1]
          /\ \A i \in 1 .. Len(tx) - 1 : tx'[i] = tx[i + 1]
          /\ DOMAIN tx' = 1 .. Len(tx) - 1 /\ tx[1] \in Command
      BY <2>1
    <2>3. hand' # NoReply
      BY <2>1, <2>2, Constants DEF Command, NoReply
    <2>4. FreshNumber'
      BY <1>1, <2>1, <2>2 DEF There, FreshNumber, apVars
    <2>5. ASSUME NEW i \in 1 .. Len(tx), tx[i].age = 0
          PROVE  hand'.age = 0 \/ \E j \in DOMAIN tx' : tx'[j].age = 0
      <3>1. CASE i = 1
        BY <2>1, <2>2, <2>5, <3>1
      <3>2. CASE i # 1
        <4>1. i - 1 \in 1 .. Len(tx) - 1 /\ tx'[i - 1] = tx[i]
          BY <2>2, <2>5, <3>2
        <4>2. QED
          BY <2>2, <2>5, <4>1
      <3>3. QED
        BY <3>1, <3>2
    <2>6. AwaitedIsThere'
      BY <1>1, <2>1, <2>3, <2>5, Domains DEF TypeInv, There, AwaitedIsThere, apVars
    <2> QED
      BY <2>4, <2>6 DEF There
  <1>3. CASE ApmPost
    <2>1. /\ rx \in Seq(Reply) /\ rx' = Append(rx, hand) /\ tx' = tx
          /\ hand # NoReply /\ hand' = NoReply /\ hand \in Reply
      BY <1>3 DEF TypeInv, TypeOK, ApmPost
    <2>2. /\ Len(rx') = Len(rx) + 1 /\ Len(rx) \in Nat /\ rx'[Len(rx) + 1] = hand
          /\ \A i \in 1 .. Len(rx) : rx'[i] = rx[i] /\ i \in DOMAIN rx'
          /\ Len(rx) + 1 \in DOMAIN rx' /\ seen < Len(rx) + 1
      BY <2>1 DEF TypeInv, TypeOK
    <2>3. FreshNumber'
      BY <1>1, <2>1, <2>2 DEF There, FreshNumber, apVars
    <2>4. AwaitedIsThere'
      BY <1>1, <2>1, <2>2, Domains DEF TypeInv, There, AwaitedIsThere, apVars
    <2> QED
      BY <2>3, <2>4 DEF There
  <1>4. CASE ApmRaise
    <2>1. UNCHANGED <<tx, rx, seq, hand, pc, got, seen, waiting>>
      BY <1>4 DEF ApmRaise, apVars
    <2> QED
      BY <2>1, QuietThere
  <1> QED
    BY <1>2, <1>3, <1>4 DEF Apm

\* For every ring, number of callers and lag of the APM: while a call waits, its
\* command or the reply to it is in the channel.  A reply that slips in between
\* the walk over the ring and the acknowledgement is left for the next walk.
THEOREM AwaitedKept == Spec => []AwaitedIsThere
<1>1. Init => There
  BY InitThere
<1>2. TypeInv /\ There /\ [Next]_vars => There'
  <2>1. ASSUME There, UNCHANGED vars
        PROVE  There'
    BY <2>1 DEF vars, There, FreshNumber, AwaitedIsThere
  <2>2. QED
    BY <2>1, PlainThere, LookThere, RearThere, AckStaleThere, SendThere, ApmThere
    DEF Next, Step
<1>3. There => AwaitedIsThere
  BY DEF There
<1> QED
  BY <1>1, <1>2, <1>3, TypeInvAlways, PTL DEF Spec

-----------------------------------------------------------------------------
(* What its callers see is the PMIC service *)

\* What the service's variables are in the mailbox.
Queue == [i \in DOMAIN tx |-> tx[i].cmd]
Stage == [c \in Callers |->
            CASE pc[c] = "idle" -> "idle"
              [] pc[c] # "idle" /\ pc[c] # "lock" /\ waiting -> "live"
              [] OTHER -> "open"]
Result == IF waiting /\ Own # {}
            THEN LET r == CHOOSE r \in Own : TRUE IN [rc |-> r.rc, val |-> r.val]
            ELSE [rc |-> "none", val |-> 0]
Outside == <<pmic, Queue, Stage, cmd, Result>>

\* The attempt that is waited for is the last in the command ring, or its reply
\* is on its way, or taken: a walk over the ring leaves out none.
OwnKept ==
    /\ waiting /\ tx # <<>> => tx[Len(tx)].age = 0
    /\ waiting /\ tx = <<>> => Own # {}
    /\ got # NoReply => \A i \in 1 .. Len(rx) : rx[i].age = 0 => got = rx[i]
    /\ \A c \in Callers : pc[c] = "rear" /\ waiting =>
         \A i \in 1 .. seen : rx[i].age = 0 => got # NoReply

LEMMA InOwn ==
    ASSUME TypeInv, NEW r
    PROVE  r \in Own <=> /\ \/ r = hand \/ r = got
                            \/ \E i \in 1 .. Len(rx) : r = rx[i]
                         /\ r # NoReply /\ r.age = 0
  BY DEF TypeInv, TypeOK, Own

LEMMA OneOwn ==
    ASSUME TypeInv, Channel, OwnKept, NEW r \in Own
    PROVE  /\ r \in Reply /\ tx = <<>>
           /\ \A q \in Own : q = r
  <1>1. r \in Reply
    BY InOwn DEF TypeInv, TypeOK
  <1>2. tx = <<>>
    BY InOwn DEF Channel, NewestLast, NothingBehind
  <1>3. ASSUME NEW q \in Own
        PROVE  q = r
    BY InOwn DEF Channel, NewestLast, NothingBehind, OwnKept
  <1> QED
    BY <1>1, <1>2, <1>3

LEMMA ResultIs ==
    ASSUME TypeInv, Channel, OwnKept, waiting, NEW r \in Own
    PROVE  Result = [rc |-> r.rc, val |-> r.val]
  <1>1. (CHOOSE q \in Own : TRUE) = r
    BY OneOwn
  <1> QED
    BY <1>1 DEF Result

\* A step that no caller sees.
LEMMA Unseen ==
    ASSUME TypeInv, UNCHANGED <<pmic, cmd, waiting, Queue>>,
           \A c \in Callers : pc'[c] = "idle" <=> pc[c] = "idle",
           \A c \in Callers : waiting => (pc'[c] = "lock" <=> pc[c] = "lock"),
           waiting => Own' = Own
    PROVE  UNCHANGED Outside
  <1>1. Stage' = Stage
    BY DEF Stage
  <1>2. Result' = Result
    BY DEF Result
  <1> QED
    BY <1>1, <1>2 DEF Outside

LEMMA CallStep ==
    ASSUME TypeInv, OwnKept, NEW c \in Callers, NEW k \in Cmd, Call(c, k)
    PROVE  OwnKept' /\ Service!Call(c, k)
  <1>1. /\ Stage[c] = "idle" /\ Stage' = [Stage EXCEPT ![c] = "open"]
    BY DEF TypeInv, TypeOK, Placed, Stage, Call, Goto
  <1>2. Queue' = Queue /\ Result' = Result
    BY DEF Call, apmVars, Queue, Result, Own
  <1>3. pmic' = pmic /\ cmd' = [cmd EXCEPT ![c] = k]
    BY DEF Call, apmVars
  <1>4. OwnKept'
    BY DEF TypeInv, TypeOK, OwnKept, Own, Call, Goto, apmVars
  <1> QED
    BY <1>1, <1>2, <1>3, <1>4 DEF Service!Call, Queue, Stage, Result

LEMMA PlainStep ==
    ASSUME TypeInv, OwnKept, NEW c \in Callers, Lock(c) \/ Poll(c) \/ AckReply(c)
    PROVE  OwnKept' /\ UNCHANGED Outside
  <1>1. /\ UNCHANGED <<tx, rx, hand, got, seen, pmic, cmd>>
        /\ \A d \in Callers \ {c} : pc'[d] = pc[d]
        /\ pc'[c] \in {"look", "done", "poll"} /\ pc[c] # "idle"
        /\ pc[c] = "lock" => Lock(c)
    BY DEF TypeInv, TypeOK, Lock, Poll, AckReply, Goto, apmVars
  <1>2. waiting' = waiting /\ (Lock(c) => ~waiting)
    <2>1. CASE Lock(c)
      BY <2>1 DEF TypeInv, TypeOK, Placed, Out, Lock
    <2>2. CASE Poll(c) \/ AckReply(c)
      BY <2>2 DEF Poll, AckReply, Lock
    <2> QED
      BY <2>1, <2>2
  <1>3. Own' = Own /\ Queue' = Queue
    BY <1>1 DEF Own, Queue
  <1>4. OwnKept'
    BY <1>1, <1>2, <1>3 DEF OwnKept
  <1> QED
    BY <1>1, <1>2, <1>3, <1>4, Unseen

LEMMA LookStep ==
    ASSUME TypeInv, InOrder, Channel, OwnKept, NEW c \in Callers, Look(c)
    PROVE  OwnKept' /\ UNCHANGED Outside
  <1>1. /\ UNCHANGED <<tx, rx, seq, hand, waiting, pmic, cmd>>
        /\ pc[c] = "look" /\ pc' = [pc EXCEPT ![c] = "rear"]
        /\ seen' = Len(rx) /\ got = NoReply
    BY DEF TypeInv, Placed, Look, Goto, apmVars
  <1>2. ASSUME NEW i \in 1 .. Len(rx), rx[i].age = 0, waiting
        PROVE  got' = rx[i] /\ rx[i] # NoReply
    <2>1. i = Len(rx) /\ Numbered(rx[i]) /\ seq \in 1..SeqMod /\ Len(rx) \in Nat
      BY <1>2, Entries DEF TypeInv, Channel, NewestLast, AllNumbered
    <2>2. rx[i].seq = seq
      BY <1>2, <2>1, Constants DEF Numbered
    <2>3. i \in Matching /\ \A j \in Matching : j <= i
      BY <2>1, <2>2 DEF Matching
    <2>4. \A j \in Matching : i <= j => j = i
      BY <2>1 DEF Matching
    <2>5. got' = rx[i]
      BY <1>2, <2>1, <2>3, <2>4 DEF Look, Matching
    <2> QED
      BY <2>1, <2>2, <2>5, Constants DEF NoReply
  <1>3. got' # NoReply => \E i \in 1 .. Len(rx) : got' = rx[i] /\ waiting
    BY <1>1 DEF Look, Matching
  <1>4. Own' = Own
    <2>1. CASE got' = NoReply
      BY <1>1, <2>1 DEF Own
    <2>2. CASE got' # NoReply
      <3>1. PICK i \in DOMAIN rx : got' = rx[i]
        BY <1>3, <2>2 DEF TypeInv, TypeOK
      <3> QED
        BY <1>1, <3>1 DEF Own
    <2> QED
      BY <2>1, <2>2
  <1>5. OwnKept'
    <2>1. /\ waiting' /\ tx' # <<>> => tx'[Len(tx')].age = 0
          /\ waiting' /\ tx' = <<>> => Own' # {}
      BY <1>1, <1>4 DEF OwnKept
    <2>2. got' # NoReply => \A i \in 1 .. Len(rx') : rx'[i].age = 0 => got' = rx'[i]
      BY <1>1, <1>2, <1>3
    <2>3. waiting' => \A i \in 1 .. seen' : rx'[i].age = 0 => got' # NoReply
      BY <1>1, <1>2
    <2> QED
      BY <2>1, <2>2, <2>3 DEF OwnKept
  <1> QED
    BY <1>1, <1>4, <1>5, Unseen DEF TypeInv, TypeOK, Queue

LEMMA RearStep ==
    ASSUME TypeInv, Channel, OwnKept, NEW c \in Callers, Rear(c)
    PROVE  OwnKept' /\ UNCHANGED Outside
  <1>1. /\ UNCHANGED <<tx, seq, hand, got, waiting, pmic, cmd>>
        /\ pc[c] = "rear" /\ pc' = [pc EXCEPT ![c] = "ack"]
        /\ rx' = SubSeq(rx, seen + 1, Len(rx))
    BY DEF Rear, Goto, apmVars
  <1>2. /\ rx \in Seq(Reply) /\ Len(rx) \in Nat /\ seen \in 0..Len(rx)
        /\ rx' \in Seq(Reply) /\ Len(rx') = Len(rx) - seen
        /\ \A i \in 1 .. Len(rx') : i + seen \in 1 .. Len(rx) /\ rx'[i] = rx[i + seen]
    BY <1>1 DEF TypeInv, TypeOK
  <1>3. \A d \in Callers : pc'[d] # "rear"
    BY <1>1 DEF TypeInv, TypeOK, OneHolder, Out
  <1>4. waiting => Own' = Own
    <2> SUFFICES ASSUME waiting PROVE Own' = Own
      OBVIOUS
    <2>1. ASSUME NEW r \in Own
          PROVE  r \in Own'
      <3>1. CASE r = hand \/ r = got
        BY <1>1, <3>1 DEF Own
      <3>2. CASE \E i \in 1 .. Len(rx) : r = rx[i]
        <4>1. PICK i \in 1 .. Len(rx) : r = rx[i] /\ rx[i].age = 0 /\ r # NoReply
          BY <3>2, InOwn
        <4>2. CASE i <= seen
          <5>1. got # NoReply /\ got = rx[i]
            BY <1>1, <1>2, <4>1, <4>2 DEF OwnKept
          <5> QED
            BY <1>1, <4>1, <5>1 DEF Own
        <4>3. CASE i > seen
          <5>1. i - seen \in 1 .. Len(rx') /\ rx'[i - seen] = rx[i]
            BY <1>2, <4>1, <4>3
          <5>2. i - seen \in DOMAIN rx'
            BY <1>2, <5>1
          <5> QED
            BY <4>1, <5>1, <5>2 DEF Own
        <4> QED
          BY <1>2, <4>1, <4>2, <4>3
      <3> QED
        BY <3>1, <3>2, InOwn
    <2>2. ASSUME NEW r \in Own'
          PROVE  r \in Own
      <3>1. r # NoReply /\ r.age = 0
            /\ (r = hand \/ r = got \/ \E i \in DOMAIN rx' : r = rx'[i])
        BY <1>1, <2>2 DEF Own
      <3>2. (\E i \in DOMAIN rx' : r = rx'[i]) => \E i \in 1 .. Len(rx) : r = rx[i]
        BY <1>2
      <3> QED
        BY <3>1, <3>2, InOwn
    <2> QED
      BY <2>1, <2>2
  <1>5. OwnKept'
    BY <1>1, <1>2, <1>3, <1>4 DEF OwnKept
  <1> QED
    BY <1>1, <1>4, <1>5, Unseen DEF TypeInv, TypeOK, Queue

LEMMA AckStaleStep ==
    ASSUME TypeInv, OwnKept, NEW c \in Callers, AckStale(c)
    PROVE  OwnKept' /\ UNCHANGED Outside
  <1>1. /\ UNCHANGED <<got, waiting, seen, pmic, cmd>> /\ ~waiting /\ got = NoReply
        /\ pc[c] = "ack" /\ pc' = [pc EXCEPT ![c] = "send"]
        /\ tx' = AllOlder(tx)
    BY DEF TypeInv, Placed, AckStale, Goto, Number
  <1>2. Queue' = Queue
    <2>1. /\ DOMAIN tx' = DOMAIN tx
          /\ \A i \in DOMAIN tx : tx'[i].cmd = tx[i].cmd
      <3>1. tx \in Seq(Command) /\ \A e \in Command : Older(e).cmd = e.cmd
        BY DEF TypeInv, TypeOK, Older, Command
      <3> QED
        BY <1>1, <3>1 DEF AllOlder
    <2> QED
      BY <2>1 DEF Queue
  <1>3. OwnKept'
    BY <1>1 DEF OwnKept
  <1> QED
    BY <1>1, <1>2, <1>3, Unseen DEF TypeInv, TypeOK

\* The service's queue is the command ring.
LEMMA QueueIs ==
    ASSUME TypeInv
    PROVE  Queue \in Seq(Cmd) /\ Len(Queue) = Len(tx)
           /\ \A i \in 1 .. Len(tx) : Queue[i] = tx[i].cmd
  <1>1. tx \in Seq(Command) /\ \A e \in Command : e.cmd \in Cmd
    BY DEF TypeInv, TypeOK, Command
  <1>2. /\ Len(tx) \in Nat /\ DOMAIN tx = 1 .. Len(tx)
        /\ \A i \in 1 .. Len(tx) : tx[i].cmd \in Cmd
    BY <1>1
  <1>3. Queue \in [1 .. Len(tx) -> Cmd]
    BY <1>2 DEF Queue
  <1> QED
    BY <1>2, <1>3 DEF Queue

LEMMA SendStep ==
    ASSUME TypeInv, Channel, OwnKept, NEW c \in Callers, Send(c)
    PROVE  OwnKept' /\ Service!Submit(c)
  <1> DEFINE e == [seq |-> seq, age |-> 0, cmd |-> cmd[c]]
  <1>1. /\ UNCHANGED <<rx, seq, hand, got, seen, pmic, cmd>> /\ got = NoReply
        /\ ~waiting /\ waiting' = TRUE /\ Len(tx) < QLen - 1
        /\ pc[c] = "send" /\ pc' = [pc EXCEPT ![c] = "poll"]
        /\ tx' = Append(tx, e)
    BY DEF TypeInv, Placed, Send, Goto, apmVars
  <1>2. /\ Len(tx') = Len(tx) + 1 /\ Len(tx) \in Nat /\ tx'[Len(tx) + 1] = e
        /\ \A i \in 1 .. Len(tx) : tx'[i] = tx[i]
        /\ tx' \in Seq(Command)
    BY <1>1, SendTypeInv DEF TypeInv, TypeOK
  <1>3. \A d \in Callers : d # c => pc[d] \in Out /\ pc'[d] \in Out
    BY <1>1 DEF TypeInv, TypeOK, OneHolder, Out
  <1>4. OwnKept'
    <2>1. tx' # <<>> /\ tx'[Len(tx')].age = 0
      BY <1>2
    <2>2. \A d \in Callers : pc'[d] # "rear"
      BY <1>1, <1>3 DEF TypeInv, TypeOK, Out
    <2> QED
      BY <1>1, <2>1, <2>2 DEF OwnKept
  <1>5. Own' = {}
    BY <1>1, Entries DEF TypeInv, Channel, Unused, Own
  <1>6. Result = [rc |-> "none", val |-> 0] /\ Result' = Result
    BY <1>1, <1>5 DEF Result
  <1>7. /\ Stage[c] = "open" /\ \A d \in Callers : Stage[d] # "live"
        /\ Stage' = [Stage EXCEPT ![c] = "live"]
    BY <1>1, <1>3 DEF TypeInv, TypeOK, Stage, Out
  <1>8. Queue' = Append(Queue, cmd[c])
    <2>1. Queue' = [i \in 1 .. Len(tx) + 1 |-> IF i = Len(tx) + 1 THEN cmd[c] ELSE tx[i].cmd]
      BY <1>2 DEF Queue
    <2> QED
      BY <1>2, <2>1, QueueIs DEF TypeInv, TypeOK, HasCmd
  <1>9. Len(Queue) < QLen - 1
    BY <1>1, QueueIs
  <1> QED
    BY <1>1, <1>4, <1>6, <1>7, <1>8, <1>9
    DEF Service!Submit, Queue, Stage, Result

\* Only one call is live, the lock holder's.
LEMMA OneLiveStage ==
    ASSUME TypeInv, NEW c \in Callers, pc[c] \notin Out
    PROVE  /\ Stage[c] = IF waiting THEN "live" ELSE "open"
           /\ \A d \in Callers : d # c => Stage[d] \in {"idle", "open"}
  BY DEF TypeInv, OneHolder, Out, Stage

LEMMA SendBusyStep ==
    ASSUME TypeInv, OwnKept, NEW c \in Callers, SendBusy(c)
    PROVE  OwnKept' /\ UNCHANGED Outside
  <1>1. /\ UNCHANGED <<tx, rx, hand, got, seen, pmic, cmd>>
        /\ ~waiting /\ waiting' = FALSE /\ got = NoReply
        /\ pc[c] = "send" /\ pc' \in {[pc EXCEPT ![c] = "look"], [pc EXCEPT ![c] = "done"]}
    BY DEF TypeInv, Placed, SendBusy, EndAttempt, Goto, apmVars
  <1>2. waiting' = waiting
    BY <1>1 DEF TypeInv, TypeOK
  <1>3. OwnKept'
    BY <1>1 DEF OwnKept
  <1> QED
    BY <1>1, <1>2, <1>3, Unseen DEF TypeInv, TypeOK, Queue

LEMMA TimeoutStep ==
    ASSUME TypeInv, OwnKept, NEW c \in Callers, Timeout(c)
    PROVE  OwnKept' /\ Service!GiveUp(c)
  <1>1. /\ UNCHANGED <<tx, rx, hand, got, seen, pmic, cmd>>
        /\ waiting /\ waiting' = FALSE /\ got = NoReply
        /\ pc[c] = "poll" /\ pc' \in {[pc EXCEPT ![c] = "look"], [pc EXCEPT ![c] = "done"]}
    BY DEF TypeInv, Placed, Timeout, EndAttempt, Goto, apmVars
  <1>2. OwnKept'
    BY <1>1 DEF OwnKept
  <1>3. Result' = [rc |-> "none", val |-> 0] /\ Queue' = Queue
    BY <1>1 DEF Result, Queue
  <1>4. Stage[c] = "live" /\ Stage' = [Stage EXCEPT ![c] = "open"]
    BY <1>1 DEF TypeInv, TypeOK, OneHolder, Out, Stage
  <1> QED
    BY <1>1, <1>2, <1>3, <1>4
    DEF Service!GiveUp, Service!NoAnswer, Queue, Stage, Result

LEMMA ReturnStep ==
    ASSUME TypeInv, Channel, OwnKept, NEW c \in Callers, Return(c)
    PROVE  OwnKept' /\ (Service!Succeed(c) \/ Service!Fail(c))
  <1>1. /\ UNCHANGED <<tx, rx, hand, seen, pmic>> /\ got' = NoReply
        /\ waiting' = FALSE /\ (waiting <=> got # NoReply)
        /\ cmd' = [cmd EXCEPT ![c] = NoCmd]
        /\ pc[c] = "done" /\ pc' = [pc EXCEPT ![c] = "idle"]
    BY DEF TypeInv, Placed, Return, Goto, apmVars
  <1>2. OwnKept'
    BY <1>1 DEF OwnKept
  <1>3. /\ Result' = [rc |-> "none", val |-> 0] /\ Queue' = Queue
        /\ Stage' = [Stage EXCEPT ![c] = "idle"]
    BY <1>1 DEF TypeInv, TypeOK, OneHolder, Out, Result, Queue, Stage
  <1>4. CASE waiting
    <2>1. got \in Own /\ got.rc \in {"ok", "fault"}
      BY <1>1, <1>4, InOwn DEF Channel, NothingBehind, TypeInv, TypeOK, Reply
    <2>2. Result = [rc |-> got.rc, val |-> got.val]
      BY <1>4, <2>1, ResultIs
    <2>3. Result # [rc |-> "none", val |-> 0] /\ Stage[c] = "live"
      BY <1>1, <1>4, <2>1, <2>2, OneLiveStage DEF Out
    <2> QED
      BY <1>1, <1>2, <1>3, <2>3
      DEF Service!Succeed, Service!Answered, Service!Return, Service!NoAnswer,
          Service!NoCmd, NoCmd, Queue, Stage, Result
  <1>5. CASE ~waiting
    <2>1. Result' = Result /\ Stage[c] = "open"
      BY <1>1, <1>3, <1>5, OneLiveStage DEF Out, Result
    <2> QED
      BY <1>1, <1>2, <1>3, <2>1
      DEF Service!Fail, Service!Return, Service!NoCmd, NoCmd, Queue, Stage, Result
  <1> QED
    BY <1>4, <1>5

LEMMA PostStep ==
    ASSUME TypeInv, Channel, OwnKept, ApmPost
    PROVE  OwnKept' /\ UNCHANGED Outside
  <1>1. /\ UNCHANGED <<tx, got, seen, waiting, pc, pmic, cmd>>
        /\ hand # NoReply /\ hand' = NoReply /\ rx' = Append(rx, hand)
        /\ rx \in Seq(Reply) /\ hand \in Reply /\ seen \in 0..Len(rx)
    BY DEF TypeInv, TypeOK, ApmPost, apVars
  <1>2. /\ Len(rx') = Len(rx) + 1 /\ Len(rx) \in Nat /\ rx'[Len(rx) + 1] = hand
        /\ \A i \in 1 .. Len(rx) : rx'[i] = rx[i]
        /\ DOMAIN rx' = 1 .. Len(rx) + 1 /\ DOMAIN rx = 1 .. Len(rx)
    BY <1>1
  <1>3. {rx'[i] : i \in DOMAIN rx'} = {rx[i] : i \in DOMAIN rx} \cup {hand}
    BY <1>2
  <1>4. Own' = Own
    BY <1>1, <1>3 DEF Own
  <1>5. OwnKept'
    <2>1. got = NoReply
      BY <1>1 DEF Channel, NothingBehind
    <2>2. \A i \in 1 .. seen : i \in 1 .. Len(rx)
      BY <1>1, <1>2
    <2> QED
      BY <1>1, <1>2, <1>4, <2>1, <2>2 DEF OwnKept
  <1> QED
    BY <1>1, <1>4, <1>5, Unseen DEF Queue

LEMMA ExecuteStep ==
    ASSUME TypeInv, Channel, OwnKept, ApmExecute
    PROVE  OwnKept' /\ Service!Perform
  <1> DEFINE e == Head(tx)
  <1>1. /\ UNCHANGED <<rx, got, seen, waiting, pc, cmd>>
        /\ hand = NoReply /\ tx # <<>> /\ tx' = Tail(tx) /\ tx \in Seq(Command)
    BY DEF TypeInv, TypeOK, ApmExecute, apVars
  <1>2. /\ Len(tx) \in Nat \ {0} /\ Len(tx') = Len(tx) - 1 /\ e = tx[1]
        /\ \A i \in 1 .. Len(tx) - 1 : tx'[i] = tx[i + 1]
        /\ (tx' = <<>> <=> Len(tx) = 1)
        /\ e \in Command /\ 1 \in 1 .. Len(tx)
    <2>1. /\ Len(tx) \in Nat \ {0} /\ Len(tx') = Len(tx) - 1 /\ e = tx[1]
          /\ tx' \in Seq(Command)
      BY <1>1
    <2>2. \A i \in 1 .. Len(tx) - 1 : tx'[i] = tx[i + 1]
      BY <1>1
    <2>3. tx' = <<>> <=> Len(tx) = 1
      BY <2>1, EmptySeq
    <2>4. e \in Command /\ 1 \in 1 .. Len(tx)
      BY <1>1, <2>1
    <2> QED
      BY <2>1, <2>2, <2>3, <2>4
  <1>3. PICK rc \in {"ok", "fault"} :
          /\ pmic' = IF rc = "ok" /\ e.cmd.func = "write"
                       THEN [pmic EXCEPT ![e.cmd.reg] = e.cmd.val] ELSE pmic
          /\ hand' = [seq |-> e.seq, age |-> e.age, rc |-> rc,
                      val |-> IF e.cmd.func = "write" THEN e.cmd.val
                                                      ELSE pmic[e.cmd.reg]]
    BY DEF ApmExecute
  <1>4. hand' # NoReply
    BY <1>2, <1>3 DEF Command, NoReply
  <1>5. Own = {}
    BY <1>1, InOwn DEF Channel, NewestLast, NothingBehind
  <1>6. Own' = IF e.age = 0 THEN {hand'} ELSE {}
    BY <1>1, <1>3, <1>4, <1>5 DEF Own
  <1>7. waiting => (Len(tx) = 1 <=> e.age = 0)
    <2>1. e.age = 0 => Len(tx) = 1
      BY <1>2 DEF Channel, NewestLast
    <2>2. waiting => tx[Len(tx)].age = 0
      BY <1>1 DEF OwnKept
    <2> QED
      BY <1>2, <2>1, <2>2
  <1>8. OwnKept'
    <2>1. waiting /\ tx' # <<>> => tx'[Len(tx')].age = 0
      BY <1>1, <1>2 DEF OwnKept
    <2>2. waiting /\ tx' = <<>> => Own' # {}
      BY <1>2, <1>6, <1>7
    <2> QED
      BY <1>1, <2>1, <2>2 DEF OwnKept
  <1>9. Queue # <<>> /\ Queue' = Tail(Queue) /\ Head(Queue) = e.cmd
        /\ Len(Queue) = Len(tx)
    <2>1. /\ Queue \in Seq(Cmd) /\ Len(Queue) = Len(tx)
          /\ \A i \in 1 .. Len(tx) : Queue[i] = tx[i].cmd
      BY QueueIs
    <2>2. Queue # <<>> /\ Head(Queue) = e.cmd
      BY <1>2, <2>1
    <2>3. /\ Tail(Queue) \in Seq(Cmd) /\ Len(Tail(Queue)) = Len(tx) - 1
          /\ \A i \in 1 .. Len(tx) - 1 : Tail(Queue)[i] = tx[i + 1].cmd
      BY <1>2, <2>1, <2>2, HeadTailProperties
    <2>4. /\ Queue' \in Seq(Cmd) /\ Len(Queue') = Len(tx) - 1
          /\ \A i \in 1 .. Len(tx) - 1 : Queue'[i] = tx[i + 1].cmd
      <3>1. Queue' = [i \in 1 .. Len(tx) - 1 |-> tx[i + 1].cmd]
        BY <1>1, <1>2 DEF Queue
      <3>2. \A i \in 1 .. Len(tx) - 1 : tx[i + 1].cmd \in Cmd
        BY <1>2, <2>1
      <3> QED
        BY <1>2, <3>1, <3>2
    <2>5. Queue' = Tail(Queue)
      BY <1>2, <2>3, <2>4, SeqEqual
    <2> QED
      BY <2>1, <2>2, <2>5
  <1>10. (\E c \in Callers : Stage[c] = "live") <=> waiting
    BY DEF TypeInv, Placed, Out, Stage
  <1>11. Stage' = Stage
    BY <1>1 DEF Stage
  <1>12. Result' = IF Len(Queue) = 1 /\ \E c \in Callers : Stage[c] = "live"
                     THEN [rc |-> rc, val |-> IF e.cmd.func = "write"
                                                THEN e.cmd.val ELSE pmic[e.cmd.reg]]
                     ELSE Result
    BY <1>1, <1>3, <1>5, <1>6, <1>7, <1>9, <1>10 DEF Result
  <1> QED
    BY <1>1, <1>3, <1>8, <1>9, <1>11, <1>12
    DEF Service!Perform, Queue, Stage, Result

LEMMA RaiseStep ==
    ASSUME TypeInv, OwnKept, ApmRaise
    PROVE  OwnKept' /\ UNCHANGED Outside
  <1>1. UNCHANGED <<tx, rx, hand, got, seen, waiting, pc, pmic, cmd>>
    BY DEF ApmRaise, apVars
  <1>2. Own' = Own
    BY <1>1 DEF Own
  <1> QED
    BY <1>1, <1>2, Unseen DEF OwnKept, Queue

\* Each step of the mailbox is one of the service, or none.
LEMMA NextStep ==
    ASSUME InOrder, TypeInv, Channel, OwnKept, [Next]_vars
    PROVE  OwnKept' /\ [Service!ServiceNext]_Outside
  <1>1. CASE UNCHANGED vars
    <2>1. UNCHANGED <<tx, rx, hand, got, seen, waiting, pc, pmic, cmd>>
      BY <1>1 DEF vars
    <2>2. Own' = Own
      BY <2>1 DEF Own
    <2> QED
      BY <2>1, <2>2, Unseen DEF OwnKept, Queue
  <1>2. ASSUME NEW c \in Callers, NEW k \in Cmd, Call(c, k)
        PROVE  OwnKept' /\ Service!ServiceNext
    <2>1. k \in Service!Cmd
      BY DEF Service!Cmd, Cmd
    <2> QED
      BY <1>2, <2>1, CallStep DEF Service!ServiceNext
  <1>3. ASSUME NEW c \in Callers, Step(c)
        PROVE  OwnKept' /\ (Service!ServiceNext \/ UNCHANGED Outside)
    <2>1. CASE Send(c)
      BY <2>1, SendStep DEF Service!ServiceNext
    <2>2. CASE Timeout(c)
      BY <2>2, TimeoutStep DEF Service!ServiceNext
    <2>3. CASE Return(c)
      BY <2>3, ReturnStep DEF Service!ServiceNext
    <2> QED
      BY <1>3, <2>1, <2>2, <2>3, PlainStep, LookStep, RearStep, AckStaleStep,
         SendBusyStep
      DEF Step
  <1>4. CASE Apm
    BY <1>4, ExecuteStep, PostStep, RaiseStep DEF Apm, Service!ServiceNext
  <1> QED
    BY <1>1, <1>2, <1>3, <1>4 DEF Next

LEMMA InitService == Init => OwnKept /\ Service!ServiceInit
<1> SUFFICES ASSUME Init PROVE OwnKept /\ Service!ServiceInit
  OBVIOUS
<1>1. OwnKept
  BY DEF Init, OwnKept
<1>2. /\ Queue = <<>> /\ Stage = [c \in Callers |-> "idle"]
      /\ Result = [rc |-> "none", val |-> 0]
  BY DEF Init, Queue, Stage, Result
<1> QED
  BY <1>1, <1>2
  DEF Init, Service!ServiceInit, Service!NoCmd, Service!NoAnswer, NoCmd, Queue,
      Stage, Result

\* While the APM is not a whole round of sequence numbers behind, what the
\* callers of s9p_acpm_pmic_{read,write,update} see is the PMIC service, which
\* the clock drivers are verified on: commands take effect in their order, and
\* an answer means that everything before it did.
THEOREM ImplementsService == ASSUME InOrder PROVE Spec => ServiceImplemented
<1>1. Init => OwnKept /\ Service!ServiceInit
  BY InitService
<1>2. TypeInv /\ Channel /\ OwnKept /\ [Next]_vars =>
        OwnKept' /\ [Service!ServiceNext]_Outside
  BY NextStep
<1>3. UNCHANGED Outside => UNCHANGED Service!svcVars
  BY DEF Outside, Service!svcVars, Queue, Stage, Result
<1>4. [Service!ServiceNext]_Outside => [Service!ServiceNext]_(Service!svcVars)
  BY <1>3
<1> QED
  BY <1>1, <1>2, <1>4, ChannelAlways, PTL
  DEF Spec, ServiceImplemented, Service!ServiceSpec
=============================================================================
