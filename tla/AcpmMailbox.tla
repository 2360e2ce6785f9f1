---------------------------- MODULE AcpmMailbox ----------------------------
(***************************************************************************)
(* s9p-acpm.c: the mailbox through which the kernel reaches the PMIC.      *)
(*                                                                         *)
(* A caller of s9p_acpm_pmic_{read,write,update} takes s9p_acpm_lock, and  *)
(* in up to Retries attempts drains the reply ring, numbers the command,   *)
(* puts it in the command ring and polls for the reply that carries its    *)
(* number.  The APM, a processor of its own, takes commands in order,      *)
(* performs them on the PMIC and posts one reply each.  An attempt may     *)
(* time out at any moment while its command, or its reply, is still in the *)
(* channel: what comes of it then is what this module is about.            *)
(*                                                                         *)
(* A ring of q_len slots, with front = rear meaning empty, is a sequence   *)
(* of at most QLen - 1 entries; only the producer appends and only the     *)
(* consumer drops, so a pair of index reads is a snapshot of the length.   *)
(* `age' is no field of the code: it counts the sequence numbers issued    *)
(* after an entry's own, up to SeqMod, and tells the reply of this attempt *)
(* (age 0) from an older one with the same number.                         *)
(***************************************************************************)
EXTENDS Integers, Sequences

CONSTANTS
    Callers,    \* the kernel threads that use the PMIC
    Regs,       \* the PMIC registers
    Vals,       \* the values of a register
    QLen,       \* q_len, the slots of each ring
    SeqMod,     \* how many sequence numbers there are (63)
    Retries,    \* XFER_RETRIES
    MaxLag,     \* the AP gives up an attempt only while no entry is older
    Timely      \* TRUE: the APM always answers within REPLY_TIMEOUT_MS

ASSUME MailboxAssumption ==
    /\ Vals \subseteq Nat /\ 0 \in Vals
    /\ QLen \in Nat /\ QLen >= 2            \* s9p_acpm_init refuses less
    /\ SeqMod \in Nat /\ SeqMod >= 2
    /\ Retries \in Nat \ {0}
    /\ MaxLag \in 1..SeqMod                 \* SeqMod: no assumption on the lag
    /\ Timely \in BOOLEAN

VARIABLES
    mbox,       \* the mailbox is mapped: s9p_acpm_init succeeded
    tx,         \* command ring, oldest first
    rx,         \* reply ring, oldest first
    irq,        \* the channel's bit of INTSR1
    seq,        \* the last sequence number used
    ready,      \* acpm_ready
    pc, cmd,    \* of each caller: where it is, and its command
    retry, waiting, seen, got,  \* locals of the caller that holds the lock
    hand,       \* the APM: the reply it is about to post,
    ringing,    \* and whether it has yet to raise the interrupt for the last
    pmic        \* the PMIC's registers

apVars == <<seq, ready, pc, cmd, retry, waiting, seen, got>>
apmVars == <<hand, ringing, pmic>>
vars == <<mbox, tx, rx, irq, seq, ready, pc, cmd, retry, waiting, seen, got,
          hand, ringing, pmic>>

\* A read carries the value 0; an update is a write of the masked field.
NoCmd == [func |-> "none"]
Cmd == [func : {"write"}, reg : Regs, val : Vals]
         \union [func : {"read"}, reg : Regs, val : {0}]
Command == [seq : 1..SeqMod, age : 0..SeqMod, cmd : Cmd]
Reply == [seq : 0..SeqMod, age : 0..SeqMod, rc : {"ok", "fault"}, val : Vals]
\* Number 0 is used by no command: it marks the absence of a reply.
NoReply == [seq |-> 0, age |-> 0, rc |-> "ok", val |-> 0]
Stages == {"idle", "lock", "look", "rear", "ack", "send", "poll", "done"}

\* Types and bounds: neither ring ever holds more than its q_len - 1 entries,
\* and the walk over the replies stays within the ring.
TypeOK ==
    /\ mbox \in BOOLEAN /\ irq \in BOOLEAN /\ ready \in BOOLEAN
    /\ tx \in Seq(Command) /\ Len(tx) <= QLen - 1
    /\ rx \in Seq(Reply) /\ Len(rx) <= QLen - 1
    /\ seq \in 1..SeqMod
    /\ pc \in [Callers -> Stages]
    /\ cmd \in [Callers -> Cmd \union {NoCmd}]
    /\ retry \in 0..Retries
    /\ waiting \in BOOLEAN
    /\ seen \in 0..Len(rx)
    /\ got \in Reply /\ hand \in Reply
    /\ ringing \in BOOLEAN
    /\ pmic \in [Regs -> Vals]

Init ==
    /\ mbox \in BOOLEAN
    /\ tx = <<>> /\ rx = <<>> /\ irq = FALSE
    /\ seq = 1 /\ ready = FALSE
    /\ pc = [c \in Callers |-> "idle"]
    /\ cmd = [c \in Callers |-> NoCmd]
    /\ retry = 0 /\ waiting = FALSE /\ seen = 0 /\ got = NoReply
    /\ hand = NoReply /\ ringing = FALSE
    /\ pmic \in [Regs -> Vals]

-----------------------------------------------------------------------------
(* Sequence numbers *)

NextSeq == (seq % SeqMod) + 1

Older(e) == [e EXCEPT !.age = IF @ < SeqMod THEN @ + 1 ELSE SeqMod]
AllOlder(s) == [i \in DOMAIN s |-> Older(s[i])]

\* Numbering an attempt makes everything in the channel one number older.
Number ==
    /\ seq' = NextSeq
    /\ tx' = AllOlder(tx)
    /\ rx' = AllOlder(rx)
    /\ hand' = IF hand = NoReply THEN hand ELSE Older(hand)

-----------------------------------------------------------------------------
(* The callers *)

Goto(c, stage) == pc' = [pc EXCEPT ![c] = stage]

Call(c, k) ==
    /\ pc[c] = "idle"
    /\ mbox                         \* otherwise -ENODEV, and nothing happens
    /\ Goto(c, "lock")
    /\ cmd' = [cmd EXCEPT ![c] = k]
    /\ UNCHANGED <<mbox, tx, rx, irq, seq, ready, retry, waiting, seen, got, apmVars>>

Lock(c) ==
    /\ pc[c] = "lock"
    /\ \A d \in Callers : pc[d] \in {"idle", "lock"}
    /\ Goto(c, "look")
    /\ retry' = 0 /\ waiting' = FALSE
    /\ UNCHANGED <<mbox, tx, rx, irq, seq, ready, cmd, seen, got, apmVars>>

\* (mutant) Any reply in the ring is taken for the one waited for.
MatchingAny == 1..Len(rx)

\* s9p_consume_rx reads the indices and walks the entries between them; while
\* waiting it keeps the last one that carries the attempt's number.
Matching == {i \in 1..Len(rx) : rx[i].seq = seq}

Look(c) ==
    /\ pc[c] = "look"
    /\ seen' = Len(rx)
    /\ \/ \E i \in Matching : /\ waiting
                              /\ \A j \in Matching : j <= i
                              /\ got' = rx[i]
       \/ /\ ~waiting \/ Matching = {}
          /\ got' = got
    /\ Goto(c, "rear")
    /\ UNCHANGED <<mbox, tx, rx, irq, seq, ready, cmd, retry, waiting, apmVars>>

\* (mutant) The rear index is moved to the front as it is by then.
RearRereadsFront(c) ==
    /\ pc[c] = "rear"
    /\ rx' = <<>>
    /\ seen' = 0
    /\ Goto(c, "ack")
    /\ UNCHANGED <<mbox, tx, irq, seq, ready, cmd, retry, waiting, got, apmVars>>

\* ... moves the rear index to the front it has read ...
Rear(c) ==
    /\ pc[c] = "rear"
    /\ rx' = SubSeq(rx, seen + 1, Len(rx))
    /\ seen' = 0
    /\ Goto(c, "ack")
    /\ UNCHANGED <<mbox, tx, irq, seq, ready, cmd, retry, waiting, got, apmVars>>

\* ... and clears the interrupt, whatever arrived in between.  An attempt has
\* its number once the stale replies are gone.
AckStale(c) ==
    /\ pc[c] = "ack" /\ ~waiting
    /\ irq' = FALSE
    /\ Number
    /\ Goto(c, "send")
    /\ UNCHANGED <<mbox, ready, cmd, retry, waiting, seen, got, ringing, pmic>>

AckReply(c) ==
    /\ pc[c] = "ack" /\ waiting
    /\ irq' = FALSE
    /\ Goto(c, IF got # NoReply THEN "done" ELSE "poll")
    /\ UNCHANGED <<mbox, tx, rx, seq, ready, cmd, retry, waiting, seen, got, apmVars>>

\* (mutant) The command ring is taken for full one entry too late.
SendOffByOne(c) ==
    /\ pc[c] = "send"
    /\ Len(tx) < QLen
    /\ tx' = Append(tx, [seq |-> seq, age |-> 0, cmd |-> cmd[c]])
    /\ waiting' = TRUE
    /\ Goto(c, "poll")
    /\ UNCHANGED <<mbox, rx, irq, seq, ready, cmd, retry, seen, got, apmVars>>

Send(c) ==
    /\ pc[c] = "send"
    /\ Len(tx) < QLen - 1
    /\ tx' = Append(tx, [seq |-> seq, age |-> 0, cmd |-> cmd[c]])
    /\ waiting' = TRUE
    /\ Goto(c, "poll")
    /\ UNCHANGED <<mbox, rx, irq, seq, ready, cmd, retry, seen, got, apmVars>>

\* s9p_receive sleeps while there is neither an interrupt nor an entry.
Poll(c) ==
    /\ pc[c] = "poll"
    /\ irq \/ rx # <<>>
    /\ Goto(c, "look")
    /\ UNCHANGED <<mbox, tx, rx, irq, seq, ready, cmd, retry, waiting, seen, got, apmVars>>

\* The environment's part in a time-out: nothing in the channel is MaxLag
\* numbers old yet.  With MaxLag = SeqMod the APM may be as slow as it likes.
MayGiveUp ==
    /\ ~Timely
    /\ MaxLag < SeqMod =>
         /\ \A i \in DOMAIN tx : tx[i].age < MaxLag
         /\ \A i \in DOMAIN rx : rx[i].age < MaxLag
         /\ hand.age < MaxLag

\* The next attempt, or the end of the loop over the retries.
EndAttempt(c) ==
    /\ retry' = retry + 1
    /\ waiting' = FALSE
    /\ Goto(c, IF retry + 1 < Retries THEN "look" ELSE "done")

\* The command ring stayed full for 20 ms.
SendBusy(c) ==
    /\ pc[c] = "send"
    /\ Len(tx) = QLen - 1
    /\ MayGiveUp
    /\ EndAttempt(c)
    /\ UNCHANGED <<mbox, tx, rx, irq, seq, ready, cmd, seen, got, apmVars>>

\* REPLY_TIMEOUT_MS passed: s9p_receive looks at the clock before the ring.
Timeout(c) ==
    /\ pc[c] = "poll"
    /\ MayGiveUp
    /\ EndAttempt(c)
    /\ UNCHANGED <<mbox, tx, rx, irq, seq, ready, cmd, seen, got, apmVars>>

\* The call returns got.rc, or -EBUSY or -ETIMEDOUT when there is no reply.
Return(c) ==
    /\ pc[c] = "done"
    /\ Goto(c, "idle")
    /\ ready' = (ready \/ got # NoReply)
    /\ cmd' = [cmd EXCEPT ![c] = NoCmd]
    /\ got' = NoReply
    /\ retry' = 0 /\ waiting' = FALSE
    /\ UNCHANGED <<mbox, tx, rx, irq, seq, seen, apmVars>>

-----------------------------------------------------------------------------
(* The APM firmware, as the driver relies on it *)

\* It performs the oldest command, or refuses it with a return code.
ApmExecute ==
    /\ hand = NoReply /\ ~ringing /\ tx # <<>>
    /\ tx' = Tail(tx)
    /\ LET e == Head(tx)  k == e.cmd IN
       \E rc \in {"ok", "fault"} :
         /\ pmic' = IF rc = "ok" /\ k.func = "write"
                      THEN [pmic EXCEPT ![k.reg] = k.val] ELSE pmic
         /\ hand' = [seq |-> e.seq, age |-> e.age, rc |-> rc,
                     val |-> IF k.func = "write" THEN k.val ELSE pmic[k.reg]]
    /\ UNCHANGED <<mbox, rx, irq, apVars, ringing>>

\* A full reply ring holds the APM up.
ApmPost ==
    /\ hand # NoReply /\ Len(rx) < QLen - 1
    /\ rx' = Append(rx, hand)
    /\ hand' = NoReply /\ ringing' = TRUE
    /\ UNCHANGED <<mbox, tx, irq, apVars, pmic>>

ApmRaise ==
    /\ ringing
    /\ irq' = TRUE /\ ringing' = FALSE
    /\ UNCHANGED <<mbox, tx, rx, apVars, hand, pmic>>

-----------------------------------------------------------------------------
Step(c) ==
    \/ Lock(c) \/ Look(c) \/ Rear(c) \/ AckStale(c) \/ AckReply(c) \/ Send(c)
    \/ Poll(c) \/ SendBusy(c) \/ Timeout(c) \/ Return(c)

Apm == ApmExecute \/ ApmPost \/ ApmRaise

Next ==
    \/ \E c \in Callers : Step(c) \/ \E k \in Cmd : Call(c, k)
    \/ Apm

Spec == Init /\ [][Next]_vars

\* A thread that can run does run, a contended mutex is handed over, and the
\* APM's firmware does not stop.
Fairness ==
    /\ \A c \in Callers : WF_vars(Step(c)) /\ SF_vars(Lock(c))
    /\ WF_vars(Apm)

FairSpec == Spec /\ Fairness

-----------------------------------------------------------------------------
(* Safety *)

\* The reply a call takes for its own is the reply to the attempt it is making,
\* never a late one to an earlier attempt or call: "anything in the ring that
\* is not the reply being waited for is stale" (s9p_consume_rx).
OwnReply == got # NoReply => got.age = 0

\* While a call waits, the command of its attempt, or the reply to it, is in
\* the channel: no walk over the replies drops it unseen, also when it arrives
\* between the walk and the interrupt's acknowledgement (s9p_consume_rx).
AwaitedIsThere ==
    waiting /\ got = NoReply =>
        \/ \E i \in DOMAIN tx : tx[i].age = 0
        \/ hand # NoReply /\ hand.age = 0
        \/ \E i \in DOMAIN rx :
             rx[i].age = 0 /\ ((\E c \in Callers : pc[c] = "rear") => seen < i)

(* Liveness *)

\* If the APM answers in time, every call gets its answer: a reply that slips
\* in between the walk over the ring and the acknowledgement of the interrupt
\* is found all the same.
EveryCallAnswered ==
    \A c \in Callers : pc[c] = "lock" ~> (pc[c] = "done" /\ got # NoReply)

-----------------------------------------------------------------------------
(* What the mailbox implements *)

\* The reply of the attempt the lock holder waits for, wherever it is.
Own == {r \in {hand, got} \union {rx[i] : i \in DOMAIN rx} :
          r # NoReply /\ r.age = 0}

Service == INSTANCE PmicService WITH
    Capacity <- QLen - 1,
    queue <- [i \in DOMAIN tx |-> tx[i].cmd],
    stage <- [c \in Callers |->
                CASE pc[c] = "idle" -> "idle"
                  [] pc[c] # "idle" /\ pc[c] # "lock" /\ waiting -> "live"
                  [] OTHER -> "open"],
    answer <- IF waiting /\ Own # {}
                THEN LET r == CHOOSE r \in Own : TRUE IN [rc |-> r.rc, val |-> r.val]
                ELSE [rc |-> "none", val |-> 0]

\* Seen by its callers the driver is the PMIC service: first in, first
\* performed, and an answer only after everything before it was performed.
ServiceImplemented == Service!ServiceSpec
=============================================================================
