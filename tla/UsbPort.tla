------------------------------- MODULE UsbPort ------------------------------
(***************************************************************************)
(* What follows a plug: s9p-max77705-muic.c, which polls for VBUS and has  *)
(* the chip's MCU route D+/D- to the AP, and max77705_charger.c, which     *)
(* lowers its input current limit until the source can bear it (AICL) and  *)
(* tells userspace that power came or went.                                *)
(*                                                                         *)
(* Both drivers are on one chip and see one VBUS.  The cable, the source,  *)
(* the MCU, the regmap interrupt thread and the power supply core are      *)
(* external.  An input current limit is its register code; the codes up to *)
(* Low all mean the lowest current.                                        *)
(*                                                                         *)
(* What the chip latches is read, and so cleared, as a whole: the charger  *)
(* driver asks for CHGIN before AICL and lets go of AICL before CHGIN, and *)
(* what its thread reads in between of an interrupt that is still masked,  *)
(* or is masked again, is gone.  A history variable, which no action reads *)
(* but to keep it, says so.                                                *)
(***************************************************************************)
EXTENDS Naturals

CONSTANTS
    Low, Top,       \* the highest code of the lowest current, the highest code
    MinSource,      \* no source gives less than this code's current
    MaxWrites,      \* bound: how often userspace sets the limit
    FastReplug      \* a plug may come back between two polls

ASSUME PortAssumption ==
    /\ {Low, Top, MinSource, MaxWrites} \subseteq Nat /\ Low < Top
    /\ FastReplug \in BOOLEAN

Codes == 0 .. Top

VARIABLES
    vbus,       \* BC_STATUS_VBUSDET and CHGIN_OK: a source is plugged in
    source,     \* ... and the most it gives
    com,        \* the MCU's D+/D- switches: "usb" or "open"
    muic,       \* "unbound", "probe", "idle", "set", or "stopped"
    last,       \* last_bc: VBUS, as the MUIC driver saw it last
    refused,    \* the last setting of the switches failed, or was not obeyed
    chg,        \* the charger: how far its probe, or its removal, is
    limit,      \* MAX77705_CHG_CHGIN_LIM
    latched,    \* MAX77705_CHG_REG_INT: "chgin", "aicl"
    thread,     \* the interrupt's thread: "idle", "check", "read", or "write"
    regval,     \* the limit that it read, until it has written
    gave_up,    \* it stopped lowering the limit because the bus failed
    dropped,    \* history: the last AICL_I it read was masked
    work,       \* chgin_work is queued
    online,     \* what userspace read last of POWER_SUPPLY_PROP_ONLINE
    writes

plug == <<vbus, source>>
muicVars == <<com, muic, last, refused>>
aicl == <<thread, regval, gave_up, dropped>>
chgVars == <<chg, limit, latched, aicl, work, online, writes>>
portVars == <<vbus, source, com, muic, last, refused, chg, limit, latched,
              thread, regval, gave_up, dropped, work, online, writes>>

\* "init" has set up the chip, "chgin" has the one interrupt, "requested" both,
\* and "leaving" no longer, or never had, AICL's.
Charger == {"unbound", "registered", "init", "chgin", "requested", "bound",
            "leaving"}

PortTypeOK ==
    /\ vbus \in BOOLEAN /\ last \in BOOLEAN /\ refused \in BOOLEAN
    /\ gave_up \in BOOLEAN /\ dropped \in BOOLEAN
    /\ work \in BOOLEAN /\ online \in BOOLEAN
    /\ source \in MinSource .. Top
    /\ com \in {"usb", "open"}
    /\ muic \in {"unbound", "probe", "idle", "set", "stopped"}
    /\ chg \in Charger
    /\ limit \in Codes /\ regval \in Codes
    /\ latched \subseteq {"chgin", "aicl"}
    /\ thread \in {"idle", "check", "read", "write"}
    /\ writes \in 0 .. MaxWrites
    /\ chg \notin {"requested", "bound"} => thread = "idle"
    /\ chg \in {"unbound", "registered", "init"} => ~work
    /\ thread # "write" => regval = 0

\* The source cannot bear the limit: AICL_I of MAX77705_CHG_REG_INT_OK is
\* clear.
Overdrawn(v, s, l) == v /\ s < (IF l > Low THEN l ELSE Low)

\* TWRP's reset of the chip left the switches open, and latched what followed.
PortInit ==
    /\ vbus \in BOOLEAN /\ source \in MinSource .. Top
    /\ com = "open" /\ muic = "unbound" /\ last = FALSE /\ refused = FALSE
    /\ chg = "unbound" /\ limit \in Low .. Top
    /\ latched = (IF vbus THEN {"chgin"} ELSE {})
         \cup (IF Overdrawn(vbus, source, limit) THEN {"aicl"} ELSE {})
    /\ thread = "idle" /\ regval = 0 /\ gave_up = FALSE /\ dropped = FALSE
    /\ work = FALSE /\ online = FALSE /\ writes = 0

-----------------------------------------------------------------------------

\* The chip latches AICL_I when that begins and when it ends, CHGIN_I when a
\* plug comes or goes.
Latch(v, s, l) ==
    latched' = latched
        \cup (IF v # vbus THEN {"chgin"} ELSE {})
        \cup (IF Overdrawn(v, s, l) # Overdrawn(vbus, source, limit)
                THEN {"aicl"} ELSE {})

\* "VBUS came back: the MCU may have dropped the switch setting".
Attach ==
    /\ ~vbus
    /\ FastReplug \/ muic \in {"unbound", "stopped"} \/ (~last /\ muic # "set")
    /\ vbus' = TRUE /\ source' \in MinSource .. Top
    /\ com' \in {com, "open"}
    /\ Latch(TRUE, source', limit)
    /\ UNCHANGED <<muic, last, refused, chg, limit, aicl, work, online, writes>>

Detach ==
    /\ vbus
    /\ vbus' = FALSE
    /\ Latch(FALSE, source, limit)
    /\ UNCHANGED <<source, muicVars, chg, limit, aicl, work, online, writes>>

\* The source turns out stronger, or weaker.
SourceChanges ==
    /\ vbus
    /\ source' \in (MinSource .. Top) \ {source}
    /\ Latch(vbus, source', limit)
    /\ UNCHANGED <<vbus, muicVars, chg, limit, aicl, work, online, writes>>

-----------------------------------------------------------------------------
\* muic_set_path: the bus may fail, and what the MCU answers is only logged.
SetPath ==
    \/ com' = "usb" /\ refused' = FALSE
    \/ refused' = TRUE /\ UNCHANGED com

\* s9p_muic_probe: a status that cannot be read is no VBUS.
MuicProbe ==
    /\ muic = "unbound"
    /\ last' \in {vbus, FALSE}
    /\ muic' = "probe"
    /\ UNCHANGED <<plug, com, refused, chgVars>>

\* (mutant) The switches are left to the first poll.
MuicProbedPollOnly ==
    /\ muic = "probe"
    /\ muic' \in {"idle", "stopped"}
    /\ UNCHANGED <<plug, com, last, refused, chgVars>>

MuicProbed ==
    /\ muic = "probe"
    /\ SetPath
    /\ muic' \in {"idle", "stopped"}
    /\ UNCHANGED <<plug, last, chgVars>>

\* The work arms itself again, unless poll_ms has been set to 0.
Rearm == muic' \in {"idle", "stopped"}

\* muic_poll: nothing changed, the status cannot be read, or VBUS is gone.
MuicPollSame ==
    /\ muic = "idle"
    /\ last' \in {last, vbus} /\ (last' => last)
    /\ Rearm
    /\ UNCHANGED <<plug, com, refused, chgVars>>

\* VBUS is back.
MuicPollEdge ==
    /\ muic = "idle" /\ vbus /\ ~last
    /\ muic' = "set"
    /\ UNCHANGED <<plug, com, last, refused, chgVars>>

\* The new status is stored, whether the switches were set or not.
MuicPollSet ==
    /\ muic = "set"
    /\ SetPath
    /\ last' = TRUE
    /\ Rearm
    /\ UNCHANGED <<plug, chgVars>>

\* s9p_muic_remove waits for the poll.
MuicRemove ==
    /\ muic \in {"idle", "stopped"}
    /\ muic' = "unbound"
    /\ UNCHANGED <<plug, com, last, refused, chgVars>>

-----------------------------------------------------------------------------
\* max77705_charger_probe: the power supply is there before the chip is set up.
ChargerRegister ==
    /\ chg = "unbound"
    /\ chg' = "registered"
    /\ UNCHANGED <<plug, muicVars, limit, latched, aicl, work, online, writes>>

\* max77705_charger_initialize, or what comes before it, works or not; the
\* limit is not touched.
ChargerInitialize ==
    /\ chg = "registered"
    /\ chg' \in {"init", "unbound"}
    /\ UNCHANGED <<plug, muicVars, limit, latched, aicl, work, online, writes>>

\* CHGIN's interrupt is requested, or is not to be had.
RequestChgin ==
    /\ chg = "init"
    /\ chg' \in {"chgin", "unbound"}
    /\ UNCHANGED <<plug, muicVars, limit, latched, aicl, work, online, writes>>

\* AICL's interrupt is requested; if it is not to be had, CHGIN's is freed.
RequestAicl ==
    /\ chg = "chgin"
    /\ chg' \in {"requested", "leaving"}
    /\ UNCHANGED <<plug, muicVars, limit, latched, aicl, work, online, writes>>

\* (mutant) Userspace is only told when an interrupt comes.
ChargerBindQuiet ==
    /\ chg = "requested"
    /\ chg' = "bound"
    /\ UNCHANGED <<plug, muicVars, limit, latched, aicl, work, online, writes>>

\* Charging is enabled; the power supply core's first uevent has waited for the
\* end of the probe.
ChargerBind ==
    /\ chg = "requested"
    /\ chg' = "bound"
    /\ work' = TRUE
    /\ UNCHANGED <<plug, muicVars, limit, latched, aicl, online, writes>>

\* (mutant) AICL's interrupt is freed under its thread.
FreeAiclNow ==
    /\ chg \in {"requested", "bound"}
    /\ chg' = "leaving"
    /\ UNCHANGED <<plug, muicVars, limit, latched, aicl, work, online, writes>>

\* Charging could not be enabled, or the driver is unbound: AICL's interrupt is
\* freed first, after its thread.
FreeAicl ==
    /\ chg \in {"requested", "bound"} /\ thread = "idle"
    /\ chg' = "leaving"
    /\ UNCHANGED <<plug, muicVars, limit, latched, aicl, work, online, writes>>

\* Then CHGIN's is, and the work is cancelled.
ChargerUnbind ==
    /\ chg = "leaving"
    /\ chg' = "unbound" /\ work' = FALSE
    /\ UNCHANGED <<plug, muicVars, limit, latched, aicl, online, writes>>

\* max77705_set_property of the limit, as s9p-touch-power does.
LimitSet(code) ==
    /\ chg # "unbound"
    /\ code \in Low .. Top /\ code # limit
    /\ writes < MaxWrites /\ writes' = writes + 1
    /\ limit' = code
    /\ Latch(vbus, source, code)
    /\ UNCHANGED <<plug, muicVars, chg, aicl, work, online>>

-----------------------------------------------------------------------------
\* The interrupts that are not masked.
Unmasked ==
    CASE chg \in {"requested", "bound"} -> {"chgin", "aicl"}
      [] chg \in {"chgin", "leaving"} -> {"chgin"}
      [] OTHER -> {}

\* AICL_I is lost if it is read while it is masked.
Dropped ==
    dropped' = IF "aicl" \in latched THEN "aicl" \notin Unmasked ELSE dropped

\* (mutant) Only one handler is run for an interrupt.
ThreadRunOne ==
    LET served == latched \cap Unmasked
    IN  /\ thread = "idle" /\ served # {}
        /\ latched' = {} /\ Dropped
        /\ work' = (work \/ "aicl" \notin served)
        /\ thread' = IF "aicl" \in served THEN "check" ELSE "idle"
        /\ gave_up' = (gave_up /\ "aicl" \notin served)
        /\ UNCHANGED <<plug, muicVars, chg, limit, regval, online, writes>>

\* The regmap interrupt thread reads what is latched, which clears it, and of
\* what is not masked it runs max77705_chgin_irq, then max77705_aicl_irq.
ThreadRun ==
    LET served == latched \cap Unmasked
    IN  /\ thread = "idle" /\ served # {}
        /\ latched' = {} /\ Dropped
        /\ work' = (work \/ "chgin" \in served)
        /\ thread' = IF "aicl" \in served THEN "check" ELSE "idle"
        /\ gave_up' = (gave_up /\ "aicl" \notin served)
        /\ UNCHANGED <<plug, muicVars, chg, limit, regval, online, writes>>

\* max77705_aicl_irq: the end of an overload calls it too.
AiclCheck ==
    /\ thread = "check"
    /\ thread' = IF Overdrawn(vbus, source, limit) THEN "read" ELSE "idle"
    /\ UNCHANGED <<plug, muicVars, chg, limit, latched, regval, gave_up,
                   dropped, work, online, writes>>

AiclRead ==
    /\ thread = "read"
    /\ regval' = limit
    /\ thread' = "write"
    /\ UNCHANGED <<plug, muicVars, chg, limit, latched, gave_up, dropped, work,
                   online, writes>>

\* regval--, in a field as wide as Codes.
OneLess(code) == IF code = 0 THEN Top ELSE code - 1

\* (mutant) The limit is lowered once for an interrupt.
AiclWriteOnce ==
    /\ thread = "write"
    /\ limit' = OneLess(regval) /\ regval' = 0
    /\ Latch(vbus, source, limit')
    /\ thread' = "idle"
    /\ UNCHANGED <<plug, muicVars, chg, gave_up, dropped, work, online, writes>>

\* The lower limit is written, and after a pause it checks again.
AiclWrite ==
    /\ thread = "write"
    /\ limit' = OneLess(regval) /\ regval' = 0
    /\ Latch(vbus, source, limit')
    /\ thread' = "check"
    /\ UNCHANGED <<plug, muicVars, chg, gave_up, dropped, work, online, writes>>

\* One of its accesses fails, and it returns.
AiclFails ==
    /\ thread # "idle"
    /\ thread' = "idle" /\ regval' = 0 /\ gave_up' = TRUE
    /\ UNCHANGED <<plug, muicVars, chg, limit, latched, dropped, work, online,
                   writes>>

\* max77705_chgin_isr_work: a uevent, for which ONLINE is read.
ChginWork ==
    /\ work
    /\ work' = FALSE /\ online' = vbus
    /\ UNCHANGED <<plug, muicVars, chg, limit, latched, aicl, writes>>

-----------------------------------------------------------------------------
MuicStep ==
    \/ MuicProbe \/ MuicProbed \/ MuicPollSame \/ MuicPollEdge \/ MuicPollSet

Thread == ThreadRun \/ AiclCheck \/ AiclRead \/ AiclWrite

PortNext ==
    \/ Attach \/ Detach \/ SourceChanges
    \/ MuicStep \/ MuicRemove
    \/ ChargerRegister \/ ChargerInitialize \/ RequestChgin \/ RequestAicl
    \/ ChargerBind \/ FreeAicl \/ ChargerUnbind
    \/ \E code \in Codes : LimitSet(code)
    \/ Thread \/ AiclFails \/ ChginWork

PortSpec == PortInit /\ [][PortNext]_portVars

\* The poll's work and the charger's are run, and so is the interrupt's thread;
\* a poll's reading of the status works in the end.
PortFairSpec ==
    /\ PortSpec
    /\ WF_portVars(MuicPollEdge \/ MuicPollSet) /\ WF_portVars(MuicProbed)
    /\ SF_portVars(MuicPollSame /\ last' # last)
    /\ WF_portVars(Thread) /\ WF_portVars(ChginWork)

-----------------------------------------------------------------------------
\* A plug that came or went and that userspace has not been told of is latched,
\* or its work is queued.
PowerNoticed ==
    chg = "bound" /\ online # vbus => work \/ "chgin" \in latched

\* A source that cannot bear the limit is being dealt with, or is latched,
\* unless the bus failed or the charger's thread read AICL_I while only CHGIN's
\* interrupt was requested; what nobody has read survives the driver.
OverloadNoticed ==
    Overdrawn(vbus, source, limit) /\ ~gave_up /\ ~dropped =>
        thread # "idle" \/ "aicl" \in latched

\* A poll that takes the cable for settled is right about the switches, unless
\* the plug came back faster than it polls.
SwitchesKnown ==
    ~FastReplug /\ muic = "idle" /\ last => com = "usb" \/ refused

\* The limit is lowered to one code below the lowest current at most, also when
\* it is set between the check and the write, and so never wraps to the highest.
LimitNotWrapped ==
    0 < Low /\ Low <= MinSource => Low <= limit + 1

\* Nothing that happens at the port is missed by the driver it concerns
\* (muic_poll, max77705_chgin_irq, max77705_aicl_irq).
NothingMissed ==
    PowerNoticed /\ OverloadNoticed /\ SwitchesKnown /\ LimitNotWrapped

\* "it routes D+/D- to the AP, and repeats that whenever VBUS reappears": a
\* plug that stays is seen by the host in the end, however the cable was pulled
\* and put back before, if the chip obeys and the poll was not stopped.
HostIsConnected ==
    <>[](vbus /\ muic \notin {"unbound", "stopped"} /\ ~refused)
        => <>[](com = "usb")

\* The input current limit comes down to what the source bears, although it is
\* read and written back while userspace sets it and the source changes, and
\* does not pass the lowest current, below which it would wrap to the highest;
\* unless the chip's AICL_I went by while the driver had it masked.
AiclSettles ==
    \A s \in MinSource .. Top :
        <>[](vbus /\ source = s /\ chg = "bound" /\ ~gave_up /\ ~dropped)
            => <>[](~Overdrawn(vbus, source, limit))

\* Userspace knows in the end whether there is power, whatever came and went
\* while the interrupt's thread was busy lowering the limit.
OnlineIsTold ==
    \A v \in BOOLEAN :
        <>[](vbus = v /\ chg = "bound") => <>[](online = v)
=============================================================================
