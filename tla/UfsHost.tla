------------------------------- MODULE UfsHost ------------------------------
(***************************************************************************)
(* ufs-exynos9810.c and ufs-cal-9810.c: what the UFS core's hooks do to    *)
(* the controller, the PHY and the flash, from bind through link startup,  *)
(* requests, errors, suspend and resume to unbind.                         *)
(*                                                                         *)
(* The core calls the hooks in its own order and runs a link startup that  *)
(* needs all of what they set up; the calibration tables are abstracted to *)
(* which of them have been written since the PHY or the link was reset.    *)
(*                                                                         *)
(* Every access to the PHY's registers opens their APB clock and stops it  *)
(* again, in the calibration as in the dump that the interrupt makes of a  *)
(* fatal error, which nothing keeps apart.  Fatal errors are taken to come *)
(* from the power mode change to the link's going to sleep.  The UFS core, *)
(* the flash and the reboot are external.                                  *)
(***************************************************************************)
EXTENDS Naturals

CONSTANTS
    Slots,          \* the doorbell slots, of requests and of task management
    MaxFaults,      \* bound: how many operations of the hardware fail
    VccComesOn      \* VCC comes on again whenever it was cycled

ASSUME UfsAssumption == MaxFaults \in Nat /\ VccComesOn \in BOOLEAN

VARIABLES
    at,       \* where the core is
    vcc,      \* the flash's VCC
    rst_n,    \* HCI_GPIO_OUT: the flash is out of reset
    phy,      \* PMU_UFS_PHY_CTRL_EN: the PHY is out of isolation
    stop,     \* HCI_CLKSTOP_CTRL: "apb" of the PHY, "link" for the others
    flash,    \* "stale" from a previous system, "reset", "fresh", "linked"
    lanes,    \* num_rx_lanes and num_tx_lanes
    cal,      \* the calibrations in force: "link", "hs", "h8"
    nexus,    \* HCI_UTRL_NEXUS_TYPE and HCI_UTMRL_NEXUS_TYPE
    busy,     \* the slots rung, and whether each is of a nexus
    queuing,  \* the slots being queued, under the core's outstanding_lock,
    type,     \* ... and the nexus types that were read for each
    acc,      \* an access to the PHY: "out", "read", "open", "done"
    saved,    \* what it read of HCI_CLKSTOP_CTRL
    isr,      \* a fatal error: "idle", "dump", or "handled"
    faults    \* what has failed

power == <<vcc, rst_n, phy, flash>>
requests == <<nexus, busy, queuing, type>>
pma == <<acc, saved>>
vars == <<at, vcc, rst_n, phy, flash, stop, lanes, cal, nexus, busy, queuing,
          type, acc, saved, isr, faults>>

Actors == {"core", "isr"}

\* Where the core is in a calibration or a dump of its own.
InPma == {"cal_link", "link_fail", "pmc", "post_pmc", "h8_enter", "h8_exit",
          "exit"}

Places == InPma \cup
    {"unbound", "device_reset", "enable", "pre_link", "startup", "active",
     "suspend", "clocks_off", "suspended", "resume", "h8_failed", "broken",
     "panicked"}

TypeOK ==
    /\ at \in Places
    /\ {vcc, rst_n, phy} \subseteq BOOLEAN
    /\ stop \subseteq {"apb", "link"}
    /\ flash \in {"stale", "reset", "fresh", "linked"}
    /\ lanes \in 0 .. 2
    /\ cal \subseteq {"link", "hs", "h8"}
    /\ faults \in 0 .. MaxFaults
    /\ nexus \subseteq Slots /\ queuing \subseteq Slots
    /\ type \in [Slots -> SUBSET Slots]
    /\ busy \in [Slots -> {"free", "nexus", "other"}]
    /\ acc \in [Actors -> {"out", "read", "open", "done"}]
    /\ saved \in [Actors -> SUBSET {"apb", "link"}]
    /\ isr \in {"idle", "dump", "handled"}
    /\ at # "active" => queuing = {} /\ \A s \in Slots : busy[s] = "free"

\* The previous system's link is up, its requests are over.
Init ==
    /\ at = "unbound"
    /\ vcc = TRUE /\ rst_n = TRUE /\ phy = TRUE /\ flash = "stale"
    /\ stop = {} /\ lanes = 0 /\ cal = {}
    /\ nexus = {} /\ busy = [s \in Slots |-> "free"] /\ queuing = {}
    /\ type = [s \in Slots |-> {}] /\ acc = [x \in Actors |-> "out"]
    /\ saved = [x \in Actors |-> {}] /\ isr = "idle" /\ faults = 0

\* An operation works, or fails as one of MaxFaults.
Works(ok) == IF ok THEN UNCHANGED faults
             ELSE faults < MaxFaults /\ faults' = faults + 1

-----------------------------------------------------------------------------
\* ufs_lld_pma_write and ufs_lld_pma_read, of a table or of a dump: one access
\* stands for all of them.
PmaRead(x) ==
    /\ acc[x] = "out"
    /\ IF x = "core" THEN at \in InPma ELSE isr = "dump"
    /\ acc' = [acc EXCEPT ![x] = "read"] /\ saved' = [saved EXCEPT ![x] = stop]
    /\ UNCHANGED <<at, power, stop, lanes, cal, requests, isr, faults>>

PmaOpen(x) ==
    /\ acc[x] = "read"
    /\ acc' = [acc EXCEPT ![x] = "open"]
    /\ stop' = saved[x] \ {"apb"}
    /\ UNCHANGED <<at, power, lanes, cal, requests, saved, isr, faults>>

PmaClose(x) ==
    /\ acc[x] = "open"
    /\ acc' = [acc EXCEPT ![x] = "done"]
    /\ stop' = saved[x] \cup {"apb"}
    /\ UNCHANGED <<at, power, lanes, cal, requests, saved, isr, faults>>

\* The core's accesses are over and it goes on.
PmaOver(x) ==
    /\ acc[x] = "done"
    /\ acc' = [acc EXCEPT ![x] = "out"]
    /\ UNCHANGED saved

\* A calibration writes its table for every lane there is.
Calibrate(c) == cal' = IF lanes = 0 THEN cal ELSE cal \cup {c}

-----------------------------------------------------------------------------
\* exynos_ufs_init finds no device tree node or no clock: there is a variant by
\* then, and the core's turning the clocks off again stops the link's.
BindFails ==
    /\ at = "unbound"
    /\ Works(FALSE)
    /\ stop' = stop \cup {"link"}
    /\ UNCHANGED <<at, power, lanes, cal, requests, pma, isr>>

\* exynos_ufs_init; the clocks' hook does nothing before there is a variant.
Bind ==
    /\ at = "unbound"
    /\ phy' = TRUE /\ lanes' = 0
    /\ at' = "device_reset"
    /\ UNCHANGED <<vcc, rst_n, flash, stop, cal, requests, pma, isr, faults>>

\* exynos_ufs_dev_hw_reset: RST_n low and high again.
HwReset(powered, was) ==
    /\ rst_n' = TRUE
    /\ flash' = IF was = "stale" THEN "stale"
                ELSE IF powered THEN "fresh" ELSE "reset"

\* (mutant) VCC is left on.
DeviceResetPinOnly ==
    /\ at = "device_reset"
    /\ HwReset(vcc, flash)
    /\ at' = "enable"
    /\ UNCHANGED <<vcc, phy, stop, lanes, cal, requests, pma, isr, faults>>

\* exynos_ufs_device_reset: RST_n alone does not clear what TWRP left, so VCC
\* is cycled, unless it is off; whether it comes on again is only logged.
DeviceReset ==
    /\ at = "device_reset"
    /\ vcc' \in (IF vcc THEN {TRUE, VccComesOn} ELSE {FALSE})
    /\ HwReset(vcc', IF vcc THEN "reset" ELSE flash)
    /\ at' = "enable"
    /\ UNCHANGED <<phy, stop, lanes, cal, requests, pma, isr, faults>>

\* exynos_ufs_hce_enable_notify: the host's software reset, 10 ms at most, then
\* exynos_ufs_init_host and the flash's reset.  The core goes on without them.
HostReset ==
    /\ at = "enable"
    /\ cal' = {}
    /\ \/ /\ Works(TRUE)
          /\ nexus' = Slots
          /\ HwReset(vcc, flash)
       \/ /\ Works(FALSE)
          /\ UNCHANGED <<nexus, rst_n, flash>>
    /\ at' = "pre_link"
    /\ UNCHANGED <<vcc, phy, stop, lanes, busy, queuing, type, pma, isr>>

\* exynos_ufs_link_startup_notify before the startup: the link's clocks run,
\* and the lanes are asked for until there are some.
PreLink ==
    /\ at = "pre_link"
    /\ stop' = stop \ {"link"}
    /\ \/ Works(TRUE) /\ lanes' \in (IF lanes = 0 THEN {1, 2} ELSE {lanes})
       \/ lanes = 0 /\ Works(FALSE) /\ UNCHANGED lanes
    /\ at' = "cal_link"
    /\ UNCHANGED <<power, cal, requests, pma, isr>>

\* ufs_cal_pre_link succeeds for no lanes too.
CalLink ==
    /\ at = "cal_link" /\ PmaOver("core")
    /\ Calibrate("link")
    /\ at' = "startup"
    /\ UNCHANGED <<power, stop, lanes, requests, isr, faults>>

\* What DME_LINKSTARTUP needs of the hooks.
CanStart ==
    /\ vcc /\ rst_n /\ phy /\ "link" \notin stop
    /\ flash = "fresh" /\ "link" \in cal

\* The startup, and the half of exynos_ufs_link_startup_notify after it.
Started ==
    /\ at = "startup" /\ CanStart
    /\ flash' = "linked"
    /\ at' = "pmc"
    /\ UNCHANGED <<vcc, rst_n, phy, stop, lanes, cal, requests, pma, isr,
                   faults>>

\* It fails, though it could work or not: the core enables the host again, or
\* gives up.
StartupFails ==
    /\ at = "startup"
    /\ Works(~CanStart)
    /\ at' \in {"enable", "link_fail"}
    /\ UNCHANGED <<power, stop, lanes, cal, requests, pma, isr>>

\* exynos_ufs_event_notify of UFS_EVT_LINK_STARTUP_FAIL dumps the state; then
\* the core resets the flash and the host, or ends a probe that failed.
LinkFailed ==
    /\ at = "link_fail" /\ PmaOver("core")
    /\ at' \in {"device_reset", "exit"}
    /\ UNCHANGED <<power, stop, lanes, cal, requests, isr, faults>>

\* exynos_ufs_negotiate_pwr_mode, and ufs_cal_pre_pmc.
Pmc ==
    /\ at = "pmc" /\ PmaOver("core")
    /\ lanes' \in 1 .. lanes
    /\ Calibrate("hs")
    /\ at' = "post_pmc"
    /\ UNCHANGED <<power, stop, requests, isr, faults>>

\* ufs_cal_post_pmc only waits for the receiver, and the core for nothing.
PostPmc ==
    /\ at = "post_pmc" /\ PmaOver("core")
    /\ at' = "active"
    /\ UNCHANGED <<power, stop, lanes, cal, requests, isr, faults>>

-----------------------------------------------------------------------------
\* (mutant) The core does not hold its lock between the reading of the types
\* and the doorbell.
QueueUnlocked(s) ==
    /\ at = "active" /\ busy[s] = "free" /\ s \notin queuing
    /\ queuing' = queuing \cup {s} /\ type' = [type EXCEPT ![s] = nexus]
    /\ UNCHANGED <<at, power, stop, lanes, cal, nexus, busy, pma, isr, faults>>

\* exynos_ufs_setup_xfer_req and exynos_ufs_setup_task_mgmt read the types of
\* all slots, under the lock that the core takes for the doorbell.
Queue(s) ==
    /\ at = "active" /\ busy[s] = "free" /\ queuing = {}
    /\ queuing' = {s} /\ type' = [type EXCEPT ![s] = nexus]
    /\ UNCHANGED <<at, power, stop, lanes, cal, nexus, busy, pma, isr, faults>>

\* ... and write them back with the bit of this slot set for a SCSI command
\* or a single task, and cleared for a query or a function of the whole unit.
Ring(s, kind) ==
    /\ s \in queuing
    /\ nexus' = IF kind = "nexus" THEN type[s] \cup {s} ELSE type[s] \ {s}
    /\ busy' = [busy EXCEPT ![s] = kind]
    /\ queuing' = queuing \ {s}
    /\ UNCHANGED <<at, power, stop, lanes, cal, type, pma, isr, faults>>

Complete(s) ==
    /\ busy[s] # "free"
    /\ busy' = [busy EXCEPT ![s] = "free"]
    /\ UNCHANGED <<at, power, stop, lanes, cal, nexus, queuing, type, pma, isr,
                   faults>>

\* exynos_ufs_event_notify of UFS_EVT_FATAL_ERR, from the interrupt; one that
\* keeps the link from coming up is one of MaxFaults.
Fatal ==
    /\ isr = "idle" /\ at \in {"pmc", "post_pmc", "active", "h8_enter"}
    /\ Works(at \in {"active", "h8_enter"})
    /\ isr' = "dump"
    /\ UNCHANGED <<at, power, stop, lanes, cal, requests, pma>>

\* The dump is made; panic_on_fatal, which can be written at any time, is to
\* stop there.
FatalPanics ==
    /\ isr = "dump" /\ PmaOver("isr")
    /\ isr' = "handled" /\ at' = "panicked"
    /\ busy' = [s \in Slots |-> "free"] /\ queuing' = {}
    /\ UNCHANGED <<power, stop, lanes, cal, nexus, type, faults>>

FatalGoesOn ==
    /\ isr = "dump" /\ PmaOver("isr")
    /\ isr' = "handled"
    /\ UNCHANGED <<at, power, stop, lanes, cal, requests, faults>>

\* The core's error handler fails what is in the doorbell and starts anew.
Recover ==
    /\ at = "active" /\ isr = "handled" /\ queuing = {}
    /\ busy' = [s \in Slots |-> "free"]
    /\ isr' = "idle"
    /\ at' = "device_reset"
    /\ UNCHANGED <<power, stop, lanes, cal, nexus, queuing, type, pma, faults>>

\* panic= brings the board back, with the flash as this system left it.
Reboot ==
    /\ at = "panicked"
    /\ at' = "unbound"
    /\ vcc' = TRUE /\ rst_n' = TRUE /\ phy' = TRUE /\ flash' = "stale"
    /\ stop' = {} /\ lanes' = 0 /\ cal' = {} /\ nexus' = {}
    /\ type' = [s \in Slots |-> {}]
    /\ acc' = [x \in Actors |-> "out"] /\ saved' = [x \in Actors |-> {}]
    /\ isr' = "idle"
    /\ UNCHANGED <<busy, queuing, faults>>

-----------------------------------------------------------------------------
Quiet == queuing = {} /\ isr = "idle" /\ \A s \in Slots : busy[s] = "free"

\* (mutant) The link is put to sleep under a request.
SleepBusy ==
    /\ at = "active" /\ isr = "idle"
    /\ at' = "h8_enter"
    /\ UNCHANGED <<power, stop, lanes, cal, requests, pma, isr, faults>>

\* A system suspend: the link goes to hibern8, exynos_ufs_hibern8_notify.
Sleep ==
    /\ at = "active" /\ Quiet
    /\ at' = "h8_enter"
    /\ UNCHANGED <<power, stop, lanes, cal, requests, pma, isr, faults>>

H8Enter ==
    /\ at = "h8_enter" /\ PmaOver("core")
    /\ Calibrate("h8")
    /\ at' = "suspend"
    /\ UNCHANGED <<power, stop, lanes, requests, isr, faults>>

\* exynos_ufs_suspend, and again when the resume fails: the flash is put in
\* reset and the PHY isolated, although its link is in hibern8.
Suspend ==
    /\ at \in {"suspend", "h8_failed"}
    /\ rst_n' = FALSE /\ flash' = "reset" /\ phy' = FALSE /\ cal' = {}
    /\ at' = IF at = "suspend" THEN "clocks_off" ELSE "broken"
    /\ UNCHANGED <<vcc, stop, lanes, requests, pma, isr, faults>>

\* exynos_ufs_setup_clocks, off and on; the core has disabled the interrupt
\* before, which waits for its handler.
ClocksOff ==
    /\ at = "clocks_off" /\ isr # "dump"
    /\ stop' = stop \cup {"link"}
    /\ at' = "suspended"
    /\ UNCHANGED <<power, lanes, cal, requests, pma, isr, faults>>

ClocksOn ==
    /\ at = "suspended"
    /\ stop' = stop \ {"link"}
    /\ at' = "resume"
    /\ UNCHANGED <<power, lanes, cal, requests, pma, isr, faults>>

\* exynos_ufs_resume, and again from the core's error handler, which also
\* deals with a fatal error from before the suspend.
Resume ==
    /\ at \in {"resume", "broken"}
    /\ phy' = TRUE
    /\ \/ at = "resume" /\ at' = "h8_exit" /\ UNCHANGED isr
       \/ at = "broken" /\ at' = "device_reset" /\ isr' = "idle"
    /\ UNCHANGED <<vcc, rst_n, flash, stop, lanes, cal, requests, pma, faults>>

\* The flash, which is in reset, does not come out of hibern8.
H8Exit ==
    /\ at = "h8_exit" /\ PmaOver("core")
    /\ flash # "linked"
    /\ at' = "h8_failed"
    /\ UNCHANGED <<power, stop, lanes, cal, requests, isr, faults>>

-----------------------------------------------------------------------------
Unbind ==
    /\ at = "active" /\ Quiet
    /\ at' = "exit"
    /\ UNCHANGED <<power, stop, lanes, cal, requests, pma, isr, faults>>

\* exynos_ufs_exit dumps the state, then isolates the PHY; the clocks go after.
Exit ==
    /\ at = "exit" /\ PmaOver("core")
    /\ phy' = FALSE /\ cal' = {}
    /\ stop' = stop \cup {"link"}
    /\ at' = "unbound"
    /\ UNCHANGED <<vcc, rst_n, flash, lanes, requests, isr, faults>>

-----------------------------------------------------------------------------
Core ==
    \/ Bind \/ DeviceReset \/ HostReset \/ PreLink \/ CalLink
    \/ Started \/ LinkFailed \/ Pmc \/ PostPmc
    \/ PmaRead("core") \/ PmaOpen("core") \/ PmaClose("core")
    \/ Recover \/ Reboot
    \/ H8Enter \/ Suspend \/ ClocksOff \/ ClocksOn \/ Resume \/ H8Exit
    \/ Exit

Isr == \/ PmaRead("isr") \/ PmaOpen("isr") \/ PmaClose("isr")
       \/ FatalPanics \/ FatalGoesOn

Next ==
    \/ Core \/ Isr
    \/ BindFails \/ StartupFails \/ Fatal \/ Sleep \/ Unbind
    \/ \E s \in Slots : Queue(s) \/ Complete(s)
    \/ \E s \in Slots, kind \in {"nexus", "other"} : Ring(s, kind)

Spec == Init /\ [][Next]_vars

\* The core and the interrupt go on, and a queued request rings the doorbell.
FairSpec ==
    /\ Spec
    /\ WF_vars(Core \/ StartupFails) /\ WF_vars(Isr)
    /\ WF_vars(\E s \in Slots, kind \in {"nexus", "other"} : Ring(s, kind))

-----------------------------------------------------------------------------
\* The nexus type of a request in the doorbell is that of the request: two
\* requests at once do not lose each other's bit, and what an earlier request
\* or a reset of the host left in the slot does not stay.
NexusRight ==
    \A s \in Slots : busy[s] # "free" => (s \in nexus <=> busy[s] = "nexus")

\* An access to the PHY has its clock, and the PHY is out of isolation.
Clocked(x) == acc[x] = "open" => phy /\ "apb" \notin stop

\* An access of the calibration or of a dump keeps its clock and its PHY from
\* the first to the last, unless a fatal error's dump is under way while the
\* core calibrates the link that is up (the first of the two to end stops the
\* other's clock), or suspends, which isolates the PHY.
PmaClocked ==
    [][\A x \in Actors : Clocked(x) /\ ~Clocked(x)' =>
         /\ isr = "dump"
         /\ at \in {"pmc", "post_pmc", "h8_enter", "suspend", "clocks_off"}
      ]_vars

\* "Ungate APB for each access": a register of the PHY is only touched with
\* its clock running (ufs_lld_pma_write).
PmaUngated == \A x \in Actors : acc[x] = "open" => "apb" \notin stop

\* The link comes up, however the core got there: from the previous system's
\* link, a fatal error, a resume that finds the flash in reset, or another bind.
Recovers == at # "active" ~> at = "active"
=============================================================================
