------------------------------ MODULE PcieLink ------------------------------
(***************************************************************************)
(* pcie-exynos9810.c: the root complex of the WiFi module, from probe to   *)
(* remove, and the INTx interrupts of the module behind it.                *)
(*                                                                         *)
(* There is no MSI.  ELBI latches an INTx assertion as a pulse; the        *)
(* chained handler takes the latched pulses, clears them and runs the      *)
(* device's handlers.  A device that still asserts its line sends no       *)
(* second pulse, so a pulse that is lost leaves the device waiting for     *)
(* good.                                                                   *)
(*                                                                         *)
(* The handler is installed before the registers it reads are mapped and   *)
(* is never taken away.  What runs it too early or too late has latched    *)
(* its pulses under a previous kernel, or until the driver went: a history *)
(* variable, which no action reads, says which.                            *)
(*                                                                         *)
(* The DesignWare core, the module and its driver are external.            *)
(***************************************************************************)
EXTENDS FiniteSets

CONSTANT INTx     \* the four legacy interrupts

VARIABLES
    at,       \* how far probe or remove is, or "oops": the kernel is gone
    handler,  \* the chained handler is installed
    data,     \* its exynos9810_pcie: "none", "alive", or "freed" under it
    mapped,   \* pci->elbi_base is mapped
    phy,      \* PCIE_PHY_CONTROL_ON and the gates behind it
    perst,    \* PERST# is asserted
    ltssm,    \* PCIE_APP_LTSSM_ENABLE
    en,       \* PCIE_IRQ_EN_PULSE
    pulse,    \* PCIE_IRQ_PULSE
    link,     \* PCIE_ELBI_RDLH_LINKUP
    module,   \* the WiFi module
    cause,    \* the lines the module's functions assert
    h, val,   \* how far the chained handler is, and what it read
    left      \* history: who may have left it something to run for

gpios == <<perst, module>>
bridge == <<handler, data, mapped>>
irq == <<h, val>>
vars == <<at, handler, data, mapped, phy, perst, ltssm, en, pulse, link,
          module, cause, h, val, left>>

Places == {"unbound", "module_off", "module_on", "regs", "power", "config",
           "stale", "enable", "setup_rc", "start", "train", "give_up", "scan",
           "running", "stop", "free", "oops"}

TypeOK ==
    /\ at \in Places
    /\ {handler, mapped, phy, perst, ltssm, link} \subseteq BOOLEAN
    /\ data \in {"none", "alive", "freed"}
    /\ module \in {"stale", "off", "booting", "ready"}
    /\ en \subseteq INTx /\ pulse \subseteq INTx /\ cause \subseteq INTx
    /\ h \in {"idle", "ack", "dispatch"} /\ val \subseteq INTx
    /\ h = "idle" => val = {}
    /\ left \in {"previous", "remove", "nobody"}

\* After a warm restart the module runs the previous kernel's firmware "with
\* its link half alive", and every register is what that kernel left.
Init ==
    /\ at = "unbound" /\ handler = FALSE /\ data = "none" /\ mapped = FALSE
    /\ phy \in BOOLEAN /\ perst \in BOOLEAN /\ ltssm \in BOOLEAN
    /\ module \in {"stale", "off"} /\ cause = {}
    /\ link \in {FALSE, phy /\ ltssm /\ ~perst /\ module = "stale"}
    /\ en \in SUBSET INTx /\ pulse \in SUBSET INTx
    /\ h = "idle" /\ val = {} /\ left = "previous"

-----------------------------------------------------------------------------
\* (mutant) WL_REG_ON is requested high: the module is left running.
ProbeWarm ==
    /\ at = "unbound"
    /\ data' = "alive" /\ perst' = TRUE /\ link' = FALSE
    /\ module' = IF module = "stale" THEN "stale" ELSE "off"
    /\ at' = "module_off"
    /\ UNCHANGED <<handler, mapped, phy, ltssm, en, pulse, cause, irq, left>>

\* exynos9810_pcie_probe: PERST# is asserted and the module switched off, so
\* that a previous kernel's link is gone.
Probe ==
    /\ at = "unbound"
    /\ data' = "alive" /\ perst' = TRUE /\ module' = "off" /\ link' = FALSE
    /\ at' = "module_off"
    /\ UNCHANGED <<handler, mapped, phy, ltssm, en, pulse, cause, irq, left>>

\* 50 ms later WL_REG_ON goes high.
ModuleOn ==
    /\ at = "module_off"
    /\ module' = IF module = "off" THEN "booting" ELSE module
    /\ at' = "module_on"
    /\ UNCHANGED <<bridge, phy, perst, ltssm, en, pulse, link, cause, irq,
                   left>>

\* The module's own power-up ends.
Boots ==
    /\ module = "booting"
    /\ module' = "ready"
    /\ UNCHANGED <<at, bridge, phy, perst, ltssm, en, pulse, link, cause, irq,
                   left>>

\* The driver core frees what probe had allocated when it failed.
Fail ==
    /\ data' = "freed" /\ mapped' = FALSE
    /\ at' = "unbound"

\* exynos9810_pcie_init_irq, after the 200 ms the module needs.
InitIrq ==
    /\ at = "module_on" /\ module # "booting"
    /\ handler' = TRUE
    /\ at' = "regs"
    /\ UNCHANGED <<data, mapped, phy, gpios, ltssm, en, pulse, link, cause,
                   irq, left>>

\* No mapping of the gates, no controller node, or no domain.
InitIrqFails ==
    /\ at = "module_on" /\ module # "booting"
    /\ Fail
    /\ UNCHANGED <<handler, phy, gpios, ltssm, en, pulse, link, cause, irq,
                   left>>

\* dw_pcie_host_init: the windows are mapped, ELBI's among them.
MapRegs ==
    /\ at = "regs"
    /\ mapped' = TRUE
    /\ at' = "power"
    /\ UNCHANGED <<handler, data, phy, gpios, ltssm, en, pulse, link, cause,
                   irq, left>>

MapRegsFails ==
    /\ at = "regs"
    /\ Fail
    /\ UNCHANGED <<handler, phy, gpios, ltssm, en, pulse, link, cause, irq,
                   left>>

-----------------------------------------------------------------------------
\* exynos9810_pcie_host_init: the PHY is powered and the core reset, and only
\* then PERST# is let go.
HostPower ==
    /\ at = "power"
    /\ phy' = TRUE /\ link' = FALSE /\ perst' = FALSE
    /\ at' = "config"
    /\ UNCHANGED <<bridge, ltssm, en, pulse, module, cause, irq, left>>

\* The ELBI and PHY settings, with a reset of the MAC: a link that an LTSSM
\* still enabled by a previous kernel has trained meanwhile goes down.
HostConfig ==
    /\ at = "config"
    /\ link' = FALSE
    /\ at' = "stale"
    /\ UNCHANGED <<bridge, phy, gpios, ltssm, en, pulse, cause, irq, left>>

\* From here on no pulse of an earlier kernel or binding is latched; a handler
\* that has read one is still to end.
Settle == left' = IF h = "idle" THEN "nobody" ELSE left

\* (mutant) The stale status is not cleared before the sources are enabled.
ClearStaleNot ==
    /\ at = "stale"
    /\ Settle
    /\ at' = "enable"
    /\ UNCHANGED <<bridge, phy, gpios, ltssm, en, pulse, link, cause, irq>>

ClearStale ==
    /\ at = "stale"
    /\ pulse' = {}
    /\ Settle
    /\ at' = "enable"
    /\ UNCHANGED <<bridge, phy, gpios, ltssm, en, link, cause, irq>>

EnableIntx ==
    /\ at = "enable"
    /\ en' = INTx
    /\ at' = "setup_rc"
    /\ UNCHANGED <<bridge, phy, gpios, ltssm, pulse, link, cause, irq, left>>

\* dw_pcie_setup_rc; on an error nothing is stopped, for nothing was started.
SetupRc ==
    /\ at = "setup_rc"
    /\ at' = "start"
    /\ UNCHANGED <<bridge, phy, gpios, ltssm, en, pulse, link, cause, irq,
                   left>>

SetupRcFails ==
    /\ at = "setup_rc"
    /\ Fail
    /\ UNCHANGED <<handler, phy, gpios, ltssm, en, pulse, link, cause, irq,
                   left>>

-----------------------------------------------------------------------------
\* exynos9810_pcie_start_link.
StartLink ==
    /\ at = "start"
    /\ ltssm' = TRUE
    /\ at' = "train"
    /\ UNCHANGED <<bridge, phy, gpios, en, pulse, link, cause, irq, left>>

\* The link trains, or never does.  It does not go down again by itself.
Trains ==
    /\ ltssm /\ ~perst /\ phy /\ module \in {"stale", "ready"} /\ ~link
    /\ link' = TRUE
    /\ UNCHANGED <<at, bridge, phy, gpios, ltssm, en, pulse, cause, irq, left>>

Trained ==
    /\ at = "train" /\ link
    /\ at' = "scan"
    /\ UNCHANGED <<bridge, phy, gpios, ltssm, en, pulse, link, cause, irq,
                   left>>

\* The last reading of the poll; the link may train before it is stopped.
TrainTimesOut ==
    /\ at = "train" /\ ~link
    /\ at' = "give_up"
    /\ UNCHANGED <<bridge, phy, gpios, ltssm, en, pulse, link, cause, irq,
                   left>>

\* exynos9810_pcie_stop_link, and the end of start_link on a time-out.
StopLink == ltssm' = FALSE /\ perst' = TRUE /\ link' = FALSE

GiveUp ==
    /\ at = "give_up"
    /\ StopLink /\ Fail
    /\ UNCHANGED <<handler, phy, en, pulse, module, cause, irq, left>>

\* pci_host_probe: the bus is scanned, and the module's driver binds.
Scan ==
    /\ at = "scan"
    /\ at' = "running"
    /\ UNCHANGED <<bridge, phy, gpios, ltssm, en, pulse, link, cause, irq,
                   left>>

ScanFails ==
    /\ at = "scan"
    /\ StopLink /\ Fail
    /\ UNCHANGED <<handler, phy, en, pulse, module, cause, irq, left>>

\* exynos9810_pcie_remove: dw_pcie_host_deinit takes the module's driver away,
\* which silences the module, and stops the link; the core frees the data.
Remove ==
    /\ at = "running"
    /\ cause' = {}
    /\ at' = "stop"
    /\ UNCHANGED <<bridge, phy, gpios, ltssm, en, pulse, link, irq, left>>

Stop ==
    /\ at = "stop"
    /\ StopLink
    /\ at' = "free"
    /\ UNCHANGED <<bridge, phy, en, pulse, module, cause, irq, left>>

\* An interrupt of the module that is pending, or being handled, is not waited
\* for.
Free ==
    /\ at = "free"
    /\ left' = IF h = "idle" /\ pulse \cap en = {} THEN "nobody" ELSE "remove"
    /\ Fail
    /\ UNCHANGED <<handler, phy, gpios, ltssm, en, pulse, link, cause, irq>>

-----------------------------------------------------------------------------
\* A function of the module asserts its line: one pulse.
AssertLine(i) ==
    /\ at = "running" /\ link /\ i \notin cause
    /\ cause' = cause \cup {i} /\ pulse' = pulse \cup {i}
    /\ UNCHANGED <<at, bridge, phy, gpios, ltssm, en, link, irq, left>>

\* What the handler works on: its data, the ELBI registers and their power.
Regs == data = "alive" /\ mapped /\ phy

\* exynos9810_pcie_irq_handler: the line is level triggered, at the GIC.
IrqRead ==
    /\ handler /\ h = "idle" /\ pulse \cap en # {} /\ Regs
    /\ h' = "ack" /\ val' = pulse
    /\ UNCHANGED <<at, bridge, phy, gpios, ltssm, en, pulse, link, cause, left>>

\* (mutant) Every pulse is cleared, read or not.
IrqAckAll ==
    /\ h = "ack" /\ Regs
    /\ pulse' = {}
    /\ h' = "dispatch"
    /\ UNCHANGED <<at, bridge, phy, gpios, ltssm, en, link, cause, val, left>>

IrqAck ==
    /\ h = "ack" /\ Regs
    /\ pulse' = pulse \ val
    /\ h' = "dispatch"
    /\ UNCHANGED <<at, bridge, phy, gpios, ltssm, en, link, cause, val, left>>

\* generic_handle_domain_irq: the handler of the function lowers the line.
IrqDispatch(i) ==
    /\ h = "dispatch" /\ i \in val /\ Regs
    /\ val' = val \ {i} /\ cause' = cause \ {i}
    /\ UNCHANGED <<at, bridge, phy, gpios, ltssm, en, pulse, link, h, left>>

\* (mutant) The handler returns after the first interrupt it served.
IrqExitEarly ==
    /\ h = "dispatch" /\ Regs
    /\ h' = "idle"
    /\ UNCHANGED <<at, bridge, phy, gpios, ltssm, en, pulse, link, cause, val,
                   left>>

\* Where the stale status has been cleared by this probe.
Cleared == {"enable", "setup_rc", "start", "train", "give_up", "scan",
            "running", "stop", "free"}

\* The level and special status, which nothing enables, is cleared as well.
IrqExit ==
    /\ h = "dispatch" /\ val = {} /\ Regs
    /\ h' = "idle"
    /\ left' = IF at \in Cleared THEN "nobody" ELSE left
    /\ UNCHANGED <<at, bridge, phy, gpios, ltssm, en, pulse, link, cause, val>>

\* It is run, or goes on, without them: there is no way back from there.
Oops ==
    /\ handler /\ ~Regs /\ (h # "idle" \/ pulse \cap en # {})
    /\ at # "oops" /\ at' = "oops"
    /\ UNCHANGED <<bridge, phy, gpios, ltssm, en, pulse, link, cause, irq,
                   left>>

-----------------------------------------------------------------------------
Handle == IrqRead \/ IrqAck \/ (\E i \in INTx : IrqDispatch(i)) \/ IrqExit

Driver ==
    \/ Probe \/ ModuleOn \/ InitIrq \/ InitIrqFails \/ MapRegs \/ MapRegsFails
    \/ HostPower \/ HostConfig \/ ClearStale \/ EnableIntx
    \/ SetupRc \/ SetupRcFails \/ StartLink \/ Trained \/ TrainTimesOut
    \/ GiveUp \/ Scan \/ ScanFails \/ Remove \/ Stop \/ Free

Next ==
    \/ Driver \/ Handle \/ Oops
    \/ Boots \/ Trains
    \/ \E i \in INTx : AssertLine(i)

Spec == Init /\ [][Next]_vars

\* A pending interrupt is taken and its handler runs to its end.
FairSpec == Spec /\ WF_vars(Handle)

-----------------------------------------------------------------------------
\* "Do not hand a dead link to the core": this root complex answers an access
\* over a dead link with an error that hangs the SoC.  The bus is scanned and
\* used only over a trained link, to a module that was switched off and on by
\* this probe, and never over one that a previous kernel left half alive.
DeadLinkNotUsed ==
    at \in {"scan", "running"} =>
        link /\ ltssm /\ phy /\ ~perst /\ module = "ready"

\* The chained handler, installed before the registers it reads are mapped and
\* never taken away, is run without them only for what a previous kernel left
\* latched and enabled, or for what was pending when the driver was removed: a
\* probe that fails anywhere leaves it nothing of its own to run for.
HandlerHasRegs == at = "oops" => left # "nobody"

\* "Stale status from a previous kernel is cleared first": first, that is,
\* before the handler is run for it (exynos9810_pcie_host_init).
StaleClearedFirst == at = "oops" => left # "previous"

\* A line that a function asserts is latched in an enabled pulse, which has the
\* chained handler run, or was read by a handler that has not come to it yet:
\* clearing the pulses takes none away that was not read (PCIE_IRQ_PULSE).
NoPulseLost ==
    cause # {} => handler /\ cause \subseteq (pulse \cap en) \cup val

\* No assertion is lost: each is handled, whatever is asserted while the
\* handler runs (or the driver goes).
AssertionServed == \A i \in INTx : i \in cause ~> i \notin cause
=============================================================================
