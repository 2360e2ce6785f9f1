----------------------------- MODULE PortProofs ------------------------------
(***************************************************************************)
(* The drivers of the two ports, for any set of interrupts, limits and     *)
(* sources: the root complex is never used over a dead link and its        *)
(* chained handler, which loses no interrupt, never runs on driver data or *)
(* registers that are gone, through any sequence of probes that work or    *)
(* fail, and of removes; and nothing that happens at the USB port is       *)
(* missed by the MUIC or the charger driver.                               *)
(***************************************************************************)
EXTENDS PcieLink, UsbPort, Integers, TLAPS

(***************************************************************************)
(* PART 1: the PCIe root complex (PcieLink).                               *)
(***************************************************************************)

\* From start_link to stop_link.
LinkStarted == {"train", "give_up", "scan", "running", "stop"}

\* Where the PHY is on and PERST# let go.
LinkPowered ==
    {"config", "stale", "enable", "setup_rc", "start"} \cup LinkStarted

\* By the time the LTSSM is started this probe has switched the module off and
\* on and has taken down whatever link a previous kernel had left.
LinkInv ==
    /\ at \in LinkPowered => phy /\ ~perst
    /\ at \in LinkStarted => ltssm
    /\ at \in {"scan", "running"} => link
    /\ at = "module_off" => module = "off"
    /\ at = "module_on" => module \in {"booting", "ready"}
    /\ at \notin {"unbound", "module_off", "module_on", "oops"} =>
           module = "ready"

\* What is there from probe to the place the driver is at.
Present ==
    /\ at \notin {"unbound", "oops"} => data = "alive"
    /\ at \notin {"unbound", "module_off", "module_on", "regs", "oops"} =>
           mapped
    /\ at \notin {"unbound", "module_off", "module_on", "regs", "power",
                  "oops"} => phy

\* Once nothing is left of a previous kernel or an earlier binding, the handler
\* is idle and has nothing to run for until the module is in use again.
Calm ==
    /\ left = "nobody" /\ at \notin {"running", "stop", "free", "oops"} =>
           h = "idle" /\ pulse \cap en = {}
    /\ at \in {"enable", "setup_rc", "start", "train", "give_up", "scan"} =>
           pulse = {}
    /\ HandlerHasRegs

-----------------------------------------------------------------------------
\* The handler leaves only when it has served what it read, and every place
\* of the driver is one of Places.
LEMMA NextType == TypeOK /\ [Next]_vars => TypeOK'
<1> SUFFICES ASSUME TypeOK, [Next]_vars PROVE TypeOK'
  OBVIOUS
<1> USE DEF TypeOK, Places, gpios, bridge, irq
<1>1. CASE Probe
  BY <1>1 DEF Probe
<1>2. CASE ModuleOn
  BY <1>2 DEF ModuleOn
<1>3. CASE InitIrq
  BY <1>3 DEF InitIrq
<1>4. CASE InitIrqFails
  BY <1>4 DEF InitIrqFails, Fail
<1>5. CASE MapRegs
  BY <1>5 DEF MapRegs
<1>6. CASE MapRegsFails
  BY <1>6 DEF MapRegsFails, Fail
<1>7. CASE HostPower
  BY <1>7 DEF HostPower
<1>8. CASE HostConfig
  BY <1>8 DEF HostConfig
<1>9. CASE ClearStale
  BY <1>9 DEF ClearStale, Settle
<1>10. CASE EnableIntx
  BY <1>10 DEF EnableIntx
<1>11. CASE SetupRc
  BY <1>11 DEF SetupRc
<1>12. CASE SetupRcFails
  BY <1>12 DEF SetupRcFails, Fail
<1>13. CASE StartLink
  BY <1>13 DEF StartLink
<1>14. CASE Trained
  BY <1>14 DEF Trained
<1>15. CASE TrainTimesOut
  BY <1>15 DEF TrainTimesOut
<1>16. CASE GiveUp
  BY <1>16 DEF GiveUp, Fail, StopLink
<1>17. CASE Scan
  BY <1>17 DEF Scan
<1>18. CASE ScanFails
  BY <1>18 DEF ScanFails, Fail, StopLink
<1>19. CASE Remove
  BY <1>19 DEF Remove
<1>20. CASE Stop
  BY <1>20 DEF Stop, StopLink
<1>21. CASE Free
  BY <1>21 DEF Free, Fail
<1>22. CASE IrqRead
  BY <1>22 DEF IrqRead
<1>23. CASE IrqAck
  BY <1>23 DEF IrqAck
<1>24. CASE IrqExit
  BY <1>24 DEF IrqExit
<1>25. CASE Boots
  BY <1>25 DEF Boots
<1>26. CASE Trains
  BY <1>26 DEF Trains
<1>27. ASSUME NEW i \in INTx, IrqDispatch(i)
       PROVE  TypeOK'
  BY <1>27 DEF IrqDispatch
<1>28. ASSUME NEW i \in INTx, AssertLine(i)
       PROVE  TypeOK'
  BY <1>28 DEF AssertLine
<1>29. CASE UNCHANGED vars
  BY <1>29 DEF vars
<1>30. CASE Oops
  BY <1>30 DEF Oops, Regs
<1> QED
  BY <1>1, <1>2, <1>3, <1>4, <1>5, <1>6, <1>7, <1>8, <1>9, <1>10, <1>11,
     <1>12, <1>13, <1>14, <1>15, <1>16, <1>17, <1>18, <1>19, <1>20, <1>21,
     <1>22, <1>23, <1>24, <1>25, <1>26, <1>27, <1>28, <1>29, <1>30
  DEF Next, Driver, Handle

\* Every variable of the root complex driver keeps its type; the handler holds
\* no read status while it is idle.
THEOREM TypeCorrect == Spec => []TypeOK
<1>1. Init => TypeOK
  BY DEF Init, TypeOK, Places
<1>2. TypeOK /\ [Next]_vars => TypeOK'
  BY NextType
<1> QED
  BY <1>1, <1>2, PTL DEF Spec

-----------------------------------------------------------------------------
\* The link is stopped on each way out of probe and by remove.
LEMMA NextLink == TypeOK /\ LinkInv /\ [Next]_vars => LinkInv'
<1> SUFFICES ASSUME TypeOK, LinkInv, [Next]_vars PROVE LinkInv'
  OBVIOUS
<1> USE DEF TypeOK, Places, LinkInv, LinkPowered, LinkStarted, gpios,
        bridge, irq
<1>1. CASE Probe
  BY <1>1 DEF Probe
<1>2. CASE ModuleOn
  BY <1>2 DEF ModuleOn
<1>3. CASE InitIrq
  BY <1>3 DEF InitIrq
<1>4. CASE InitIrqFails
  BY <1>4 DEF InitIrqFails, Fail
<1>5. CASE MapRegs
  BY <1>5 DEF MapRegs
<1>6. CASE MapRegsFails
  BY <1>6 DEF MapRegsFails, Fail
<1>7. CASE HostPower
  BY <1>7 DEF HostPower
<1>8. CASE HostConfig
  BY <1>8 DEF HostConfig
<1>9. CASE ClearStale
  BY <1>9 DEF ClearStale, Settle
<1>10. CASE EnableIntx
  BY <1>10 DEF EnableIntx
<1>11. CASE SetupRc
  BY <1>11 DEF SetupRc
<1>12. CASE SetupRcFails
  BY <1>12 DEF SetupRcFails, Fail
<1>13. CASE StartLink
  BY <1>13 DEF StartLink
<1>14. CASE Trained
  BY <1>14 DEF Trained
<1>15. CASE TrainTimesOut
  BY <1>15 DEF TrainTimesOut
<1>16. CASE GiveUp
  BY <1>16 DEF GiveUp, Fail, StopLink
<1>17. CASE Scan
  BY <1>17 DEF Scan
<1>18. CASE ScanFails
  BY <1>18 DEF ScanFails, Fail, StopLink
<1>19. CASE Remove
  BY <1>19 DEF Remove
<1>20. CASE Stop
  BY <1>20 DEF Stop, StopLink
<1>21. CASE Free
  BY <1>21 DEF Free, Fail
<1>22. CASE IrqRead
  BY <1>22 DEF IrqRead
<1>23. CASE IrqAck
  BY <1>23 DEF IrqAck
<1>24. CASE IrqExit
  BY <1>24 DEF IrqExit
<1>25. CASE Boots
  BY <1>25 DEF Boots
<1>26. CASE Trains
  BY <1>26 DEF Trains
<1>27. ASSUME NEW i \in INTx, IrqDispatch(i)
       PROVE  LinkInv'
  BY <1>27 DEF IrqDispatch
<1>28. ASSUME NEW i \in INTx, AssertLine(i)
       PROVE  LinkInv'
  BY <1>28 DEF AssertLine
<1>29. CASE UNCHANGED vars
  BY <1>29 DEF vars
<1>30. CASE Oops
  BY <1>30 DEF Oops, Regs
<1> QED
  BY <1>1, <1>2, <1>3, <1>4, <1>5, <1>6, <1>7, <1>8, <1>9, <1>10, <1>11,
     <1>12, <1>13, <1>14, <1>15, <1>16, <1>17, <1>18, <1>19, <1>20, <1>21,
     <1>22, <1>23, <1>24, <1>25, <1>26, <1>27, <1>28, <1>29, <1>30
  DEF Next, Driver, Handle

\* "Do not hand a dead link to the core": the bus is scanned and used only over
\* a trained link to a module this probe has powered, and a link given up does
\* not come back by itself, for any failure at any step of any probe.
THEOREM NoDeadLink == Spec => []DeadLinkNotUsed
<1>1. Init => TypeOK /\ LinkInv
  BY DEF Init, TypeOK, Places, LinkInv, LinkPowered, LinkStarted
<1>2. TypeOK /\ LinkInv /\ [Next]_vars => (TypeOK /\ LinkInv)'
  BY NextType, NextLink
<1>3. TypeOK /\ LinkInv => DeadLinkNotUsed
  BY DEF TypeOK, LinkInv, LinkPowered, LinkStarted, DeadLinkNotUsed
<1> QED
  BY <1>1, <1>2, <1>3, PTL DEF Spec

-----------------------------------------------------------------------------
\* What a place has stays until the driver core frees it on the way out.
LEMMA NextPresent == TypeOK /\ Present /\ [Next]_vars => Present'
<1> SUFFICES ASSUME TypeOK, Present, [Next]_vars PROVE Present'
  OBVIOUS
<1> USE DEF TypeOK, Places, Present, gpios, bridge, irq
<1>1. CASE Probe
  BY <1>1 DEF Probe
<1>2. CASE ModuleOn
  BY <1>2 DEF ModuleOn
<1>3. CASE InitIrq
  BY <1>3 DEF InitIrq
<1>4. CASE InitIrqFails
  BY <1>4 DEF InitIrqFails, Fail
<1>5. CASE MapRegs
  BY <1>5 DEF MapRegs
<1>6. CASE MapRegsFails
  BY <1>6 DEF MapRegsFails, Fail
<1>7. CASE HostPower
  BY <1>7 DEF HostPower
<1>8. CASE HostConfig
  BY <1>8 DEF HostConfig
<1>9. CASE ClearStale
  BY <1>9 DEF ClearStale, Settle
<1>10. CASE EnableIntx
  BY <1>10 DEF EnableIntx
<1>11. CASE SetupRc
  BY <1>11 DEF SetupRc
<1>12. CASE SetupRcFails
  BY <1>12 DEF SetupRcFails, Fail
<1>13. CASE StartLink
  BY <1>13 DEF StartLink
<1>14. CASE Trained
  BY <1>14 DEF Trained
<1>15. CASE TrainTimesOut
  BY <1>15 DEF TrainTimesOut
<1>16. CASE GiveUp
  BY <1>16 DEF GiveUp, Fail, StopLink
<1>17. CASE Scan
  BY <1>17 DEF Scan
<1>18. CASE ScanFails
  BY <1>18 DEF ScanFails, Fail, StopLink
<1>19. CASE Remove
  BY <1>19 DEF Remove
<1>20. CASE Stop
  BY <1>20 DEF Stop, StopLink
<1>21. CASE Free
  BY <1>21 DEF Free, Fail
<1>22. CASE IrqRead
  BY <1>22 DEF IrqRead
<1>23. CASE IrqAck
  BY <1>23 DEF IrqAck
<1>24. CASE IrqExit
  BY <1>24 DEF IrqExit
<1>25. CASE Boots
  BY <1>25 DEF Boots
<1>26. CASE Trains
  BY <1>26 DEF Trains
<1>27. ASSUME NEW i \in INTx, IrqDispatch(i)
       PROVE  Present'
  BY <1>27 DEF IrqDispatch
<1>28. ASSUME NEW i \in INTx, AssertLine(i)
       PROVE  Present'
  BY <1>28 DEF AssertLine
<1>29. CASE UNCHANGED vars
  BY <1>29 DEF vars
<1>30. CASE Oops
  BY <1>30 DEF Oops, Regs
<1> QED
  BY <1>1, <1>2, <1>3, <1>4, <1>5, <1>6, <1>7, <1>8, <1>9, <1>10, <1>11,
     <1>12, <1>13, <1>14, <1>15, <1>16, <1>17, <1>18, <1>19, <1>20, <1>21,
     <1>22, <1>23, <1>24, <1>25, <1>26, <1>27, <1>28, <1>29, <1>30
  DEF Next, Driver, Handle

\* What the handler of this binding runs for is latched while the module is in
\* use, where all it needs is there; Free marks what it leaves behind.
LEMMA NextCalm == TypeOK /\ Present /\ Calm /\ [Next]_vars => Calm'
<1> SUFFICES ASSUME TypeOK, Present, Calm, [Next]_vars PROVE Calm'
  OBVIOUS
<1> USE DEF TypeOK, Places, Calm, HandlerHasRegs, gpios, bridge, irq
<1>1. CASE Probe
  BY <1>1 DEF Probe
<1>2. CASE ModuleOn
  BY <1>2 DEF ModuleOn
<1>3. CASE InitIrq
  BY <1>3 DEF InitIrq
<1>4. CASE InitIrqFails
  BY <1>4 DEF InitIrqFails, Fail
<1>5. CASE MapRegs
  BY <1>5 DEF MapRegs
<1>6. CASE MapRegsFails
  BY <1>6 DEF MapRegsFails, Fail
<1>7. CASE HostPower
  BY <1>7 DEF HostPower
<1>8. CASE HostConfig
  BY <1>8 DEF HostConfig
<1>9. CASE ClearStale
  BY <1>9 DEF ClearStale, Settle
<1>10. CASE EnableIntx
  BY <1>10 DEF EnableIntx
<1>11. CASE SetupRc
  BY <1>11 DEF SetupRc
<1>12. CASE SetupRcFails
  BY <1>12 DEF SetupRcFails, Fail
<1>13. CASE StartLink
  BY <1>13 DEF StartLink
<1>14. CASE Trained
  BY <1>14 DEF Trained
<1>15. CASE TrainTimesOut
  BY <1>15 DEF TrainTimesOut
<1>16. CASE GiveUp
  BY <1>16 DEF GiveUp, Fail, StopLink
<1>17. CASE Scan
  BY <1>17 DEF Scan
<1>18. CASE ScanFails
  BY <1>18 DEF ScanFails, Fail, StopLink
<1>19. CASE Remove
  BY <1>19 DEF Remove
<1>20. CASE Stop
  BY <1>20 DEF Stop, StopLink
<1>21. CASE Free
  BY <1>21 DEF Free, Fail
<1>22. CASE IrqRead
  BY <1>22 DEF IrqRead
<1>23. CASE IrqAck
  BY <1>23 DEF IrqAck
<1>24. CASE IrqExit
  BY <1>24 DEF IrqExit, Cleared
<1>25. CASE Boots
  BY <1>25 DEF Boots
<1>26. CASE Trains
  BY <1>26 DEF Trains
<1>27. ASSUME NEW i \in INTx, IrqDispatch(i)
       PROVE  Calm'
  BY <1>27 DEF IrqDispatch
<1>28. ASSUME NEW i \in INTx, AssertLine(i)
       PROVE  Calm'
  BY <1>28 DEF AssertLine
<1>29. CASE UNCHANGED vars
  BY <1>29 DEF vars
<1>30. CASE Oops
  BY <1>30 DEF Oops, Regs, Present
<1> QED
  BY <1>1, <1>2, <1>3, <1>4, <1>5, <1>6, <1>7, <1>8, <1>9, <1>10, <1>11,
     <1>12, <1>13, <1>14, <1>15, <1>16, <1>17, <1>18, <1>19, <1>20, <1>21,
     <1>22, <1>23, <1>24, <1>25, <1>26, <1>27, <1>28, <1>29, <1>30
  DEF Next, Driver, Handle

\* The chained handler, which is installed before the ELBI registers are mapped
\* and never removed, is run without its data, its registers or the PHY's power
\* only for what a previous kernel left latched and enabled, or for what was
\* pending or half handled when remove freed them.
THEOREM HandlerSafe == Spec => []HandlerHasRegs
<1> DEFINE Inv == TypeOK /\ Present /\ Calm
<1>1. Init => Inv
  BY DEF Init, TypeOK, Places, Present, Calm, HandlerHasRegs
<1>2. Inv /\ [Next]_vars => Inv'
  BY NextType, NextPresent, NextCalm
<1>3. Inv => HandlerHasRegs
  BY DEF Calm
<1> QED
  BY <1>1, <1>2, <1>3, PTL DEF Spec

-----------------------------------------------------------------------------
\* Lines are asserted only while the module is in use, with the handler in place
\* and every pulse enabled; each is latched or read until it has been served.
Carried ==
    /\ at # "running" => cause = {}
    /\ at \notin {"unbound", "module_off", "module_on"} => handler
    /\ at \in {"setup_rc", "start", "train", "give_up", "scan", "running",
               "stop", "free"} => en = INTx
    /\ cause \subseteq pulse \cup val

\* What clears a pulse has read it, or comes before the module is in use.
LEMMA NextCarried == TypeOK /\ Present /\ Carried /\ [Next]_vars => Carried'
<1> SUFFICES ASSUME TypeOK, Present, Carried, [Next]_vars PROVE Carried'
  OBVIOUS
<1> USE DEF TypeOK, Places, Carried, gpios, bridge, irq
<1>1. CASE Probe
  BY <1>1 DEF Probe
<1>2. CASE ModuleOn
  BY <1>2 DEF ModuleOn
<1>3. CASE InitIrq
  BY <1>3 DEF InitIrq
<1>4. CASE InitIrqFails
  BY <1>4 DEF InitIrqFails, Fail
<1>5. CASE MapRegs
  BY <1>5 DEF MapRegs
<1>6. CASE MapRegsFails
  BY <1>6 DEF MapRegsFails, Fail
<1>7. CASE HostPower
  BY <1>7 DEF HostPower
<1>8. CASE HostConfig
  BY <1>8 DEF HostConfig
<1>9. CASE ClearStale
  BY <1>9 DEF ClearStale, Settle
<1>10. CASE EnableIntx
  BY <1>10 DEF EnableIntx
<1>11. CASE SetupRc
  BY <1>11 DEF SetupRc
<1>12. CASE SetupRcFails
  BY <1>12 DEF SetupRcFails, Fail
<1>13. CASE StartLink
  BY <1>13 DEF StartLink
<1>14. CASE Trained
  BY <1>14 DEF Trained
<1>15. CASE TrainTimesOut
  BY <1>15 DEF TrainTimesOut
<1>16. CASE GiveUp
  BY <1>16 DEF GiveUp, Fail, StopLink
<1>17. CASE Scan
  BY <1>17 DEF Scan
<1>18. CASE ScanFails
  BY <1>18 DEF ScanFails, Fail, StopLink
<1>19. CASE Remove
  BY <1>19 DEF Remove
<1>20. CASE Stop
  BY <1>20 DEF Stop, StopLink
<1>21. CASE Free
  BY <1>21 DEF Free, Fail
<1>22. CASE IrqRead
  BY <1>22 DEF IrqRead
<1>23. CASE IrqAck
  BY <1>23 DEF IrqAck
<1>24. CASE IrqExit
  BY <1>24 DEF IrqExit
<1>25. CASE Boots
  BY <1>25 DEF Boots
<1>26. CASE Trains
  BY <1>26 DEF Trains
<1>27. ASSUME NEW i \in INTx, IrqDispatch(i)
       PROVE  Carried'
  BY <1>27 DEF IrqDispatch
<1>28. ASSUME NEW i \in INTx, AssertLine(i)
       PROVE  Carried'
  BY <1>28 DEF AssertLine
<1>29. CASE UNCHANGED vars
  BY <1>29 DEF vars
<1>30. CASE Oops
  BY <1>30 DEF Oops, Regs, Present
<1> QED
  BY <1>1, <1>2, <1>3, <1>4, <1>5, <1>6, <1>7, <1>8, <1>9, <1>10, <1>11,
     <1>12, <1>13, <1>14, <1>15, <1>16, <1>17, <1>18, <1>19, <1>20, <1>21,
     <1>22, <1>23, <1>24, <1>25, <1>26, <1>27, <1>28, <1>29, <1>30
  DEF Next, Driver, Handle

\* exynos9810_pcie_irq_handler: a line that is asserted stays latched and
\* enabled, or is among those the handler has read and not served yet, also when
\* it comes between the reading and the clearing of the pulses.
THEOREM PulsesKept == Spec => []NoPulseLost
<1> DEFINE Inv == TypeOK /\ Present /\ Carried
<1>1. Init => Inv
  BY DEF Init, TypeOK, Places, Present, Carried
<1>2. Inv /\ [Next]_vars => Inv'
  BY NextType, NextPresent, NextCarried
<1>3. Inv => NoPulseLost
  BY DEF TypeOK, Carried, NoPulseLost
<1> QED
  BY <1>1, <1>2, <1>3, PTL DEF Spec

-----------------------------------------------------------------------------
(***************************************************************************)
(* PART 2: the USB port (UsbPort).                                         *)
(***************************************************************************)

\* The thread has checked that the limit is above the lowest current, and by
\* the time it writes it has read one that is not below it.
LimitRead ==
    0 < Low /\ Low <= MinSource =>
        /\ thread = "read" => Low <= limit
        /\ thread = "write" => Low <= regval

LEMMA CodeIs ==
    /\ Low \in Nat /\ Top \in Nat /\ MinSource \in Nat /\ Low <= Top
    /\ \A l \in Int : l \in Codes <=> 0 <= l /\ l <= Top
    /\ \A l \in Codes : OneLess(l) \in Codes
    /\ \A l \in Codes : 0 < Low /\ Low <= l => Low <= OneLess(l) + 1
  BY PortAssumption DEF Codes, OneLess

LEMMA PortInitInv == PortInit => PortTypeOK /\ NothingMissed /\ LimitRead
<1> SUFFICES ASSUME PortInit PROVE PortTypeOK /\ NothingMissed /\ LimitRead
  OBVIOUS
<1>1. limit \in Codes /\ regval \in Codes /\ Low <= limit /\ limit \in Nat
  BY PortAssumption DEF PortInit, Codes
<1>2. latched \subseteq {"chgin", "aicl"}
  BY DEF PortInit
<1>3. PortTypeOK
  <2>1. writes \in 0 .. MaxWrites /\ source \in MinSource .. Top
    BY PortAssumption DEF PortInit
  <2>2. QED
    BY <1>1, <1>2, <2>1 DEF PortInit, PortTypeOK, Charger
<1>4. NothingMissed /\ LimitRead
  BY <1>1, PortAssumption
  DEF PortInit, NothingMissed, PowerNoticed, OverloadNoticed, SwitchesKnown,
      LimitNotWrapped, LimitRead
<1> QED
  BY <1>3, <1>4

PortInv == PortTypeOK /\ NothingMissed /\ LimitRead

\* A plug comes or goes, or the source changes.
LEMMA PlugInv ==
    ASSUME PortInv, Attach \/ Detach \/ SourceChanges
    PROVE  PortInv'
  <1> USE CodeIs DEF PortInv, NothingMissed, plug, muicVars, aicl, chgVars
  <1>1. PortTypeOK'
    <2>1. /\ vbus' \in BOOLEAN /\ last' \in BOOLEAN /\ refused' \in BOOLEAN
          /\ gave_up' \in BOOLEAN /\ dropped' \in BOOLEAN
          /\ work' \in BOOLEAN /\ online' \in BOOLEAN
      BY DEF PortTypeOK, Rearm, SetPath, Latch, Attach, Detach, SourceChanges
    <2>2. /\ source' \in MinSource .. Top
          /\ limit' \in Codes /\ regval' \in Codes
          /\ writes' \in 0 .. MaxWrites
      BY PortAssumption DEF PortTypeOK, Rearm, SetPath, Latch, Attach, Detach,
        SourceChanges
    <2>3. com' \in {"usb", "open"}
      BY DEF PortTypeOK, Attach, Detach, SourceChanges
    <2>4. /\ muic' = muic /\ chg' = chg /\ thread' = thread /\ work' = work
          /\ regval' = regval
      BY DEF Attach, Detach, SourceChanges
    <2>5. latched' \subseteq {"chgin", "aicl"}
      BY DEF PortTypeOK, Rearm, SetPath, Latch, Attach, Detach, SourceChanges
    <2>6. QED
      BY <2>1, <2>2, <2>3, <2>4, <2>5 DEF PortTypeOK
  <1>2. PowerNoticed'
    BY DEF PortTypeOK, PowerNoticed, Latch, Attach, Detach, SourceChanges
  <1>3. OverloadNoticed'
    BY DEF PortTypeOK, OverloadNoticed, Latch, Overdrawn, Attach, Detach,
      SourceChanges
  <1>4. SwitchesKnown'
    BY DEF PortTypeOK, SwitchesKnown, SetPath, Rearm, Attach, Detach,
      SourceChanges
  <1>5. LimitNotWrapped' /\ LimitRead'
    BY DEF PortTypeOK, LimitNotWrapped, LimitRead, Overdrawn, Attach, Detach,
      SourceChanges
  <1>6. QED
    BY <1>1, <1>2, <1>3, <1>4, <1>5

\* The MUIC driver.
LEMMA MuicInv ==
    ASSUME PortInv, MuicStep \/ MuicRemove
    PROVE  PortInv'
  <1> USE CodeIs DEF PortInv, NothingMissed, plug, muicVars, aicl, chgVars
  <1>1. PortTypeOK'
    <2>1. /\ vbus' \in BOOLEAN /\ last' \in BOOLEAN /\ refused' \in BOOLEAN
          /\ gave_up' \in BOOLEAN /\ dropped' \in BOOLEAN
          /\ work' \in BOOLEAN /\ online' \in BOOLEAN
      BY DEF PortTypeOK, Rearm, SetPath, Latch, MuicStep, MuicRemove, MuicProbe,
        MuicProbed, MuicPollSame, MuicPollEdge, MuicPollSet
    <2>2. /\ source' \in MinSource .. Top
          /\ limit' \in Codes /\ regval' \in Codes
          /\ writes' \in 0 .. MaxWrites
      BY PortAssumption DEF PortTypeOK, Rearm, SetPath, Latch, MuicStep,
        MuicRemove, MuicProbe, MuicProbed, MuicPollSame, MuicPollEdge,
        MuicPollSet
    <2>3. com' \in {"usb", "open"}
      BY DEF PortTypeOK, SetPath, MuicStep, MuicRemove, MuicProbe, MuicProbed,
        MuicPollSame, MuicPollEdge, MuicPollSet
    <2>4. muic' \in {"unbound", "probe", "idle", "set", "stopped"}
      BY DEF PortTypeOK, Rearm, MuicStep, MuicRemove, MuicProbe, MuicProbed,
        MuicPollSame, MuicPollEdge, MuicPollSet
    <2>5. chg' = chg /\ thread' = thread /\ work' = work /\ regval' = regval
      BY DEF MuicStep, MuicRemove, MuicProbe, MuicProbed, MuicPollSame,
        MuicPollEdge, MuicPollSet
    <2>6. latched' \subseteq {"chgin", "aicl"}
      BY DEF PortTypeOK, Rearm, SetPath, Latch, MuicStep, MuicRemove, MuicProbe,
        MuicProbed, MuicPollSame, MuicPollEdge, MuicPollSet
    <2>7. QED
      BY <2>1, <2>2, <2>3, <2>4, <2>5, <2>6 DEF PortTypeOK
  <1>2. PowerNoticed'
    BY DEF PortTypeOK, PowerNoticed, Latch, MuicStep, MuicRemove, MuicProbe,
      MuicProbed, MuicPollSame, MuicPollEdge, MuicPollSet
  <1>3. OverloadNoticed'
    BY DEF PortTypeOK, OverloadNoticed, Latch, Overdrawn, MuicStep, MuicRemove,
      MuicProbe, MuicProbed, MuicPollSame, MuicPollEdge, MuicPollSet
  <1>4. SwitchesKnown'
    BY DEF PortTypeOK, SwitchesKnown, SetPath, Rearm, MuicStep, MuicRemove,
      MuicProbe, MuicProbed, MuicPollSame, MuicPollEdge, MuicPollSet
  <1>5. LimitNotWrapped' /\ LimitRead'
    BY DEF PortTypeOK, LimitNotWrapped, LimitRead, Overdrawn, MuicStep,
      MuicRemove, MuicProbe, MuicProbed, MuicPollSame, MuicPollEdge, MuicPollSet
  <1>6. QED
    BY <1>1, <1>2, <1>3, <1>4, <1>5

\* The charger driver comes and goes.
LEMMA ChargerInv ==
    ASSUME PortInv,
           \/ ChargerRegister \/ ChargerInitialize
           \/ RequestChgin \/ RequestAicl
           \/ ChargerBind \/ FreeAicl \/ ChargerUnbind
    PROVE  PortInv'
  <1> USE CodeIs DEF PortInv, NothingMissed, plug, muicVars, aicl, chgVars
  <1>1. PortTypeOK'
    <2>1. /\ vbus' \in BOOLEAN /\ last' \in BOOLEAN /\ refused' \in BOOLEAN
          /\ gave_up' \in BOOLEAN /\ dropped' \in BOOLEAN
          /\ work' \in BOOLEAN /\ online' \in BOOLEAN
      BY DEF PortTypeOK, Rearm, SetPath, Latch, Charger, ChargerRegister,
        ChargerInitialize, RequestChgin, RequestAicl, ChargerBind, FreeAicl,
        ChargerUnbind
    <2>2. /\ source' \in MinSource .. Top
          /\ limit' \in Codes /\ regval' \in Codes
          /\ writes' \in 0 .. MaxWrites
      BY PortAssumption DEF PortTypeOK, Rearm, SetPath, Latch, Charger,
        ChargerRegister, ChargerInitialize, RequestChgin, RequestAicl,
        ChargerBind, FreeAicl, ChargerUnbind
    <2>3. /\ com' \in {"usb", "open"}
          /\ muic' \in {"unbound", "probe", "idle", "set", "stopped"}
          /\ chg' \in Charger
          /\ thread' \in {"idle", "check", "read", "write"}
          /\ chg' \notin {"requested", "bound"} => thread' = "idle"
          /\ chg' \in {"unbound", "registered", "init"} => ~work'
          /\ thread' # "write" => regval' = 0
      BY DEF PortTypeOK, Rearm, SetPath, Latch, Charger, ChargerRegister,
        ChargerInitialize, RequestChgin, RequestAicl, ChargerBind, FreeAicl,
        ChargerUnbind
    <2>4. latched' \subseteq {"chgin", "aicl"}
      BY DEF PortTypeOK, Rearm, SetPath, Latch, Charger, ChargerRegister,
        ChargerInitialize, RequestChgin, RequestAicl, ChargerBind, FreeAicl,
        ChargerUnbind
    <2>5. QED
      BY <2>1, <2>2, <2>3, <2>4 DEF PortTypeOK
  <1>2. PowerNoticed'
    BY DEF PortTypeOK, PowerNoticed, Latch, Charger, ChargerRegister,
      ChargerInitialize, RequestChgin, RequestAicl, ChargerBind, FreeAicl,
      ChargerUnbind
  <1>3. OverloadNoticed'
    BY DEF PortTypeOK, OverloadNoticed, Latch, Overdrawn, Charger,
      ChargerRegister, ChargerInitialize, RequestChgin, RequestAicl,
      ChargerBind, FreeAicl, ChargerUnbind
  <1>4. SwitchesKnown'
    BY DEF PortTypeOK, SwitchesKnown, SetPath, Rearm, Charger, ChargerRegister,
      ChargerInitialize, RequestChgin, RequestAicl, ChargerBind, FreeAicl,
      ChargerUnbind
  <1>5. LimitNotWrapped' /\ LimitRead'
    BY DEF PortTypeOK, LimitNotWrapped, LimitRead, Overdrawn, Charger,
      ChargerRegister, ChargerInitialize, RequestChgin, RequestAicl,
      ChargerBind, FreeAicl, ChargerUnbind
  <1>6. QED
    BY <1>1, <1>2, <1>3, <1>4, <1>5

\* Userspace sets the limit, at any moment.
LEMMA LimitSetInv ==
    ASSUME PortInv, NEW code \in Codes, LimitSet(code)
    PROVE  PortInv'
  <1> USE CodeIs DEF PortInv, NothingMissed, plug, muicVars, aicl, chgVars
  <1>1. PortTypeOK'
    <2>1. /\ vbus' \in BOOLEAN /\ last' \in BOOLEAN /\ refused' \in BOOLEAN
          /\ gave_up' \in BOOLEAN /\ dropped' \in BOOLEAN
          /\ work' \in BOOLEAN /\ online' \in BOOLEAN
      BY DEF PortTypeOK, Rearm, SetPath, Latch, LimitSet
    <2>2. /\ source' \in MinSource .. Top
          /\ limit' \in Codes /\ regval' \in Codes
          /\ writes' \in 0 .. MaxWrites
      BY PortAssumption DEF PortTypeOK, Rearm, SetPath, Latch, LimitSet
    <2>3. /\ com' \in {"usb", "open"}
          /\ muic' \in {"unbound", "probe", "idle", "set", "stopped"}
          /\ chg' \in Charger
          /\ thread' \in {"idle", "check", "read", "write"}
          /\ chg' \notin {"requested", "bound"} => thread' = "idle"
          /\ chg' \in {"unbound", "registered", "init"} => ~work'
          /\ thread' # "write" => regval' = 0
      BY DEF PortTypeOK, Charger, Rearm, SetPath, Latch, LimitSet
    <2>4. latched' \subseteq {"chgin", "aicl"}
      BY DEF PortTypeOK, Rearm, SetPath, Latch, LimitSet
    <2>5. QED
      BY <2>1, <2>2, <2>3, <2>4 DEF PortTypeOK
  <1>2. PowerNoticed'
    BY DEF PortTypeOK, PowerNoticed, Latch, LimitSet
  <1>3. OverloadNoticed'
    BY DEF PortTypeOK, OverloadNoticed, Latch, Overdrawn, LimitSet
  <1>4. SwitchesKnown'
    BY DEF PortTypeOK, SwitchesKnown, SetPath, Rearm, LimitSet
  <1>5. LimitNotWrapped' /\ LimitRead'
    BY DEF PortTypeOK, LimitNotWrapped, LimitRead, Overdrawn, LimitSet
  <1>6. QED
    BY <1>1, <1>2, <1>3, <1>4, <1>5

\* The interrupt thread and the work of the charger.
LEMMA ThreadInv ==
    ASSUME PortInv, Thread \/ AiclFails \/ ChginWork
    PROVE  PortInv'
  <1> USE CodeIs DEF PortInv, NothingMissed, plug, muicVars, aicl, chgVars
  <1>1. PortTypeOK'
    <2>1. /\ vbus' \in BOOLEAN /\ last' \in BOOLEAN /\ refused' \in BOOLEAN
          /\ gave_up' \in BOOLEAN /\ dropped' \in BOOLEAN
          /\ work' \in BOOLEAN /\ online' \in BOOLEAN
      BY DEF PortTypeOK, Rearm, SetPath, Latch, Thread, AiclFails, ChginWork,
        ThreadRun, Unmasked, Dropped, AiclCheck, AiclRead, AiclWrite
    <2>2. /\ source' \in MinSource .. Top
          /\ limit' \in Codes /\ regval' \in Codes
          /\ writes' \in 0 .. MaxWrites
      BY PortAssumption DEF PortTypeOK, Rearm, SetPath, Latch, Thread,
        AiclFails, ChginWork, ThreadRun, Unmasked, Dropped, AiclCheck, AiclRead,
        AiclWrite
    <2>3. /\ com' \in {"usb", "open"}
          /\ muic' \in {"unbound", "probe", "idle", "set", "stopped"}
          /\ chg' \in Charger
          /\ thread' \in {"idle", "check", "read", "write"}
          /\ chg' \notin {"requested", "bound"} => thread' = "idle"
          /\ chg' \in {"unbound", "registered", "init"} => ~work'
          /\ thread' # "write" => regval' = 0
      BY DEF PortTypeOK, Rearm, SetPath, Latch, Thread, AiclFails, ChginWork,
        ThreadRun, Unmasked, Dropped, AiclCheck, AiclRead, AiclWrite
    <2>4. latched' \subseteq {"chgin", "aicl"}
      BY DEF PortTypeOK, Rearm, SetPath, Latch, Thread, AiclFails, ChginWork,
        ThreadRun, Unmasked, Dropped, AiclCheck, AiclRead, AiclWrite
    <2>5. QED
      BY <2>1, <2>2, <2>3, <2>4 DEF PortTypeOK
  <1>2. PowerNoticed'
    BY DEF PortTypeOK, PowerNoticed, Latch, Thread, AiclFails, ChginWork,
      ThreadRun, Unmasked, Dropped, AiclCheck, AiclRead, AiclWrite
  <1>3. OverloadNoticed'
    BY DEF PortTypeOK, OverloadNoticed, Latch, Overdrawn, Thread, AiclFails,
      ChginWork, ThreadRun, Unmasked, Dropped, AiclCheck, AiclRead, AiclWrite
  <1>4. SwitchesKnown'
    BY DEF PortTypeOK, SwitchesKnown, SetPath, Rearm, Thread, AiclFails,
      ChginWork, ThreadRun, Unmasked, Dropped, AiclCheck, AiclRead, AiclWrite
  <1>5. LimitNotWrapped' /\ LimitRead'
    <2> SUFFICES ASSUME 0 < Low, Low <= MinSource
                 PROVE  /\ Low <= limit' + 1
                        /\ thread' = "read" => Low <= limit'
                        /\ thread' = "write" => Low <= regval'
      BY DEF LimitNotWrapped, LimitRead
    <2>1. /\ limit \in Nat /\ regval \in Codes /\ source \in Nat
          /\ MinSource <= source /\ Low <= limit + 1
          /\ thread = "read" => Low <= limit
          /\ thread = "write" => Low <= regval
      BY PortAssumption DEF PortTypeOK, Codes, LimitNotWrapped, LimitRead
    <2>2. CASE ThreadRun
      BY <2>1, <2>2 DEF ThreadRun
    <2>3. CASE AiclCheck
      <3>1. Overdrawn(vbus, source, limit) => Low <= limit
        BY <2>1 DEF Overdrawn
      <3>2. QED
        BY <2>1, <2>3, <3>1 DEF AiclCheck
    <2>4. CASE AiclRead
      BY <2>1, <2>4 DEF AiclRead
    <2>5. CASE AiclWrite
      <3>1. Low <= OneLess(regval) + 1
        BY <2>1, <2>5 DEF AiclWrite
      <3>2. QED
        BY <2>1, <2>5, <3>1 DEF AiclWrite
    <2>6. CASE AiclFails
      BY <2>1, <2>6 DEF AiclFails
    <2>7. CASE ChginWork
      BY <2>1, <2>7 DEF ChginWork
    <2>8. QED
      BY <2>2, <2>3, <2>4, <2>5, <2>6, <2>7 DEF Thread
  <1>6. QED
    BY <1>1, <1>2, <1>3, <1>4, <1>5

\* The USB port's variables keep their types, and nothing that happens there is
\* missed, for all limits, strengths of sources and orders of the steps.
THEOREM PortInductive == PortSpec => []PortInv
<1>1. PortInit => PortInv
  BY PortInitInv DEF PortInv
<1>2. ASSUME PortInv, [PortNext]_portVars
      PROVE  PortInv'
  <2>1. CASE UNCHANGED portVars
    BY <1>2, <2>1
    DEF portVars, PortInv, PortTypeOK, NothingMissed, PowerNoticed,
        OverloadNoticed, SwitchesKnown, LimitNotWrapped, LimitRead
  <2>2. QED
    BY <1>2, <2>1, PlugInv, MuicInv, ChargerInv, LimitSetInv,
      ThreadInv DEF PortNext
<1> QED
  BY <1>1, <1>2, PTL DEF PortSpec

\* Every variable of the port keeps its type: no thread and no work of a charger
\* driver that is not bound is left behind.
THEOREM PortTypeCorrect == PortSpec => []PortTypeOK
<1>1. PortInv => PortTypeOK
  BY DEF PortInv
<1> QED
  BY <1>1, PortInductive, PTL

\* A change of power that userspace has not read, and a source that cannot bear
\* the limit, are always latched or being dealt with; a poll that takes the
\* cable for settled is right; and the limit never wraps.
THEOREM NothingIsMissed == PortSpec => []NothingMissed
<1>1. PortInv => NothingMissed
  BY DEF PortInv
<1> QED
  BY <1>1, PortInductive, PTL
=============================================================================
