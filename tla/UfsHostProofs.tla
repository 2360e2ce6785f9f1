---------------------------- MODULE UfsHostProofs ----------------------------
(***************************************************************************)
(* That a request in the doorbell has its own nexus type, for any number   *)
(* of slots; when an access to the PHY can lose its clock; and that every  *)
(* link startup finds what it needs.                                       *)
(***************************************************************************)
EXTENDS UfsHost, TLAPS

\* Of the slots at most one is being queued, and what it read of the nexus
\* types is what they still are: the core's outstanding_lock.
NexusInv ==
    /\ \A s, t \in queuing : s = t
    /\ \A s \in queuing : type[s] = nexus /\ busy[s] = "free"
    /\ NexusRight

\* Where the PHY may be isolated.
Isolated == {"unbound", "clocks_off", "suspended", "resume", "broken",
             "panicked"}

\* Where the interrupt may be making its dump.
Dumping == {"pmc", "post_pmc", "active", "h8_enter", "suspend", "clocks_off"}

\* The core accesses the PHY only while it calibrates or dumps, with the PHY
\* out of isolation, and the interrupt only while it dumps.
PmaInv ==
    /\ at \notin Isolated => phy
    /\ isr = "dump" => at \in Dumping
    /\ acc["isr"] # "out" => isr = "dump"
    /\ acc["core"] # "out" => phy /\ at \in InPma \cup {"panicked"}

-----------------------------------------------------------------------------
\* Suspend, unbind and recovery wait for the requests; a panic ends them.
LEMMA NextType == TypeOK /\ [Next]_vars => TypeOK'
<1> SUFFICES ASSUME TypeOK, [Next]_vars PROVE TypeOK'
  OBVIOUS
<1> USE UfsAssumption
    DEF TypeOK, Places, InPma, Actors, power, requests, pma
<1>1. CASE Bind
  BY <1>1 DEF Bind
<1>2. CASE DeviceReset
  BY <1>2 DEF DeviceReset, HwReset
<1>3. CASE HostReset
  <2>1. faults' \in 0 .. MaxFaults
    BY <1>3 DEF HostReset, Works
  <2>2. /\ nexus' \subseteq Slots /\ rst_n' \in BOOLEAN
        /\ flash' \in {"stale", "reset", "fresh", "linked"}
    BY <1>3 DEF HostReset, HwReset
  <2>3. /\ at' = "pre_link" /\ cal' = {}
        /\ UNCHANGED <<vcc, phy, stop, lanes, busy, queuing, type, acc, saved,
                       isr>>
    BY <1>3 DEF HostReset
  <2>4. queuing = {} /\ \A s \in Slots : busy[s] = "free"
    BY <1>3 DEF HostReset
  <2> QED
    BY <2>1, <2>2, <2>3, <2>4
<1>4. CASE PreLink
  BY <1>4 DEF PreLink, Works
<1>5. CASE CalLink
  BY <1>5 DEF CalLink, PmaOver, Calibrate
<1>6. CASE Started
  BY <1>6 DEF Started
<1>7. CASE StartupFails
  BY <1>7 DEF StartupFails, Works
<1>8. CASE Pmc
  BY <1>8 DEF Pmc, PmaOver, Calibrate
<1>9. CASE PostPmc
  BY <1>9 DEF PostPmc, PmaOver
<1>10. CASE Fatal
  BY <1>10 DEF Fatal, Works
<1>11. CASE FatalPanics
  BY <1>11 DEF FatalPanics, PmaOver
<1>12. CASE FatalGoesOn
  BY <1>12 DEF FatalGoesOn, PmaOver
<1>13. CASE Recover
  BY <1>13 DEF Recover
<1>14. CASE Reboot
  BY <1>14 DEF Reboot
<1>15. CASE Sleep
  BY <1>15 DEF Sleep, Quiet
<1>16. CASE H8Enter
  BY <1>16 DEF H8Enter, PmaOver, Calibrate
<1>17. CASE Suspend
  BY <1>17 DEF Suspend
<1>18. CASE ClocksOff
  BY <1>18 DEF ClocksOff
<1>19. CASE ClocksOn
  BY <1>19 DEF ClocksOn
<1>20. CASE Resume
  BY <1>20 DEF Resume
<1>21. CASE H8Exit
  BY <1>21 DEF H8Exit, PmaOver
<1>22. CASE Unbind
  BY <1>22 DEF Unbind, Quiet
<1>23. CASE Exit
  BY <1>23 DEF Exit, PmaOver
<1>24. ASSUME NEW x \in Actors, PmaRead(x)
       PROVE  TypeOK'
  BY <1>24 DEF PmaRead
<1>25. ASSUME NEW x \in Actors, PmaOpen(x)
       PROVE  TypeOK'
  BY <1>25 DEF PmaOpen
<1>26. ASSUME NEW x \in Actors, PmaClose(x)
       PROVE  TypeOK'
  BY <1>26 DEF PmaClose
<1>27. ASSUME NEW s \in Slots, Queue(s)
       PROVE  TypeOK'
  BY <1>27 DEF Queue
<1>28. ASSUME NEW s \in Slots, Complete(s)
       PROVE  TypeOK'
  BY <1>28 DEF Complete
<1>29. ASSUME NEW s \in Slots, NEW kind \in {"nexus", "other"}, Ring(s, kind)
       PROVE  TypeOK'
  BY <1>29 DEF Ring
<1>30. CASE UNCHANGED vars
  BY <1>30 DEF vars
<1>31. CASE BindFails
  BY <1>31 DEF BindFails, Works
<1>32. CASE LinkFailed
  BY <1>32 DEF LinkFailed, PmaOver
<1> QED
  BY <1>1, <1>2, <1>3, <1>4, <1>5, <1>6, <1>7, <1>8, <1>9, <1>10, <1>11,
     <1>12, <1>13, <1>14, <1>15, <1>16, <1>17, <1>18, <1>19, <1>20, <1>21,
     <1>22, <1>23, <1>24, <1>25, <1>26, <1>27, <1>28, <1>29, <1>30,
     <1>31, <1>32
  DEF Next, Core, Isr, Actors

\* Every variable of the flash host keeps its type, and no request is in the
\* doorbell outside normal operation.
THEOREM TypeCorrect == Spec => []TypeOK
<1>1. Init => TypeOK
  BY UfsAssumption DEF Init, TypeOK, Places, InPma, Actors
<1>2. TypeOK /\ [Next]_vars => TypeOK'
  BY NextType
<1> QED
  BY <1>1, <1>2, PTL DEF Spec

-----------------------------------------------------------------------------
\* A reset of the host rewrites the types only when nothing is queued.
LEMMA NextNexus == TypeOK /\ NexusInv /\ [Next]_vars => NexusInv'
<1> SUFFICES ASSUME TypeOK, NexusInv, [Next]_vars PROVE NexusInv'
  OBVIOUS
<1> USE UfsAssumption
    DEF TypeOK, NexusInv, NexusRight, power, requests, pma
<1>1. CASE Bind
  BY <1>1 DEF Bind
<1>2. CASE DeviceReset
  BY <1>2 DEF DeviceReset, HwReset
<1>3. CASE HostReset
  BY <1>3 DEF HostReset, HwReset, Works
<1>4. CASE PreLink
  BY <1>4 DEF PreLink, Works
<1>5. CASE CalLink
  BY <1>5 DEF CalLink, PmaOver, Calibrate
<1>6. CASE Started
  BY <1>6 DEF Started
<1>7. CASE StartupFails
  BY <1>7 DEF StartupFails, Works
<1>8. CASE Pmc
  BY <1>8 DEF Pmc, PmaOver, Calibrate
<1>9. CASE PostPmc
  BY <1>9 DEF PostPmc, PmaOver
<1>10. CASE Fatal
  BY <1>10 DEF Fatal, Works
<1>11. CASE FatalPanics
  BY <1>11 DEF FatalPanics, PmaOver
<1>12. CASE FatalGoesOn
  BY <1>12 DEF FatalGoesOn, PmaOver
<1>13. CASE Recover
  BY <1>13 DEF Recover
<1>14. CASE Reboot
  BY <1>14 DEF Reboot
<1>15. CASE Sleep
  BY <1>15 DEF Sleep, Quiet
<1>16. CASE H8Enter
  BY <1>16 DEF H8Enter, PmaOver, Calibrate
<1>17. CASE Suspend
  BY <1>17 DEF Suspend
<1>18. CASE ClocksOff
  BY <1>18 DEF ClocksOff
<1>19. CASE ClocksOn
  BY <1>19 DEF ClocksOn
<1>20. CASE Resume
  BY <1>20 DEF Resume
<1>21. CASE H8Exit
  BY <1>21 DEF H8Exit, PmaOver
<1>22. CASE Unbind
  BY <1>22 DEF Unbind, Quiet
<1>23. CASE Exit
  BY <1>23 DEF Exit, PmaOver
<1>24. ASSUME NEW x \in Actors, PmaRead(x)
       PROVE  NexusInv'
  BY <1>24 DEF PmaRead
<1>25. ASSUME NEW x \in Actors, PmaOpen(x)
       PROVE  NexusInv'
  BY <1>25 DEF PmaOpen
<1>26. ASSUME NEW x \in Actors, PmaClose(x)
       PROVE  NexusInv'
  BY <1>26 DEF PmaClose
<1>27. ASSUME NEW s \in Slots, Queue(s)
       PROVE  NexusInv'
  BY <1>27 DEF Queue
<1>28. ASSUME NEW s \in Slots, Complete(s)
       PROVE  NexusInv'
  BY <1>28 DEF Complete
<1>29. ASSUME NEW s \in Slots, NEW kind \in {"nexus", "other"}, Ring(s, kind)
       PROVE  NexusInv'
  BY <1>29 DEF Ring
<1>30. CASE UNCHANGED vars
  BY <1>30 DEF vars
<1>31. CASE BindFails
  BY <1>31 DEF BindFails, Works
<1>32. CASE LinkFailed
  BY <1>32 DEF LinkFailed, PmaOver
<1> QED
  BY <1>1, <1>2, <1>3, <1>4, <1>5, <1>6, <1>7, <1>8, <1>9, <1>10, <1>11,
     <1>12, <1>13, <1>14, <1>15, <1>16, <1>17, <1>18, <1>19, <1>20, <1>21,
     <1>22, <1>23, <1>24, <1>25, <1>26, <1>27, <1>28, <1>29, <1>30,
     <1>31, <1>32
  DEF Next, Core, Isr, Actors

\* A request in the doorbell has its own nexus type, whatever is queued at the
\* same time, under a lock that the core takes, and whatever was in the slot
\* or the registers before, for any number of slots.
THEOREM NexusTypes == Spec => []NexusRight
<1>1. Init => TypeOK /\ NexusInv
  BY UfsAssumption
  DEF Init, TypeOK, Places, InPma, Actors, NexusInv, NexusRight
<1>2. TypeOK /\ NexusInv /\ [Next]_vars => (TypeOK /\ NexusInv)'
  BY NextType, NextNexus
<1>3. NexusInv => NexusRight
  BY DEF NexusInv
<1> QED
  BY <1>1, <1>2, <1>3, PTL DEF Spec

-----------------------------------------------------------------------------
\* The PHY is isolated only by suspend and exit, and by neither under an access
\* of the core.
LEMMA NextPma == TypeOK /\ PmaInv /\ [Next]_vars => PmaInv'
<1> SUFFICES ASSUME TypeOK, PmaInv, [Next]_vars PROVE PmaInv'
  OBVIOUS
<1> USE UfsAssumption
    DEF TypeOK, Places, InPma, Actors, PmaInv, Isolated, Dumping, power,
        requests, pma
<1>1. CASE Bind
  BY <1>1 DEF Bind
<1>2. CASE DeviceReset
  BY <1>2 DEF DeviceReset, HwReset
<1>3. CASE HostReset
  BY <1>3 DEF HostReset, HwReset, Works
<1>4. CASE PreLink
  BY <1>4 DEF PreLink, Works
<1>5. CASE CalLink
  BY <1>5 DEF CalLink, PmaOver, Calibrate
<1>6. CASE Started
  BY <1>6 DEF Started
<1>7. CASE StartupFails
  BY <1>7 DEF StartupFails, Works
<1>8. CASE Pmc
  BY <1>8 DEF Pmc, PmaOver, Calibrate
<1>9. CASE PostPmc
  BY <1>9 DEF PostPmc, PmaOver
<1>10. CASE Fatal
  BY <1>10 DEF Fatal, Works
<1>11. CASE FatalPanics
  BY <1>11 DEF FatalPanics, PmaOver
<1>12. CASE FatalGoesOn
  BY <1>12 DEF FatalGoesOn, PmaOver
<1>13. CASE Recover
  BY <1>13 DEF Recover
<1>14. CASE Reboot
  BY <1>14 DEF Reboot
<1>15. CASE Sleep
  BY <1>15 DEF Sleep, Quiet
<1>16. CASE H8Enter
  BY <1>16 DEF H8Enter, PmaOver, Calibrate
<1>17. CASE Suspend
  BY <1>17 DEF Suspend
<1>18. CASE ClocksOff
  BY <1>18 DEF ClocksOff
<1>19. CASE ClocksOn
  BY <1>19 DEF ClocksOn
<1>20. CASE Resume
  BY <1>20 DEF Resume
<1>21. CASE H8Exit
  BY <1>21 DEF H8Exit, PmaOver
<1>22. CASE Unbind
  BY <1>22 DEF Unbind, Quiet
<1>23. CASE Exit
  BY <1>23 DEF Exit, PmaOver
<1>24. ASSUME NEW x \in Actors, PmaRead(x)
       PROVE  PmaInv'
  BY <1>24 DEF PmaRead
<1>25. ASSUME NEW x \in Actors, PmaOpen(x)
       PROVE  PmaInv'
  BY <1>25 DEF PmaOpen
<1>26. ASSUME NEW x \in Actors, PmaClose(x)
       PROVE  PmaInv'
  BY <1>26 DEF PmaClose
<1>27. ASSUME NEW s \in Slots, Queue(s)
       PROVE  PmaInv'
  BY <1>27 DEF Queue
<1>28. ASSUME NEW s \in Slots, Complete(s)
       PROVE  PmaInv'
  BY <1>28 DEF Complete
<1>29. ASSUME NEW s \in Slots, NEW kind \in {"nexus", "other"}, Ring(s, kind)
       PROVE  PmaInv'
  BY <1>29 DEF Ring
<1>30. CASE UNCHANGED vars
  BY <1>30 DEF vars
<1>31. CASE BindFails
  BY <1>31 DEF BindFails, Works
<1>32. CASE LinkFailed
  BY <1>32 DEF LinkFailed, PmaOver
<1> QED
  BY <1>1, <1>2, <1>3, <1>4, <1>5, <1>6, <1>7, <1>8, <1>9, <1>10, <1>11,
     <1>12, <1>13, <1>14, <1>15, <1>16, <1>17, <1>18, <1>19, <1>20, <1>21,
     <1>22, <1>23, <1>24, <1>25, <1>26, <1>27, <1>28, <1>29, <1>30,
     <1>31, <1>32
  DEF Next, Core, Isr, Actors

Kept == \A x \in Actors : Clocked(x) /\ ~Clocked(x)' =>
    /\ isr = "dump"
    /\ at \in {"pmc", "post_pmc", "h8_enter", "suspend", "clocks_off"}

\* Only PmaClose stops the clock, of an access that is under way at the same
\* time, and only Suspend isolates the PHY of one.
LEMMA StepKept == TypeOK /\ PmaInv /\ [Next]_vars => Kept
<1> SUFFICES ASSUME TypeOK, PmaInv, [Next]_vars PROVE Kept
  OBVIOUS
<1> USE UfsAssumption
    DEF TypeOK, Places, InPma, Actors, PmaInv, Isolated, Dumping, Kept, Clocked,
        power, requests, pma
<1>1. CASE Bind
  BY <1>1 DEF Bind
<1>2. CASE DeviceReset
  BY <1>2 DEF DeviceReset, HwReset
<1>3. CASE HostReset
  BY <1>3 DEF HostReset, HwReset, Works
<1>4. CASE PreLink
  BY <1>4 DEF PreLink, Works
<1>5. CASE CalLink
  BY <1>5 DEF CalLink, PmaOver, Calibrate
<1>6. CASE Started
  BY <1>6 DEF Started
<1>7. CASE StartupFails
  BY <1>7 DEF StartupFails, Works
<1>8. CASE Pmc
  BY <1>8 DEF Pmc, PmaOver, Calibrate
<1>9. CASE PostPmc
  BY <1>9 DEF PostPmc, PmaOver
<1>10. CASE Fatal
  BY <1>10 DEF Fatal, Works
<1>11. CASE FatalPanics
  BY <1>11 DEF FatalPanics, PmaOver
<1>12. CASE FatalGoesOn
  BY <1>12 DEF FatalGoesOn, PmaOver
<1>13. CASE Recover
  BY <1>13 DEF Recover
<1>14. CASE Reboot
  BY <1>14 DEF Reboot
<1>15. CASE Sleep
  BY <1>15 DEF Sleep, Quiet
<1>16. CASE H8Enter
  BY <1>16 DEF H8Enter, PmaOver, Calibrate
<1>17. CASE Suspend
  BY <1>17 DEF Suspend
<1>18. CASE ClocksOff
  BY <1>18 DEF ClocksOff
<1>19. CASE ClocksOn
  BY <1>19 DEF ClocksOn
<1>20. CASE Resume
  BY <1>20 DEF Resume
<1>21. CASE H8Exit
  BY <1>21 DEF H8Exit, PmaOver
<1>22. CASE Unbind
  BY <1>22 DEF Unbind, Quiet
<1>23. CASE Exit
  BY <1>23 DEF Exit, PmaOver
<1>24. ASSUME NEW x \in Actors, PmaRead(x)
       PROVE  Kept
  BY <1>24 DEF PmaRead
<1>25. ASSUME NEW x \in Actors, PmaOpen(x)
       PROVE  Kept
  BY <1>25 DEF PmaOpen
<1>26. ASSUME NEW x \in Actors, PmaClose(x)
       PROVE  Kept
  BY <1>26 DEF PmaClose
<1>27. ASSUME NEW s \in Slots, Queue(s)
       PROVE  Kept
  BY <1>27 DEF Queue
<1>28. ASSUME NEW s \in Slots, Complete(s)
       PROVE  Kept
  BY <1>28 DEF Complete
<1>29. ASSUME NEW s \in Slots, NEW kind \in {"nexus", "other"}, Ring(s, kind)
       PROVE  Kept
  BY <1>29 DEF Ring
<1>30. CASE UNCHANGED vars
  BY <1>30 DEF vars
<1>31. CASE BindFails
  BY <1>31 DEF BindFails, Works
<1>32. CASE LinkFailed
  BY <1>32 DEF LinkFailed, PmaOver
<1> QED
  BY <1>1, <1>2, <1>3, <1>4, <1>5, <1>6, <1>7, <1>8, <1>9, <1>10, <1>11,
     <1>12, <1>13, <1>14, <1>15, <1>16, <1>17, <1>18, <1>19, <1>20, <1>21,
     <1>22, <1>23, <1>24, <1>25, <1>26, <1>27, <1>28, <1>29, <1>30,
     <1>31, <1>32
  DEF Next, Core, Isr, Actors

\* "Ungate APB for each access": through every link startup, suspend, resume,
\* recovery and unbind an access to the PHY keeps its APB clock and its PHY from
\* the first to the last, except that a fatal error's dump and a calibration of
\* the link that is up stop each other's clock, and that a suspend isolates the
\* PHY under a dump.
THEOREM PmaSafe == Spec => PmaClocked
<1>1. Init => TypeOK /\ PmaInv
  BY UfsAssumption
  DEF Init, TypeOK, Places, InPma, Actors, PmaInv, Isolated, Dumping
<1>2. TypeOK /\ PmaInv /\ [Next]_vars => (TypeOK /\ PmaInv)'
  BY NextType, NextPma
<1>3. TypeOK /\ PmaInv /\ [Next]_vars => [Kept]_vars
  BY StepKept
<1> QED
  BY <1>1, <1>2, <1>3, PTL DEF Spec, PmaClocked, Kept

-----------------------------------------------------------------------------
(* Every link startup is prepared *)

\* While the link's clocks run, and while the PHY is out of isolation.
LinkClocked == {"cal_link", "startup", "link_fail", "pmc", "post_pmc",
                "active", "h8_enter", "suspend", "clocks_off", "resume",
                "h8_exit", "h8_failed", "exit", "panicked"}
Powering == {"device_reset", "enable", "pre_link", "cal_link", "startup",
             "link_fail", "pmc", "post_pmc", "active"}

\* While a fatal error is dumped, or waits for the core's error handler.
Fatally == {"pmc", "post_pmc", "active", "h8_enter", "suspend", "clocks_off",
            "suspended", "resume", "h8_exit", "h8_failed", "broken", "panicked"}

\* What each hook has set up stays until the startup: the clocks past accesses
\* to the PHY that write back what they read, the flash past its two resets, the
\* calibration past the host's.
ReadyInv ==
    /\ at \in LinkClocked => "link" \notin stop
    /\ at \in Powering => phy
    /\ at \in {"enable", "pre_link", "cal_link", "startup"} => rst_n
    /\ vcc /\ at \in {"enable", "pre_link", "cal_link", "startup"} =>
           flash = "fresh"
    /\ at = "startup" /\ lanes # 0 => "link" \in cal
    /\ isr # "idle" => at \in Fatally
    /\ isr = "dump" => at \in Dumping
    /\ acc["isr"] # "out" => isr = "dump"
    /\ acc["core"] # "out" => at \in InPma \cup {"panicked"}
    /\ \A x \in Actors : acc[x] \in {"read", "open"} => "link" \notin saved[x]

\* Each hook keeps what the ones before it have set up.
LEMMA NextReady == TypeOK /\ ReadyInv /\ [Next]_vars => ReadyInv'
<1> SUFFICES ASSUME TypeOK, ReadyInv, [Next]_vars PROVE ReadyInv'
  OBVIOUS
<1> USE UfsAssumption
    DEF TypeOK, Places, InPma, Actors, ReadyInv, LinkClocked, Powering, Fatally,
        Dumping, power,
        requests, pma
<1>1. CASE Bind
  BY <1>1 DEF Bind
<1>2. CASE DeviceReset
  BY <1>2 DEF DeviceReset, HwReset
<1>3. CASE HostReset
  BY <1>3 DEF HostReset, HwReset, Works
<1>4. CASE PreLink
  BY <1>4 DEF PreLink, Works
<1>5. CASE CalLink
  BY <1>5 DEF CalLink, PmaOver, Calibrate
<1>6. CASE Started
  BY <1>6 DEF Started
<1>7. CASE StartupFails
  BY <1>7 DEF StartupFails, Works
<1>8. CASE Pmc
  BY <1>8 DEF Pmc, PmaOver, Calibrate
<1>9. CASE PostPmc
  BY <1>9 DEF PostPmc, PmaOver
<1>10. CASE Fatal
  BY <1>10 DEF Fatal, Works
<1>11. CASE FatalPanics
  BY <1>11 DEF FatalPanics, PmaOver
<1>12. CASE FatalGoesOn
  BY <1>12 DEF FatalGoesOn, PmaOver
<1>13. CASE Recover
  BY <1>13 DEF Recover
<1>14. CASE Reboot
  BY <1>14 DEF Reboot
<1>15. CASE Sleep
  BY <1>15 DEF Sleep, Quiet
<1>16. CASE H8Enter
  BY <1>16 DEF H8Enter, PmaOver, Calibrate
<1>17. CASE Suspend
  BY <1>17 DEF Suspend
<1>18. CASE ClocksOff
  BY <1>18 DEF ClocksOff
<1>19. CASE ClocksOn
  BY <1>19 DEF ClocksOn
<1>20. CASE Resume
  BY <1>20 DEF Resume
<1>21. CASE H8Exit
  BY <1>21 DEF H8Exit, PmaOver
<1>22. CASE Unbind
  BY <1>22 DEF Unbind, Quiet
<1>23. CASE Exit
  BY <1>23 DEF Exit, PmaOver
<1>24. ASSUME NEW x \in Actors, PmaRead(x)
       PROVE  ReadyInv'
  BY <1>24 DEF PmaRead
<1>25. ASSUME NEW x \in Actors, PmaOpen(x)
       PROVE  ReadyInv'
  BY <1>25 DEF PmaOpen
<1>26. ASSUME NEW x \in Actors, PmaClose(x)
       PROVE  ReadyInv'
  BY <1>26 DEF PmaClose
<1>27. ASSUME NEW s \in Slots, Queue(s)
       PROVE  ReadyInv'
  BY <1>27 DEF Queue
<1>28. ASSUME NEW s \in Slots, Complete(s)
       PROVE  ReadyInv'
  BY <1>28 DEF Complete
<1>29. ASSUME NEW s \in Slots, NEW kind \in {"nexus", "other"}, Ring(s, kind)
       PROVE  ReadyInv'
  BY <1>29 DEF Ring
<1>30. CASE UNCHANGED vars
  BY <1>30 DEF vars
<1>31. CASE BindFails
  BY <1>31 DEF BindFails, Works
<1>32. CASE LinkFailed
  BY <1>32 DEF LinkFailed, PmaOver
<1> QED
  BY <1>1, <1>2, <1>3, <1>4, <1>5, <1>6, <1>7, <1>8, <1>9, <1>10, <1>11,
     <1>12, <1>13, <1>14, <1>15, <1>16, <1>17, <1>18, <1>19, <1>20, <1>21,
     <1>22, <1>23, <1>24, <1>25, <1>26, <1>27, <1>28, <1>29, <1>30,
     <1>31, <1>32
  DEF Next, Core, Isr, Actors

\* Every link startup finds what it needs, whichever way the core came to it:
\* from the previous system's link, a fatal error, a resume with the flash in
\* reset, another bind or a startup that failed.  The exceptions: a controller
\* that did not tell its lanes, one of MaxFaults, and a VCC that did not come on
\* again when exynos_ufs_device_reset cycled it.
THEOREM EveryStartupPrepared ==
    Spec => [](at = "startup" => CanStart \/ lanes = 0 \/ ~vcc)
<1>1. Init => TypeOK /\ ReadyInv
  BY UfsAssumption
  DEF Init, TypeOK, Places, InPma, Actors, ReadyInv, LinkClocked, Powering,
      Fatally, Dumping
<1>2. TypeOK /\ ReadyInv /\ [Next]_vars => (TypeOK /\ ReadyInv)'
  BY NextType, NextReady
<1>3. ReadyInv => (at = "startup" => CanStart \/ lanes = 0 \/ ~vcc)
  BY DEF ReadyInv, LinkClocked, Powering, CanStart
<1> QED
  BY <1>1, <1>2, <1>3, PTL DEF Spec
=============================================================================
