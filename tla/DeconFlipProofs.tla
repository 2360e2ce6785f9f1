--------------------------- MODULE DeconFlipProofs --------------------------
(***************************************************************************)
(* That no buffer is handed back while it is scanned out, for any number   *)
(* of buffers, when the panel's TE edges come within the driver's waits;   *)
(* and that the panel is then lit when the display is on, dark when off.   *)
(***************************************************************************)
EXTENDS DeconFlip, TLAPS

\* The panel answers in time, DSIM was mapped and the black frame allocated at
\* probe, and nobody writes panel_dcs or panel_sleep while the panel is down.
InTime == TimelyTE /\ HaveDsim /\ HaveBlack /\ ~ParamsWhileOff

\* An update that is asked for is of address a, and ends the reading of any
\* of "from"; with none asked for, a is read.
Flipping(a, from) ==
    /\ queued = a
    /\ req => active \in from
    /\ ~req => active = a

NotBuffers == {Sboot, Black}

\* A pipe that is enabled, commit by commit: the buffer that is read is the
\* plane's, or the one it replaced, or not the compositor's at all.
EnabledData ==
    enabled =>
        /\ at = "idle" => Flipping(fb, NotBuffers)
        /\ at \in {"update", "blank"} => Flipping(old, NotBuffers)
        /\ at = "latch" => Flipping(fb, {old})
        /\ at = "event" => Flipping(fb, {})
        /\ at = "frame" => Flipping(Black, {old})
        /\ at \in {"display_off", "enter_sleep", "restore", "disabled"} =>
               ~req /\ active = Black

\* One that is not reads no buffer, and has no update pending.
DisabledData == ~enabled => ~req /\ active \in NotBuffers

\* Where a commit can be, with the pipe enabled and not.
Placed ==
    /\ at \in {"update", "latch", "event", "exit_sleep", "display_on",
               "enable"} => on /\ fb \in Buffers
    /\ at \in {"blank", "frame", "display_off", "enter_sleep", "restore",
               "disabled"} => ~on /\ enabled
    /\ at = "latch" => enabled
    /\ at \in {"exit_sleep", "display_on", "enable"} => ~enabled
    /\ at = "idle" => (enabled <=> on)

\* A panel is asleep only by EnterSleep, under parameters that ExitSleep finds
\* unchanged, and is awake again before the pipe is enabled.
Asleep ==
    /\ at = "enter_sleep" => panel_sleep
    /\ ~awake =>
           /\ panel_dcs /\ panel_sleep
           /\ at \in {"restore", "disabled"}
              \/ (~enabled /\ at \in {"idle", "update", "event", "exit_sleep"})

IInv == TypeOK /\ EnabledData /\ DisabledData /\ Placed /\ Asleep
-----------------------------------------------------------------------------
\* s9p_decon_probe leaves the pipe disabled, with the bootloader's buffer read.
LEMMA InitInv == Init => IInv
  BY DeconAssumption
  DEF Init, IInv, TypeOK, Places, EnabledData, DisabledData, Placed, Asleep,
      NotBuffers

\* No step of the panel, the interrupt, the compositor or the driver ends it.
LEMMA NextInv == InTime /\ IInv /\ [Next]_vars => IInv'
<1> SUFFICES ASSUME InTime, IInv, [Next]_vars PROVE IInv'
  OBVIOUS
<1> USE DeconAssumption
    DEF IInv, TypeOK, Places, EnabledData, DisabledData, Placed, Asleep,
        Flipping, NotBuffers
<1>1. CASE TE
  <2>1. TypeOK'
    BY <1>1 DEF TE, params, panel, commit
  <2>2. EnabledData'
    BY <1>1 DEF TE, params, panel, commit
  <2>3. DisabledData'
    BY <1>1 DEF TE, params, panel, commit
  <2>4. Placed'
    BY <1>1 DEF TE, params, panel, commit
  <2>5. Asleep'
    BY <1>1 DEF TE, params, panel, commit
  <2> QED
    BY <2>1, <2>2, <2>3, <2>4, <2>5
<1>2. CASE Irq
  <2>1. TypeOK'
    BY <1>2 DEF Irq, panel, params, commit
  <2>2. EnabledData'
    BY <1>2 DEF Irq, panel, params, commit
  <2>3. DisabledData'
    BY <1>2 DEF Irq, panel, params, commit
  <2>4. Placed'
    BY <1>2 DEF Irq, panel, params, commit
  <2>5. Asleep'
    BY <1>2 DEF Irq, panel, params, commit
  <2> QED
    BY <2>1, <2>2, <2>3, <2>4, <2>5
<1>3. CASE DisableVblank
  <2>1. TypeOK'
    BY <1>3 DEF DisableVblank, panel, params, commit
  <2>2. EnabledData'
    BY <1>3 DEF DisableVblank, panel, params, commit
  <2>3. DisabledData'
    BY <1>3 DEF DisableVblank, panel, params, commit
  <2>4. Placed'
    BY <1>3 DEF DisableVblank, panel, params, commit
  <2>5. Asleep'
    BY <1>3 DEF DisableVblank, panel, params, commit
  <2> QED
    BY <2>1, <2>2, <2>3, <2>4, <2>5
<1>4. ASSUME NEW dcs \in BOOLEAN, NEW sleep \in BOOLEAN, SetParams(dcs, sleep)
      PROVE  IInv'
  <2>1. at = "idle" /\ enabled /\ awake
    BY <1>4 DEF SetParams, InTime
  <2>2. panel_dcs' \in BOOLEAN /\ panel_sleep' \in BOOLEAN
    BY <1>4 DEF SetParams
  <2>3. UNCHANGED <<queued, req, active, start, irqOn, awake, lit, at, on, fb,
                    old, enabled, vblank, event>>
    BY <1>4 DEF SetParams, hw, panel, commit
  <2>4. TypeOK'
    BY <2>2, <2>3
  <2>5. EnabledData' /\ DisabledData' /\ Placed'
    BY <2>3
  <2>6. Asleep'
    BY <2>1, <2>3
  <2> QED
    BY <2>4, <2>5, <2>6
<1>5. ASSUME NEW b \in Buffers, Commit(b)
      PROVE  IInv'
  BY <1>5 DEF Commit, hw, panel, params
<1>6. ASSUME NEW keep \in BOOLEAN, Off(keep)
      PROVE  IInv'
  BY <1>6 DEF Off, hw, panel, params
<1>7. CASE Update
  <2>1. TypeOK'
    BY <1>7
    DEF Update, ProgramAddress, Idle, TimedOut, InTime, panel, params, commit
  <2>2. EnabledData'
    BY <1>7
    DEF Update, ProgramAddress, Idle, TimedOut, InTime, panel, params, commit
  <2>3. DisabledData'
    BY <1>7
    DEF Update, ProgramAddress, Idle, TimedOut, InTime, panel, params, commit
  <2>4. Placed'
    BY <1>7
    DEF Update, ProgramAddress, Idle, TimedOut, InTime, panel, params, commit
  <2>5. Asleep'
    BY <1>7
    DEF Update, ProgramAddress, Idle, TimedOut, InTime, panel, params, commit
  <2> QED
    BY <2>1, <2>2, <2>3, <2>4, <2>5
<1>8. CASE Latch
  BY <1>8 DEF Latch, Idle, TimedOut, InTime, hw, panel, params, commit
<1>9. CASE Event
  <2>1. TypeOK'
    BY <1>9 DEF Event, panel, params, commit
  <2>2. EnabledData'
    BY <1>9 DEF Event, panel, params, commit
  <2>3. DisabledData'
    BY <1>9 DEF Event, panel, params, commit
  <2>4. Placed'
    BY <1>9 DEF Event, panel, params, commit
  <2>5. Asleep'
    BY <1>9 DEF Event, panel, params, commit
  <2> QED
    BY <2>1, <2>2, <2>3, <2>4, <2>5
<1>10. CASE ExitSleep
  BY <1>10 DEF ExitSleep, Taken, InTime, hw, params, commit
<1>11. CASE DisplayOn
  BY <1>11 DEF DisplayOn, hw, params, commit
<1>12. CASE Enable
  <2>1. TypeOK'
    BY <1>12 DEF Enable, ProgramAddress, panel, params, commit
  <2>2. EnabledData'
    BY <1>12 DEF Enable, ProgramAddress, panel, params, commit
  <2>3. DisabledData'
    BY <1>12 DEF Enable, ProgramAddress, panel, params, commit
  <2>4. Placed'
    BY <1>12 DEF Enable, ProgramAddress, panel, params, commit
  <2>5. Asleep'
    BY <1>12 DEF Enable, ProgramAddress, panel, params, commit
  <2> QED
    BY <2>1, <2>2, <2>3, <2>4, <2>5
<1>13. CASE Blank
  BY <1>13
  DEF Blank, ProgramAddress, Idle, TimedOut, InTime, panel, params, commit
<1>14. CASE Frame
  BY <1>14 DEF Frame, Idle, TimedOut, InTime, hw, panel, params, commit
<1>15. CASE DisplayOff
  BY <1>15 DEF DisplayOff, Taken, InTime, hw, params, commit
<1>16. CASE EnterSleep
  <2>1. TypeOK'
    BY <1>16 DEF EnterSleep, Taken, InTime, hw, params, commit
  <2>2. EnabledData'
    BY <1>16 DEF EnterSleep, Taken, InTime, hw, params, commit
  <2>3. DisabledData'
    BY <1>16 DEF EnterSleep, Taken, InTime, hw, params, commit
  <2>4. Placed'
    BY <1>16 DEF EnterSleep, Taken, InTime, hw, params, commit
  <2>5. Asleep'
    BY <1>16 DEF EnterSleep, Taken, InTime, hw, params, commit
  <2> QED
    BY <2>1, <2>2, <2>3, <2>4, <2>5
<1>17. CASE Restore
  BY <1>17 DEF Restore, Idle, panel, params, commit
<1>18. CASE Disabled
  <2>1. TypeOK'
    BY <1>18 DEF Disabled, panel, params, commit
  <2>2. EnabledData'
    BY <1>18 DEF Disabled, panel, params, commit
  <2>3. DisabledData'
    BY <1>18 DEF Disabled, panel, params, commit
  <2>4. Placed'
    BY <1>18 DEF Disabled, panel, params, commit
  <2>5. Asleep'
    BY <1>18 DEF Disabled, panel, params, commit
  <2> QED
    BY <2>1, <2>2, <2>3, <2>4, <2>5
<1>19. CASE UNCHANGED vars
  BY <1>19 DEF vars
<1> QED
  BY <1>1, <1>2, <1>3, <1>4, <1>5, <1>6, <1>7, <1>8, <1>9, <1>10, <1>11,
     <1>12, <1>13, <1>14, <1>15, <1>16, <1>17, <1>18, <1>19
  DEF Next, Driver

\* A commit's buffer is let go of only once DECON reads another.
LEMMA InvHeld == IInv => ScannedNotDrawn
  BY DeconAssumption
  DEF IInv, TypeOK, Places, EnabledData, DisabledData, Placed, Flipping,
      NotBuffers, ScannedNotDrawn, Held

\* With TE edges in time, the compositor is never handed back a buffer that
\* DECON still reads: the latch s9p_decon_pipe_update waits for has come
\* before s9p_decon_pipe_update hands the event over.
THEOREM NoTear == ASSUME InTime PROVE Spec => []ScannedNotDrawn
<1>1. Init => IInv
  BY InitInv
<1>2. IInv /\ [Next]_vars => IInv'
  BY NextInv
<1>3. IInv => ScannedNotDrawn
  BY InvHeld
<1> QED
  BY <1>1, <1>2, <1>3, PTL DEF Spec

-----------------------------------------------------------------------------
(* Types, whatever the panel does *)

TypeInv == TypeOK /\ Placed

\* A step keeps the types: what is programmed is the plane's framebuffer, and
\* on the way to "latch" and "enable" the plane has one.
LEMMA NextType == TypeInv /\ [Next]_vars => TypeInv'
<1> SUFFICES ASSUME TypeInv, [Next]_vars PROVE TypeInv'
  OBVIOUS
<1> USE DEF TypeInv, TypeOK, Places, Placed, hw, panel, params, commit
<1>1. CASE TE
  BY <1>1 DEF TE
<1>2. CASE Irq
  BY <1>2 DEF Irq
<1>3. CASE DisableVblank
  BY <1>3 DEF DisableVblank
<1>4. ASSUME NEW dcs \in BOOLEAN, NEW sleep \in BOOLEAN, SetParams(dcs, sleep)
      PROVE  TypeInv'
  BY <1>4 DEF SetParams
<1>5. ASSUME NEW b \in Buffers, Commit(b)
      PROVE  TypeInv'
  BY <1>5 DEF Commit
<1>6. ASSUME NEW keep \in BOOLEAN, Off(keep)
      PROVE  TypeInv'
  BY <1>6 DEF Off
<1>7. CASE Update
  BY <1>7 DEF Update, ProgramAddress
<1>8. CASE Latch
  BY <1>8 DEF Latch
<1>9. CASE Event
  BY <1>9 DEF Event
<1>10. CASE ExitSleep
  BY <1>10 DEF ExitSleep, Taken
<1>11. CASE DisplayOn
  BY <1>11 DEF DisplayOn, Taken
<1>12. CASE Enable
  BY <1>12 DEF Enable, ProgramAddress
<1>13. CASE Blank
  BY <1>13 DEF Blank, ProgramAddress
<1>14. CASE Frame
  BY <1>14 DEF Frame
<1>15. CASE DisplayOff
  BY <1>15 DEF DisplayOff, Taken
<1>16. CASE EnterSleep
  BY <1>16 DEF EnterSleep, Taken
<1>17. CASE Restore
  BY <1>17 DEF Restore
<1>18. CASE Disabled
  BY <1>18 DEF Disabled
<1>19. CASE UNCHANGED vars
  BY <1>19 DEF vars
<1> QED
  BY <1>1, <1>2, <1>3, <1>4, <1>5, <1>6, <1>7, <1>8, <1>9, <1>10, <1>11,
     <1>12, <1>13, <1>14, <1>15, <1>16, <1>17, <1>18, <1>19
  DEF Next, Driver

LEMMA TypeInvAlways == Spec => []TypeInv
<1>1. Init => TypeInv
  BY DeconAssumption DEF Init, TypeInv, TypeOK, Places, Placed
<1>2. TypeInv /\ [Next]_vars => TypeInv'
  BY NextType
<1> QED
  BY <1>1, <1>2, PTL DEF Spec

\* Every variable of the display driver keeps its type, with TE edges and DCS
\* writes lost or late, and parameters written at any time.
THEOREM TypeCorrect == Spec => []TypeOK
<1>1. TypeInv => TypeOK
  BY DEF TypeInv
<1> QED
  BY <1>1, TypeInvAlways, PTL

-----------------------------------------------------------------------------
(* What the panel shows *)

Dark == (panel_dcs => ~lit) /\ (panel_dcs /\ panel_sleep => ~awake)

\* The panel emits from DisplayOn to DisplayOff, and when it does not the
\* parameters are such that DisplayOn will make it; it is dark from the end of
\* s9p_panel_down on.
Shown ==
    /\ ~lit =>
           /\ panel_dcs
           /\ at \in {"enter_sleep", "restore", "disabled"}
              \/ (~enabled /\ at \in {"idle", "update", "event", "exit_sleep",
                                     "display_on"})
    /\ at = "enter_sleep" /\ panel_dcs => ~lit
    /\ at \in {"restore", "disabled"} => Dark
    /\ ~enabled /\ active = Black /\ at = "idle" => Dark

\* On its way down and up the panel stays as the parameters have it.
LEMMA NextShown == InTime /\ IInv /\ Shown /\ [Next]_vars => Shown'
<1> SUFFICES ASSUME InTime, IInv, Shown, [Next]_vars PROVE Shown'
  OBVIOUS
<1> USE DeconAssumption
    DEF IInv, TypeOK, Places, Placed, Asleep, Shown, Dark, InTime,
        hw, panel, params, commit
<1>1. CASE TE
  BY <1>1 DEF TE, DisabledData, NotBuffers
<1>2. CASE Irq
  BY <1>2 DEF Irq
<1>3. CASE DisableVblank
  BY <1>3 DEF DisableVblank
<1>4. ASSUME NEW dcs \in BOOLEAN, NEW sleep \in BOOLEAN, SetParams(dcs, sleep)
      PROVE  Shown'
  <2>1. at = "idle" /\ enabled
    BY <1>4 DEF SetParams
  <2> QED
    BY <1>4, <2>1 DEF SetParams
<1>5. ASSUME NEW b \in Buffers, Commit(b)
      PROVE  Shown'
  BY <1>5 DEF Commit
<1>6. ASSUME NEW keep \in BOOLEAN, Off(keep)
      PROVE  Shown'
  BY <1>6 DEF Off
<1>7. CASE Update
  BY <1>7 DEF Update, ProgramAddress, Idle, TimedOut
<1>8. CASE Latch
  BY <1>8 DEF Latch, Idle, TimedOut
<1>9. CASE Event
  BY <1>9 DEF Event
<1>10. CASE ExitSleep
  BY <1>10 DEF ExitSleep, Taken
<1>11. CASE DisplayOn
  BY <1>11 DEF DisplayOn, Taken
<1>12. CASE Enable
  BY <1>12 DEF Enable, ProgramAddress, Idle, TimedOut
<1>13. CASE Blank
  BY <1>13 DEF Blank, ProgramAddress, Idle, TimedOut
<1>14. CASE Frame
  BY <1>14 DEF Frame, Idle, TimedOut
<1>15. CASE DisplayOff
  BY <1>15 DEF DisplayOff, Taken
<1>16. CASE EnterSleep
  BY <1>16 DEF EnterSleep, Taken
<1>17. CASE Restore
  BY <1>17 DEF Restore, Idle, TimedOut
<1>18. CASE Disabled
  BY <1>18 DEF Disabled
<1>19. CASE UNCHANGED vars
  BY <1>19 DEF vars
<1> QED
  BY <1>1, <1>2, <1>3, <1>4, <1>5, <1>6, <1>7, <1>8, <1>9, <1>10, <1>11,
     <1>12, <1>13, <1>14, <1>15, <1>16, <1>17, <1>18, <1>19
  DEF Next, Driver

\* With the panel in time and its parameters left alone, it is lit and dark
\* as the display is on and off.
LEMMA ShownAlways == ASSUME InTime PROVE Spec => [](IInv /\ Shown)
<1>1. Init => IInv /\ Shown
  BY InitInv, DeconAssumption DEF Init, Shown
<1>2. IInv /\ Shown /\ [Next]_vars => (IInv /\ Shown)'
  BY NextInv, NextShown
<1> QED
  BY <1>1, <1>2, PTL DEF Spec

\* A display that has been on and is off is black, and the panel neither emits
\* nor stays awake: s9p_decon_blank's frame came before s9p_panel_down.
THEOREM OffDark == ASSUME InTime PROVE Spec => []OffIsDark
<1>1. IInv /\ Shown => OffIsDark
  BY DEF IInv, TypeOK, Placed, DisabledData, NotBuffers, Shown, Dark, OffIsDark
<1> QED
  BY <1>1, ShownAlways, PTL

\* A display that is on emits, whatever order it was turned off and on in:
\* s9p_panel_up undoes what s9p_panel_down did.
THEOREM OnLit == ASSUME InTime PROVE Spec => []OnIsLit
<1>1. IInv /\ Shown => OnIsLit
  BY DEF IInv, TypeOK, Places, Placed, Asleep, Shown, OnIsLit
<1> QED
  BY <1>1, ShownAlways, PTL

-----------------------------------------------------------------------------
(* The display that the compositor sees *)

Scanned == IF active \in Buffers THEN active ELSE None
Replaced == IF event # "none" \/ at # "idle" THEN old ELSE None
Busy == event # "none" \/ at # "idle"
Outside == <<Scanned, fb, Replaced, on, Busy>>

\* A panel's edge shows what was committed, or the first buffer before it.
LEMMA TEStep ==
    ASSUME InTime, IInv, TE
    PROVE  Screen!Show \/ Screen!ShowFirst \/ UNCHANGED Outside
  <1> USE DeconAssumption
      DEF IInv, TypeOK, Places, EnabledData, DisabledData, Placed, Flipping,
          NotBuffers, Scanned, Replaced, Busy, Outside
  <1>1. UNCHANGED <<fb, on, Busy, Replaced>>
    BY DEF TE, commit
  <1>2. CASE ~req
    BY <1>1, <1>2 DEF TE
  <1>3. CASE req /\ enabled
    <2>1. active' = queued
      BY <1>3 DEF TE
    <2>2. CASE at \in {"idle", "latch"}
      <3>1. on /\ Scanned' = fb
        BY <1>3, <2>1, <2>2 DEF TE, commit
      <3>2. QED
        BY <1>1, <3>1 DEF Screen!Show
    <2>3. CASE at \in {"update", "blank"}
      <3>1. Scanned = None /\ Scanned' = Replaced /\ Busy
        BY <1>3, <2>1, <2>3 DEF TE, commit
      <3>2. QED
        BY <1>1, <3>1 DEF Screen!ShowFirst
    <2>4. CASE at = "frame"
      <3>1. ~on /\ Scanned' = None /\ Busy
        BY <1>3, <2>1, <2>4 DEF TE, commit
      <3>2. QED
        BY <1>1, <3>1 DEF Screen!Show
    <2>5. QED
      BY <1>3, <2>2, <2>3, <2>4
  <1>4. QED
    BY <1>2, <1>3

\* Of the commit only the beginning and the end are seen: at the end, and when
\* the interrupt sends its event, what is read is its buffer, or not the
\* compositor's; with the display off it is never the compositor's.
LEMMA CommitStep ==
    ASSUME InTime, IInv, Irq \/ Driver
    PROVE  Screen!HandBack \/ UNCHANGED Outside
  <1>1. UNCHANGED <<active, fb, old, on>>
    BY DEF Irq, Driver, Update, Latch, Event, ExitSleep, DisplayOn, Enable, Blank,
       Frame, DisplayOff, EnterSleep, Restore, Disabled, hw, commit
  <1>2. CASE Busy' = Busy
    <2>1. CASE Busy
      BY <1>1, <1>2, <2>1 DEF Scanned, Replaced, Busy, Outside
    <2>2. CASE ~Busy
      BY <1>1, <1>2, <2>2 DEF Scanned, Replaced, Busy, Outside
    <2>3. QED
      BY <2>1, <2>2
  <1>3. CASE Busy' # Busy
    <2>1. Busy
      BY <1>3 DEF Irq, Driver, Update, Latch, Event, ExitSleep, DisplayOn, Enable,
         Blank, Frame, DisplayOff, EnterSleep, Restore, Disabled, Busy
    <2>2. ~Busy'
      BY <1>3, <2>1 DEF Busy
    <2>3. \/ Irq /\ at = "idle"
          \/ Event /\ enabled
          \/ Enable
          \/ Disabled
      BY <2>2 DEF Irq, Driver, Update, Latch, Event, ExitSleep, DisplayOn, Enable,
         Blank, Frame, DisplayOff, EnterSleep, Restore, Disabled, Busy
    <2>4. IF on THEN Scanned \in {None, fb} ELSE Scanned = None
      BY <2>3, DeconAssumption
      DEF IInv, TypeOK, EnabledData, DisabledData, Placed, Flipping, NotBuffers,
          Scanned, Event, Enable, Disabled
    <2>5. QED
      BY <1>1, <2>1, <2>2, <2>4 DEF Scanned, Replaced, Busy, Screen!HandBack
  <1>4. QED
    BY <1>2, <1>3

\* Every step of the driver, the panel and the compositor is one of the display.
LEMMA ScreenStep ==
    ASSUME InTime, IInv, [Next]_vars
    PROVE  [Screen!DisplayNext]_Outside
  <1>1. ASSUME NEW b \in Buffers, Commit(b)
        PROVE  Screen!Flip(b)
    BY <1>1 DEF Commit, Screen!Flip, Replaced, hw
  <1>2. ASSUME NEW keep \in BOOLEAN, Off(keep)
        PROVE  Screen!TurnOff(keep)
    <2>1. event = "none"
      BY <1>2 DEF Off, InTime
    <2>2. QED
      BY <1>2, <2>1 DEF Off, Screen!TurnOff, hw
  <1>3. ASSUME NEW dcs \in BOOLEAN, NEW sleep \in BOOLEAN, SetParams(dcs, sleep)
        PROVE  UNCHANGED Outside
    BY <1>3 DEF SetParams, Scanned, Replaced, Busy, Outside, hw, commit
  <1>4. CASE DisableVblank
    BY <1>4 DEF DisableVblank, Scanned, Replaced, Busy, Outside, commit
  <1>5. CASE UNCHANGED vars
    BY <1>5 DEF vars, Scanned, Replaced, Busy, Outside
  <1>6. QED
    BY <1>1, <1>2, <1>3, <1>4, <1>5, TEStep, CommitStep DEF Next, Screen!DisplayNext

\* With the panel in time, the driver is the display that the compositor takes
\* it for: it shows each buffer after the one it replaced and never again after
\* the next, and hands none back that it shows.
THEOREM ShownInOrder == ASSUME InTime PROVE Spec => ScreenImplemented
<1>1. Init => Screen!DisplayInit
  BY DeconAssumption DEF Init, Screen!DisplayInit
<1>2. IInv /\ [Next]_vars => [Screen!DisplayNext]_(Screen!displayVars)
  BY ScreenStep DEF Outside, Scanned, Replaced, Busy, Screen!displayVars
<1>3. Spec => []IInv
  <2>1. Init => IInv
    BY InitInv
  <2>2. IInv /\ [Next]_vars => IInv'
    BY NextInv
  <2>3. QED
    BY <2>1, <2>2, PTL DEF Spec
<1> QED
  BY <1>1, <1>2, <1>3, PTL DEF Spec, ScreenImplemented, Screen!DisplaySpec

\* The display by itself never tears: with the refinement this is NoTear again,
\* from the compositor's side.
THEOREM DisplaySafe == Screen!DisplaySpec => []Screen!NeverTorn
<1>1. Screen!DisplayInit => Screen!NeverTorn
  BY DEF Screen!DisplayInit, Screen!NeverTorn
<1>2. Screen!NeverTorn /\ [Screen!DisplayNext]_(Screen!displayVars)
          => Screen!NeverTorn'
  BY DEF Screen!NeverTorn, Screen!DisplayNext, Screen!displayVars, Screen!Flip,
     Screen!TurnOff, Screen!Show, Screen!ShowFirst, Screen!HandBack
<1> QED
  BY <1>1, <1>2, PTL DEF Screen!DisplaySpec
-----------------------------------------------------------------------------
(* The event is on its way *)

\* Vblanks are off once the pipe is being disabled; an event belongs to a commit
\* that has not come to it, or is armed with the interrupt enabled.
EventInHand ==
    /\ vblank => at \in {"idle", "update", "latch", "event", "exit_sleep",
                         "display_on", "enable"}
    /\ event = "held" => at \in {"update", "latch", "event"}
    /\ event = "armed" =>
           irqOn /\ vblank /\ at \in {"idle", "exit_sleep", "display_on", "enable"}

\* An event is never left behind, whatever the panel does: it is held by the
\* commit, or waits for an interrupt that is enabled and that neither the
\* vblank core (DisableVblank) nor s9p_decon_pipe_disable takes from under it.
\* That the interrupt comes is EventIsSent, under fairness.
THEOREM EventKept == Spec => []EventInHand
<1>1. Init => EventInHand
  BY DEF Init, EventInHand
<1>2. ASSUME TypeInv, EventInHand, [Next]_vars
      PROVE  EventInHand'
  <2> USE <1>2 DEF TypeInv, TypeOK, Placed, EventInHand, hw, panel, params, commit
  <2>1. CASE TE \/ Irq \/ DisableVblank
    BY <2>1 DEF TE, Irq, DisableVblank
  <2>2. CASE \E dcs, sleep \in BOOLEAN : SetParams(dcs, sleep)
    BY <2>2 DEF SetParams
  <2>3. CASE (\E b \in Buffers : Commit(b)) \/ (\E keep \in BOOLEAN : Off(keep))
    BY <2>3 DEF Commit, Off
  <2>4. CASE Update \/ Latch \/ Event
    BY <2>4 DEF Update, Latch, Event
  <2>5. CASE ExitSleep \/ DisplayOn \/ Enable
    BY <2>5 DEF ExitSleep, DisplayOn, Enable
  <2>6. CASE Blank \/ Frame \/ DisplayOff
    BY <2>6 DEF Blank, Frame, DisplayOff
  <2>7. CASE EnterSleep \/ Restore \/ Disabled
    BY <2>7 DEF EnterSleep, Restore, Disabled
  <2>8. CASE UNCHANGED vars
    BY <2>8 DEF vars
  <2> QED
    BY <2>1, <2>2, <2>3, <2>4, <2>5, <2>6, <2>7, <2>8 DEF Next, Driver
<1>3. TypeInv /\ EventInHand /\ [Next]_vars => EventInHand'
  BY <1>2
<1> QED
  BY <1>1, <1>3, TypeInvAlways, PTL DEF Spec
=============================================================================
