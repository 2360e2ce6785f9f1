----------------------------- MODULE DeconFlip ------------------------------
(***************************************************************************)
(* s9p-decon.c: page flips and display off/on on a command-mode panel.     *)
(*                                                                         *)
(* A flip queues an address and requests a shadow update; the panel's next *)
(* TE edge latches it, and only then does DECON stop reading the previous  *)
(* buffer.  The commit's event tells the compositor that it may draw into  *)
(* that buffer again, so it must not be sent before the latch.             *)
(*                                                                         *)
(* Commits come one after the other, as the atomic helpers make them; the  *)
(* panel, its TE edges and the vblank core are external.                   *)
(***************************************************************************)

CONSTANTS
    Buffers,        \* the compositor's framebuffers
    Sboot, Black,   \* the bootloader's framebuffer and the black frame
    None,           \* no framebuffer on the plane
    HaveDsim,       \* DSIM, which sends the DCS writes, could be mapped
    HaveBlack,      \* the black frame could be allocated
    TimelyTE,       \* TE edges come within the waits, DCS writes are taken
    ParamsWhileOff  \* panel_dcs and panel_sleep change while the panel is down

ASSUME DeconAssumption ==
    /\ {Sboot, Black, None} \cap Buffers = {}
    /\ Sboot # Black /\ Sboot # None /\ Black # None
    /\ {HaveDsim, HaveBlack, TimelyTE, ParamsWhileOff} \subseteq BOOLEAN

VARIABLES
    queued,   \* IDMA_IN_BASE_ADDR_Y
    req,      \* the window's bit in SHADOW_REG_UPDATE_REQ
    active,   \* the address DECON reads, the shadow bank's
    start,    \* FRAME_START in INTERRUPT_PENDING
    irqOn,    \* FRAME_START in INTERRUPT_ENABLE
    awake, lit,               \* the panel is out of sleep mode, and emits
    panel_dcs, panel_sleep,   \* the module parameters
    at,       \* how far the commit is
    on,       \* crtc->state->active
    enabled,  \* priv->enabled
    vblank,   \* not between drm_crtc_vblank_off and _on
    fb, old,  \* the plane's framebuffer, and the one it replaced
    event     \* the commit's event: "none", "held" by it, or "armed"

hw == <<queued, req, active, start, irqOn>>
panel == <<awake, lit>>
params == <<panel_dcs, panel_sleep>>
commit == <<on, fb, old>>
vars == <<queued, req, active, start, irqOn, awake, lit, panel_dcs, panel_sleep,
          at, on, enabled, vblank, fb, old, event>>

Places == {"idle", "update", "latch", "event", "exit_sleep", "display_on",
           "enable", "blank", "frame", "display_off", "enter_sleep", "restore",
           "disabled"}

TypeOK ==
    /\ queued \in Buffers \cup {Sboot, Black}
    /\ active \in Buffers \cup {Sboot, Black}
    /\ {req, start, irqOn, awake, lit, panel_dcs, panel_sleep, on, enabled,
        vblank} \subseteq BOOLEAN
    /\ at \in Places
    /\ fb \in Buffers \cup {None} /\ old \in Buffers \cup {None}
    /\ event \in {"none", "held", "armed"}

\* s9p_decon_probe takes over what the bootloader left running.  Vblanks can be
\* had before they are first turned on: drm_mode_config_reset, which would have
\* seen to that, comes before drm_vblank_init.
Init ==
    /\ queued = Sboot /\ active = Sboot /\ req = FALSE
    /\ start \in BOOLEAN /\ irqOn = FALSE
    /\ awake = TRUE /\ lit = TRUE
    /\ panel_dcs \in BOOLEAN /\ panel_sleep \in BOOLEAN
    /\ at = "idle" /\ on = FALSE /\ enabled = FALSE /\ vblank = TRUE
    /\ fb = None /\ old = None /\ event = "none"

-----------------------------------------------------------------------------
\* The panel's TE edge: a requested update is latched and a frame starts.
TE ==
    /\ awake
    /\ active' = IF req THEN queued ELSE active
    /\ req' = FALSE /\ start' = TRUE
    /\ UNCHANGED <<queued, irqOn, panel, params, at, commit, enabled, vblank, event>>

\* (mutant) The interrupt is acknowledged, the vblank not accounted for.
IrqAckOnly ==
    /\ start /\ irqOn
    /\ start' = FALSE
    /\ UNCHANGED <<queued, req, active, irqOn, panel, params, at, commit,
                   enabled, vblank, event>>

\* s9p_decon_irq: the vblank sends an event that is armed.
Irq ==
    /\ start /\ irqOn
    /\ start' = FALSE
    /\ event' = IF event = "armed" THEN "none" ELSE event
    /\ UNCHANGED <<queued, req, active, irqOn, panel, params, at, commit,
                   enabled, vblank>>

\* The vblank core lets go of the interrupt when no event needs it.
DisableVblank ==
    /\ irqOn /\ vblank /\ event # "armed"
    /\ irqOn' = FALSE
    /\ UNCHANGED <<queued, req, active, start, panel, params, at, commit,
                   enabled, vblank, event>>

\* The parameters are written through sysfs.
SetParams(dcs, sleep) ==
    /\ ParamsWhileOff \/ (at = "idle" /\ enabled)
    /\ <<dcs, sleep>> # params
    /\ panel_dcs' = dcs /\ panel_sleep' = sleep
    /\ UNCHANGED <<hw, panel, at, commit, enabled, vblank, event>>

\* How s9p_wait_shadow_idle ends: the request is gone, or it is not in time.
\* A sleeping panel sends no TE edge.
Idle == ~req
TimedOut == req /\ (TimelyTE => ~awake)

\* s9p_decon_dcs: a write is taken, or it is lost and only warned about.
Taken == IF ~HaveDsim \/ ~panel_dcs THEN {FALSE}
         ELSE IF TimelyTE THEN {TRUE} ELSE BOOLEAN

\* (mutant) The address is written, the update not asked for.
ProgramAddressOnly(addr) == queued' = addr /\ UNCHANGED req

\* s9p_decon_program_address.
ProgramAddress(addr) == queued' = addr /\ req' = TRUE

-----------------------------------------------------------------------------
\* The compositor commits a buffer that it has drawn, on a display that is on
\* or that this commit turns on, once the last commit's event is in.
Commit(b) ==
    /\ at = "idle" /\ event = "none"
    /\ on => b # fb
    /\ on' = TRUE /\ fb' = b /\ old' = fb
    /\ event' = "held"
    /\ at' = "update"
    /\ UNCHANGED <<hw, panel, params, enabled, vblank>>

\* s9p_decon_pipe_update: nothing is programmed before the pipe is enabled,
\* nor while the previous update is stuck.
Update ==
    /\ at = "update"
    /\ \/ /\ enabled /\ Idle
          /\ ProgramAddress(fb)
          /\ at' = "latch"
       \/ /\ ~enabled \/ TimedOut
          /\ at' = "event"
          /\ UNCHANGED <<queued, req>>
    /\ UNCHANGED <<active, start, irqOn, panel, params, commit, enabled, vblank,
                   event>>

\* (mutant) The latch is not waited for.
LatchNotWaited ==
    /\ at = "latch"
    /\ at' = "event"
    /\ UNCHANGED <<hw, panel, params, commit, enabled, vblank, event>>

Latch ==
    /\ at = "latch"
    /\ Idle \/ TimedOut
    /\ at' = "event"
    /\ UNCHANGED <<hw, panel, params, commit, enabled, vblank, event>>

\* The event is armed for the next vblank, which enables the interrupt, or
\* sent at once when there are no vblanks.
Event ==
    /\ at = "event"
    /\ event' = IF on /\ vblank THEN "armed" ELSE "none"
    /\ irqOn' = (irqOn \/ (on /\ vblank))
    /\ at' = IF enabled THEN "idle" ELSE "exit_sleep"
    /\ UNCHANGED <<queued, req, active, start, panel, params, commit, enabled,
                   vblank>>

-----------------------------------------------------------------------------
\* (mutant) A panel in sleep mode is only told to display again.
ExitSleepNever ==
    /\ at = "exit_sleep"
    /\ at' = "display_on"
    /\ UNCHANGED <<hw, panel, params, commit, enabled, vblank, event>>

\* s9p_panel_up, at the start of s9p_decon_pipe_enable.
ExitSleep ==
    /\ at = "exit_sleep"
    /\ \E taken \in Taken : awake' = (awake \/ (panel_sleep /\ taken))
    /\ at' = "display_on"
    /\ UNCHANGED <<hw, lit, params, commit, enabled, vblank, event>>

DisplayOn ==
    /\ at = "display_on"
    /\ \E taken \in Taken : lit' = (lit \/ (awake /\ taken))
    /\ at' = "enable"
    /\ UNCHANGED <<hw, awake, params, commit, enabled, vblank, event>>

\* The rest of s9p_decon_pipe_enable; how the wait ended is not looked at.
Enable ==
    /\ at = "enable"
    /\ Idle \/ TimedOut
    /\ ProgramAddress(fb)
    /\ irqOn' = TRUE /\ enabled' = TRUE /\ vblank' = TRUE
    /\ at' = "idle"
    /\ UNCHANGED <<active, start, panel, params, commit, event>>

\* The compositor turns the display off, its framebuffer kept on the plane or
\* not: drm_crtc_vblank_off in s9p_decon_pipe_disable sends what is armed.
\* A late event is not waited for longer than the helpers' time-out.
Off(keep) ==
    /\ at = "idle" /\ on
    /\ TimelyTE => event = "none"
    /\ on' = FALSE /\ fb' = (IF keep THEN fb ELSE None) /\ old' = fb
    /\ event' = "none" /\ vblank' = FALSE
    /\ at' = "blank"
    /\ UNCHANGED <<hw, panel, params, enabled>>

\* s9p_decon_blank, up to the black frame.
Blank ==
    /\ at = "blank"
    /\ \/ /\ HaveBlack /\ Idle
          /\ ProgramAddress(Black)
          /\ at' = "frame"
       \/ /\ ~HaveBlack \/ TimedOut
          /\ at' = "disabled"
          /\ UNCHANGED <<queued, req>>
    /\ UNCHANGED <<active, start, irqOn, panel, params, commit, enabled, vblank,
                   event>>

\* The 50 ms in which the black frame has to leave.
Frame ==
    /\ at = "frame"
    /\ Idle \/ TimedOut
    /\ at' = "display_off"
    /\ UNCHANGED <<hw, panel, params, commit, enabled, vblank, event>>

\* (mutant) The panel is never put into sleep mode.
DisplayOffOnly ==
    /\ at = "display_off"
    /\ \E taken \in Taken : lit' = (lit /\ ~taken)
    /\ at' = "restore"
    /\ UNCHANGED <<hw, awake, params, commit, enabled, vblank, event>>

\* s9p_panel_down.
DisplayOff ==
    /\ at = "display_off"
    /\ \E taken \in Taken : lit' = (lit /\ ~taken)
    /\ at' = IF panel_sleep THEN "enter_sleep" ELSE "restore"
    /\ UNCHANGED <<hw, awake, params, commit, enabled, vblank, event>>

EnterSleep ==
    /\ at = "enter_sleep"
    /\ \E taken \in Taken : awake' = (awake /\ ~taken)
    /\ at' = "restore"
    /\ UNCHANGED <<hw, lit, params, commit, enabled, vblank, event>>

\* (mutant) The plane is taken to have a framebuffer.
RestoreAlways ==
    /\ at = "restore"
    /\ Idle \/ TimedOut
    /\ queued' = IF Idle THEN fb ELSE queued
    /\ at' = "disabled"
    /\ UNCHANGED <<req, active, start, irqOn, panel, params, commit, enabled,
                   vblank, event>>

\* The plane's buffer is queued again; no update is asked for.
Restore ==
    /\ at = "restore"
    /\ fb # None => Idle \/ TimedOut
    /\ queued' = IF fb # None /\ Idle THEN fb ELSE queued
    /\ at' = "disabled"
    /\ UNCHANGED <<req, active, start, irqOn, panel, params, commit, enabled,
                   vblank, event>>

Disabled ==
    /\ at = "disabled"
    /\ irqOn' = FALSE /\ enabled' = FALSE
    /\ at' = "idle"
    /\ UNCHANGED <<queued, req, active, start, panel, params, commit, vblank,
                   event>>

-----------------------------------------------------------------------------
\* The steps of the driver in a commit.
Driver ==
    \/ Update \/ Latch \/ Event
    \/ ExitSleep \/ DisplayOn \/ Enable
    \/ Blank \/ Frame \/ DisplayOff \/ EnterSleep \/ Restore \/ Disabled

Next ==
    \/ TE \/ Irq \/ DisableVblank
    \/ \E dcs, sleep \in BOOLEAN : SetParams(dcs, sleep)
    \/ \E b \in Buffers : Commit(b)
    \/ \E keep \in BOOLEAN : Off(keep)
    \/ Driver

Spec == Init /\ [][Next]_vars

\* A panel that is awake keeps sending TE edges, the interrupt is served, and
\* the driver's waits end.
FairSpec == Spec /\ WF_vars(TE) /\ WF_vars(Irq) /\ WF_vars(Driver)

-----------------------------------------------------------------------------
\* What the compositor may not draw into: the plane's buffer, and the one it
\* replaced until the commit is over and its event sent.
Held == {fb} \cup (IF event # "none" \/ at # "idle" THEN {old} ELSE {})

\* The compositor is never handed a buffer back that DECON still reads: that
\* is the torn frame s9p_decon_pipe_update waits for the latch to avoid.
ScannedNotDrawn == active \in Buffers => active \in Held

\* ... and so while the display is on and its pipe enabled, however late the
\* panel's TE edge is.
TearFree == on /\ enabled => ScannedNotDrawn

\* A display that has been on and is off shows nothing: the panel's memory is
\* black, and it neither emits nor stays awake, as the parameters have it.
OffIsDark ==
    at = "idle" /\ ~on /\ active # Sboot =>
        /\ active = Black
        /\ panel_dcs => ~lit
        /\ panel_dcs /\ panel_sleep => ~awake

\* A display that is on emits (s9p_panel_up is the reverse of s9p_panel_down).
OnIsLit == at = "idle" /\ enabled => lit /\ awake

\* What was committed last is what gets scanned out, if the display stays on.
LastFlipShows ==
    \A b \in Buffers : <>[](on /\ fb = b) => <>[](active = b)

\* Every commit's event is sent (s9p_decon_irq).
EventIsSent == event # "none" ~> event = "none"

-----------------------------------------------------------------------------
\* The compositor's side of it: DECON's addresses and shadow registers, the
\* panel and the places of a commit are hidden.
Screen == INSTANCE Display WITH
    shown <- IF active \in Buffers THEN active ELSE None,
    plane <- fb,
    replaced <- IF event # "none" \/ at # "idle" THEN old ELSE None,
    busy <- event # "none" \/ at # "idle"

\* Seen by the compositor the driver is the display: every buffer is shown
\* after the one it replaced and never again after the next
\* (s9p_decon_pipe_update, s9p_decon_blank).
ScreenImplemented == Screen!DisplaySpec
=============================================================================
