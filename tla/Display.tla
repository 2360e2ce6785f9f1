------------------------------- MODULE Display -------------------------------
(***************************************************************************)
(* s9p-decon.c, what the display promises the compositor: it shows what    *)
(* was committed last, one buffer after the other and never back again,    *)
(* and a buffer that was replaced is handed back once it is not shown.     *)
(***************************************************************************)

CONSTANTS
    Buffers,    \* the compositor's framebuffers
    None        \* no framebuffer

VARIABLES
    shown,      \* the compositor's buffer that is read, None when none is
    plane,      \* the buffer that was committed last
    replaced,   \* the one before, until the compositor has it back
    on,         \* the display was turned on
    busy        \* the last commit is not over

displayVars == <<shown, plane, replaced, on, busy>>

DisplayInit ==
    /\ shown = None /\ plane = None /\ replaced = None
    /\ on = FALSE /\ busy = FALSE

\* The compositor flips to a buffer, and turns the display on if need be.
Flip(b) ==
    /\ ~busy /\ busy' = TRUE
    /\ on => b # plane
    /\ on' = TRUE /\ plane' = b /\ replaced' = plane
    /\ UNCHANGED shown

\* It turns the display off, and keeps its buffer on the plane or not.
TurnOff(keep) ==
    /\ ~busy /\ busy' = TRUE
    /\ on /\ on' = FALSE
    /\ plane' = (IF keep THEN plane ELSE None) /\ replaced' = plane
    /\ UNCHANGED shown

\* The panel takes over what was committed: black, when the display is off.
Show ==
    /\ busy \/ on
    /\ shown' = IF on THEN plane ELSE None
    /\ UNCHANGED <<plane, replaced, on, busy>>

\* The first buffer is not shown before the next commit has begun.
ShowFirst ==
    /\ busy /\ shown = None
    /\ shown' = replaced
    /\ UNCHANGED <<plane, replaced, on, busy>>

\* The event: what was replaced is the compositor's again.  A display that is
\* being turned on may show nothing yet.
HandBack ==
    /\ busy /\ busy' = FALSE
    /\ shown = None \/ (on /\ shown = plane)
    /\ replaced' = None
    /\ UNCHANGED <<shown, plane, on>>

DisplayNext ==
    \/ \E b \in Buffers : Flip(b)
    \/ \E keep \in BOOLEAN : TurnOff(keep)
    \/ Show \/ ShowFirst \/ HandBack

DisplaySpec == DisplayInit /\ [][DisplayNext]_displayVars

-----------------------------------------------------------------------------
\* The compositor has back no buffer that is shown, and a display that is off
\* shows none.
NeverTorn ==
    /\ shown \in {None, plane, replaced}
    /\ ~busy => replaced = None /\ (~on => shown = None)
=============================================================================
