------------------------------ MODULE Desktop ------------------------------
(***************************************************************************)
(* The desktop: the pointer over the windows of programs, the ring of      *)
(* events of such a window, the windows of programs themselves and those   *)
(* of the desktop.  Each part is modelled on its own; they share no state. *)
(***************************************************************************)
EXTENDS Pointer, EventRing, Wm, Windows

DesktopSpec == PointerSpec /\ RingSpec /\ WmSpec /\ WinSpec

\* A press and its release, a queue of events and a gesture keep to the window
\* they began with (tools/gui.c, gui/wm.c), and the screen shows what the
\* windows hold (gui/winsrv.c).
DesktopSafe == PointerSafe /\ RingSafe /\ WmSafe /\ WindowsSafe
=============================================================================
