------------------------------ MODULE Pointer ------------------------------
(***************************************************************************)
(* Where the loop of the desktop (tools/gui.c) sends the mouse, among the  *)
(* windows of applications.  Its locals name slots: the window that holds  *)
(* the pointer since the button went down in it, the one the pointer was   *)
(* over last, the one whose title is dragged.  Applications open, close    *)
(* and minimise their windows at any time, and slots are used again.       *)
(* Geometry is left out: the pointer may be over any window that is not    *)
(* minimised.  The queues of events are EventRing's.                       *)
(***************************************************************************)
EXTENDS Integers, FiniteSets

CONSTANTS PaneSlots   \* 1 .. WINSRV_MAX

ASSUME PaneAssumption == IsFiniteSet(PaneSlots) /\ PaneSlots = 1 .. Cardinality(PaneSlots)

VARIABLES
  pane,   \* slot -> "free", or whether the window is minimised and what it was told
  mouse   \* [last, capture, hover, drag]: last_buttons, appwin_mouse_capture,
          \* appwin_mouse_hover, appwin_drag

pointerVars == <<pane, mouse>>

NoPane == 0
FreePane == [used |-> FALSE]

\* told: what the last mouse event pushed to the window said of the left button
\* and of the pointer.
Opened == [used |-> TRUE, min |-> FALSE, told |-> "nothing"]
Live == {i \in PaneSlots : pane[i].used}
Shown == {i \in Live : ~pane[i].min}

Tell(ps, i, what) ==
  IF i # NoPane /\ ps[i].used THEN [ps EXCEPT ![i].told = what] ELSE ps

(***************************************************************************)
(* The applications.                                                       *)
(***************************************************************************)
PaneOpens(i) == i \notin Live /\ pane' = [pane EXCEPT ![i] = Opened] /\ UNCHANGED mouse
PaneCloses(i) == i \in Live /\ pane' = [pane EXCEPT ![i] = FreePane] /\ UNCHANGED mouse
PaneMinimises(i) == i \in Live /\ pane' = [pane EXCEPT ![i].min = ~@] /\ UNCHANGED mouse

(***************************************************************************)
(* Motion, or the release: the captured window is told, else the window    *)
(* under the pointer, and the window that the pointer has left.  Then a    *)
(* drag goes on or ends.                                                   *)
(***************************************************************************)
CaptureHolds == mouse.capture \in Live
Pointed(over) == IF CaptureHolds THEN mouse.capture ELSE over
Inside(down) == IF down THEN "pressed" ELSE "over"

Told(down, over) ==
  LET target == Pointed(over)
      left == mouse.hover # target
  IN Tell(IF left THEN Tell(pane, mouse.hover, "left") ELSE pane, target, Inside(down))

KeptCapture(down) == IF down /\ CaptureHolds THEN mouse.capture ELSE NoPane
KeptDrag(down) == IF down /\ mouse.drag \in Live THEN mouse.drag ELSE NoPane

Motion(down, over) ==
  /\ down => mouse.last
  /\ pane' = Told(down, over)
  /\ mouse' = [last |-> down, capture |-> KeptCapture(down), hover |-> Pointed(over),
               drag |-> KeptDrag(down)]

(***************************************************************************)
(* A press: on the close button or the title of a window, on its content,  *)
(* or on none, as when a menu is open above it.                            *)
(***************************************************************************)
PressElsewhere == ~mouse.last /\ mouse' = [mouse EXCEPT !.last = TRUE] /\ UNCHANGED pane
PressTitle(i) ==
  /\ ~mouse.last /\ i \in Shown
  /\ mouse' = [mouse EXCEPT !.last = TRUE, !.drag = i]
  /\ UNCHANGED pane
PressContent(i) ==
  /\ ~mouse.last /\ i \in Shown
  /\ pane' = Tell(pane, i, "pressed")
  /\ mouse' = [mouse EXCEPT !.last = TRUE, !.capture = i, !.hover = i]

PointerInit ==
  /\ pane = [i \in PaneSlots |-> FreePane]
  /\ mouse = [last |-> FALSE, capture |-> NoPane, hover |-> NoPane, drag |-> NoPane]

PointerNext ==
  \/ \E i \in PaneSlots : PaneOpens(i) \/ PaneCloses(i) \/ PaneMinimises(i)
                          \/ PressTitle(i) \/ PressContent(i)
  \/ \E down \in BOOLEAN, over \in Shown \cup {NoPane} : Motion(down, over)
  \/ PressElsewhere

PointerSpec == PointerInit /\ [][PointerNext]_pointerVars

(***************************************************************************)
(* Properties.                                                             *)
(***************************************************************************)
PointerTypeOK ==
  /\ \A i \in Live : pane[i].told \in {"nothing", "over", "pressed", "left"}
  /\ {mouse.capture, mouse.hover, mouse.drag} \subseteq PaneSlots \cup {NoPane}

\* A window told that the button is down inside it will hear of the release,
\* or that the pointer left it: the button still is down, and the window is
\* the one the next motion is sent to (gui.c:7710, a control must not stay
\* pressed), whatever opens, closes or is minimised meanwhile.
PressesAreReleased ==
  \A i \in Live : pane[i].told = "pressed" => mouse.last /\ i = mouse.hover

\* A window that holds the pointer is the one the pointer was last over, so
\* that only one window takes part in a press.
CaptureIsHover == mouse.capture \in Live => mouse.hover = mouse.capture /\ mouse.last

PointerSafe == PointerTypeOK /\ PressesAreReleased /\ CaptureIsHover
=============================================================================
