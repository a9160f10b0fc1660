------------------------------ MODULE Windows ------------------------------
(***************************************************************************)
(* The windows of applications (gui/winsrv.c): slots with a surface and a  *)
(* dirty mark, used by the applications through system calls               *)
(* (gui/service.c) and by the loop of the desktop (tools/gui.c), which     *)
(* composes the screen and reaps the windows of dead tasks.  Where the     *)
(* mouse goes is Pointer's, a window's queue of events EventRing's.        *)
(*                                                                         *)
(* A system call is one step. The loop is a kernel task that the timer may *)
(* take off the processor: its parts are steps of their own, and so are    *)
(* the windows of a frame when BlitsArePreempted.  Of what a window shows, *)
(* and where, the model keeps whether it differs from the screen.          *)
(***************************************************************************)
EXTENDS Integers, FiniteSets

CONSTANTS
  WinSlots,           \* 1 .. WINSRV_MAX
  Apps,               \* the tasks with windows
  Surfaces,           \* memory blocks for surfaces
  GenerationMax,      \* 0x007FFFFF
  MaxWindow,          \* bound: windows created in a behaviour
  ClippedFrames,      \* frames of the cursor, the clock or a toast alone occur
  BlitsArePreempted   \* a tick may land in a frame

ASSUME WinAssumption ==
  /\ IsFiniteSet(WinSlots) /\ WinSlots = 1 .. Cardinality(WinSlots)
  /\ MaxWindow \in Nat /\ GenerationMax \in Nat \ {0} /\ "none" \notin Surfaces
  /\ ClippedFrames \in BOOLEAN /\ BlitsArePreempted \in BOOLEAN

VARIABLES
  win,        \* g_wins: slot -> a window, or NoWindow
  born,       \* windows created so far
  stale,      \* slot -> what the screen shows of it is not what it holds
  sceneDirty, \* g_scene_dirty
  alive,      \* the applications still running
  handles,    \* handles handed out: [app, slot, gen], and the window's birth
  loop        \* the loop of the desktop: [at, slot, surface]

winVars == <<win, born, stale, sceneDirty, alive, handles, loop>>

NoSlot == 0
NoWindow == [used |-> FALSE]
WindowUsed(i) == win[i].used
FreeSurfaces == Surfaces \ {win[i].surface : i \in {j \in WinSlots : WindowUsed(j)}}
NextSurface == CHOOSE s \in FreeSurfaces : TRUE
LowestWindow(S) == CHOOSE i \in S : \A j \in S : i <= j

\* g_next_generation, which starts again at 1.
Generation == (born % GenerationMax) + 1

(***************************************************************************)
(* The service: each operation is one system call of a living task.        *)
(***************************************************************************)
NewWindow(t) ==
  [used |-> TRUE, birth |-> born, gen |-> Generation, owner |-> t,
   surface |-> NextSurface, min |-> FALSE, dirty |-> TRUE]

OwnedBy(t) == {i \in WinSlots : WindowUsed(i) /\ win[i].owner = t}
winsrv_for_task(t) == IF OwnedBy(t) = {} THEN NoSlot ELSE LowestWindow(OwnedBy(t))
winsrv_for_handle(t, h) ==
  IF WindowUsed(h.slot) /\ win[h.slot].owner = t /\ win[h.slot].gen = h.gen THEN h.slot ELSE NoSlot

\* The window a call of t works on: the first of its windows (version 1), or
\* the one that a handle it was given names (version 2).
Target(t) == ({winsrv_for_task(t)} \cup
              {winsrv_for_handle(t, h) : h \in {g \in handles : g.app = t}}) \ {NoSlot}

InCall(t) ==
  /\ t \in alive
  /\ BlitsArePreempted \/ loop.at # "frame"
  /\ UNCHANGED <<alive, loop>>

FreeWinSlots == {j \in WinSlots : ~WindowUsed(j)}
winsrv_create_common(t) ==
  /\ InCall(t) /\ born < MaxWindow /\ FreeWinSlots # {} /\ FreeSurfaces # {}
  /\ win' = [win EXCEPT ![LowestWindow(FreeWinSlots)] = NewWindow(t)]
  /\ stale' = [stale EXCEPT ![LowestWindow(FreeWinSlots)] = TRUE]
  /\ born' = born + 1
  /\ UNCHANGED sceneDirty

\* Version 1 has one window for each task.
winsrv_create(t) == OwnedBy(t) = {} /\ winsrv_create_common(t) /\ UNCHANGED handles

winsrv_create_handle(t) ==
  /\ winsrv_create_common(t)
  /\ handles' = handles \cup
       {[app |-> t, slot |-> LowestWindow(FreeWinSlots), gen |-> Generation, birth |-> born]}

gui_service_window_close(t) ==
  /\ InCall(t)
  /\ \E i \in Target(t) :
       /\ win' = [win EXCEPT ![i] = NoWindow]
       /\ stale' = [stale EXCEPT ![i] = TRUE]
  /\ sceneDirty' = TRUE
  /\ UNCHANGED <<born, handles>>

\* Window i of t becomes w, and is not what the screen shows.
Changes(t, i, w) ==
  /\ InCall(t)
  /\ win' = [win EXCEPT ![i] = w]
  /\ stale' = [stale EXCEPT ![i] = TRUE]
  /\ UNCHANGED <<born, sceneDirty, handles>>

\* Drawing, a new title or a new place.
gui_service_window_draw(t) ==
  \E i \in Target(t) : Changes(t, i, [win[i] EXCEPT !.dirty = TRUE])

SET_WINDOW_STATE(t) ==
  \E i \in Target(t) : Changes(t, i, [win[i] EXCEPT !.min = ~@, !.dirty = TRUE])

\* The window is moved before it is resized: without memory for the new
\* surface the call fails, and the window has moved and is not marked.
Resized(i) == IF FreeSurfaces = {} THEN win[i]
              ELSE [win[i] EXCEPT !.surface = NextSurface, !.dirty = TRUE]
SET_GEOMETRY(t) == \E i \in Target(t) : Changes(t, i, Resized(i))

AppExit(t) ==
  /\ t \in alive
  /\ alive' = alive \ {t}
  /\ UNCHANGED <<win, born, stale, sceneDirty, handles, loop>>

(***************************************************************************)
(* The loop: reap; keys and the mouse, which may ask for a frame of the    *)
(* whole screen or of a part; a frame if something is dirty.               *)
(***************************************************************************)
At(p) == loop.at = p
Goto(p) == loop' = [at |-> p, slot |-> NoSlot, surface |-> "none"]

IsDead(i) == WindowUsed(i) /\ win[i].owner \notin alive

\* Mutant: a minimised window is not looked at.
ReapsShown ==
  LET dead(i) == IsDead(i) /\ ~win[i].min IN
  /\ At("reap")
  /\ win' = [i \in WinSlots |-> IF dead(i) THEN NoWindow ELSE win[i]]
  /\ stale' = [i \in WinSlots |-> stale[i] \/ dead(i)]
  /\ sceneDirty' = (sceneDirty \/ \E i \in WinSlots : dead(i))
  /\ Goto("input")
  /\ UNCHANGED <<born, alive, handles>>

winsrv_reap_dead ==
  /\ At("reap")
  /\ win' = [i \in WinSlots |-> IF IsDead(i) THEN NoWindow ELSE win[i]]
  /\ stale' = [i \in WinSlots |-> stale[i] \/ IsDead(i)]
  /\ sceneDirty' = (sceneDirty \/ \E i \in WinSlots : IsDead(i))
  /\ Goto("input")
  /\ UNCHANGED <<born, alive, handles>>

\* A key, a click, a drag: the whole screen.
InputRedraws ==
  /\ At("input") /\ Goto("full")
  /\ UNCHANGED <<win, born, stale, sceneDirty, alive, handles>>
NoInput ==
  /\ At("input") /\ Goto("present")
  /\ UNCHANGED <<win, born, stale, sceneDirty, alive, handles>>

\* Motion alone repaints the cursor's rectangles: the windows are drawn
\* clipped to them, and count as drawn.  So do the clock and a toast.
Cleaned(i) == IF WindowUsed(i) THEN [win[i] EXCEPT !.dirty = FALSE] ELSE win[i]
ClippedFrame ==
  /\ ClippedFrames
  /\ At("input") /\ Goto("present")
  /\ win' = [i \in WinSlots |-> Cleaned(i)]
  /\ UNCHANGED <<born, stale, sceneDirty, alive, handles>>

HasDirty == sceneDirty \/ \E i \in WinSlots : WindowUsed(i) /\ win[i].dirty
winsrv_has_dirty ==
  /\ At("present")
  /\ IF HasDirty THEN Goto("full") ELSE Goto("reap")
  /\ sceneDirty' = FALSE
  /\ UNCHANGED <<win, born, stale, alive, handles>>

\* The desktop is drawn afresh: what is gone is no longer seen.
draw_gui_frame ==
  /\ At("full")
  /\ loop' = [at |-> "frame", slot |-> 1, surface |-> "none"]
  /\ stale' = [i \in WinSlots |-> stale[i] /\ WindowUsed(i)]
  /\ UNCHANGED <<win, born, sceneDirty, alive, handles>>

\* One window: its surface is read, and then it counts as drawn.
BlitStarts ==
  /\ At("frame") /\ loop.slot \in WinSlots /\ loop.surface = "none"
  /\ IF ~WindowUsed(loop.slot)
       THEN loop' = [loop EXCEPT !.slot = @ + 1] /\ UNCHANGED stale
       ELSE /\ loop' = [loop EXCEPT !.surface = win[loop.slot].surface]
            /\ stale' = [stale EXCEPT ![loop.slot] = FALSE]
  /\ UNCHANGED <<win, born, sceneDirty, alive, handles>>
BlitEnds ==
  /\ At("frame") /\ loop.surface # "none"
  /\ win' = [win EXCEPT ![loop.slot] = Cleaned(loop.slot)]
  /\ loop' = [loop EXCEPT !.slot = @ + 1, !.surface = "none"]
  /\ UNCHANGED <<born, stale, sceneDirty, alive, handles>>
FrameEnds ==
  /\ At("frame") /\ loop.slot \notin WinSlots
  /\ Goto("reap")
  /\ UNCHANGED <<win, born, stale, sceneDirty, alive, handles>>

WinInit ==
  /\ win = [i \in WinSlots |-> NoWindow]
  /\ born = 0
  /\ stale = [i \in WinSlots |-> FALSE]
  /\ sceneDirty = FALSE
  /\ alive = Apps
  /\ handles = {}
  /\ loop = [at |-> "reap", slot |-> NoSlot, surface |-> "none"]

GuiLoop == winsrv_reap_dead \/ InputRedraws \/ NoInput \/ ClippedFrame \/ winsrv_has_dirty
           \/ draw_gui_frame \/ BlitStarts \/ BlitEnds \/ FrameEnds

AppCall(t) == winsrv_create(t) \/ winsrv_create_handle(t) \/ gui_service_window_close(t)
              \/ gui_service_window_draw(t) \/ SET_WINDOW_STATE(t) \/ SET_GEOMETRY(t)
              \/ AppExit(t)

WinNext == GuiLoop \/ \E t \in Apps : AppCall(t)
WinSpec == WinInit /\ [][WinNext]_winVars /\ WF_winVars(GuiLoop)

(***************************************************************************)
(* Properties.                                                             *)
(***************************************************************************)
WinTypeOK ==
  \A i \in WinSlots : WindowUsed(i) => win[i].owner \in Apps /\ win[i].surface \in Surfaces

\* A block of memory is the surface of one window: a resize or a destroyed
\* window gives its old block back, and a new one takes a free one.
SurfacesAreOwn ==
  \A i, j \in WinSlots : WindowUsed(i) /\ WindowUsed(j) /\ win[i].surface = win[j].surface => i = j

\* A handle names the window it was made for, however often its slot has been
\* used since (winsrv.h: generation).
HandlesNameOneWindow ==
  \A h \in handles : \A t \in Apps :
    winsrv_for_handle(t, h) # NoSlot => t = h.app /\ win[h.slot].birth = h.birth

\* Between frames a window that differs from the screen is marked for the next
\* one (gui.c:8400).
ScreenIsCurrent ==
  At("reap") => \A i \in WinSlots :
    stale[i] => sceneDirty \/ (WindowUsed(i) /\ win[i].dirty)

\* The block a frame reads is still the window's.
BlitsOwnSurface ==
  loop.surface = "none" \/ (WindowUsed(loop.slot) /\ win[loop.slot].surface = loop.surface)

WindowsSafe == WinTypeOK /\ SurfacesAreOwn /\ HandlesNameOneWindow
               /\ (ClippedFrames \/ ScreenIsCurrent) /\ (BlitsArePreempted \/ BlitsOwnSurface)

\* The windows of a task that has ended are closed (winsrv.h: reaped by the
\* compositor).
DeadWindowsGo == \A i \in WinSlots : IsDead(i) ~> ~IsDead(i)
=============================================================================
