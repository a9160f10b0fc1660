--------------------------------- MODULE Wm ---------------------------------
(***************************************************************************)
(* The desktop's own windows (gui/wm.c) under the mouse and the keyboard   *)
(* of the desktop's loop (tools/gui.c).  A window is known by its index;   *)
(* closing one moves those above it down.  z_order lists the indexes from  *)
(* the bottom to the top, and gestures keep an index from one turn of the  *)
(* loop to the next.  Positions and animations are left out: a size is     *)
(* never set, set by the user or by snapping, or the whole screen.         *)
(***************************************************************************)
EXTENDS Integers, FiniteSets, Sequences, SequencesExt

CONSTANTS
  WindowMax,        \* WM_MAX_WINDOWS
  KeysInGestures    \* whether keys come while a button is down or a menu is open

ASSUME WmAssumption == WindowMax \in Nat \ {0} /\ KeysInGestures \in BOOLEAN

VARIABLES
  wm,     \* [count, win, order, active]: wm_state_t, indexes from 1
  hand,   \* [left, drag, resize, snap, title, menu]: buttons & 1, dragging_window,
          \* resizing_window, snap_hint, last_title_idx, ctx_open with ctx_target
  held,   \* [drag, resize, menu]: where the windows are now that those three were set on
  shown   \* [active, mask]: showdesk_active, showdesk_mask

wmVars == <<wm, hand, held, shown>>

Slots == 1 .. WindowMax
NoIndex == 0
Closed == -2
Desktop == -1

Vacant == [unique |-> FALSE, state |-> "normal", size |-> "default", prev |-> "default"]
Indexes(w) == 1 .. w.count
Visible(w) == {i \in Indexes(w) : w.win[i].state # "minimized"}

(***************************************************************************)
(* wm.c.  Each function returns the new wm_state_t.                        *)
(***************************************************************************)
Place(w, i) == CHOOSE n \in 1 .. Len(w.order) : w.order[n] = i
wm_bring_to_top(w, i) == [w EXCEPT !.order = Append(RemoveAt(@, Place(w, i)), i)]

\* A window that was never given a size has nothing to go back to.
Restored(v) ==
  IF v.state = "normal" THEN v
  ELSE [v EXCEPT !.state = "normal", !.size = IF v.prev # "default" THEN v.prev ELSE @]
wm_restore_window(w, i) ==
  IF i \notin Indexes(w) THEN w ELSE [w EXCEPT !.win[i] = Restored(@)]

wm_focus_window(w, i) ==
  IF i \notin Indexes(w) THEN w
  ELSE LET back == IF w.win[i].state = "minimized" THEN wm_restore_window(w, i) ELSE w
       IN wm_bring_to_top([back EXCEPT !.active = i], i)

\* The topmost window left gets the focus, if one is to be seen.
FocusTopmost(w, seen) ==
  LET open == {n \in DOMAIN w.order : w.order[n] \in seen}
  IN IF open = {} THEN [w EXCEPT !.active = NoIndex]
     ELSE wm_focus_window(w, w.order[Max(open)])

Remembered(v) == IF v.state = "normal" THEN [v EXCEPT !.prev = v.size] ELSE v

wm_minimize_window(w, i) ==
  IF i \notin Indexes(w) THEN w
  ELSE LET down == [w EXCEPT !.win[i] = [Remembered(@) EXCEPT !.state = "minimized"]]
       IN FocusTopmost(down, Visible(down))

wm_maximize_window(w, i) ==
  IF i \notin Indexes(w) THEN w
  ELSE [w EXCEPT !.win[i] = [Remembered(@) EXCEPT !.state = "maximized", !.size = "full"]]

wm_toggle_maximize(w, i) ==
  IF i \in Indexes(w) /\ w.win[i].state = "maximized" THEN wm_restore_window(w, i)
  ELSE wm_maximize_window(w, i)

wm_snap_window(w, i, side) ==
  CASE side = "top" -> wm_maximize_window(w, i)
    [] side = "side" /\ i \in Indexes(w) ->
         [w EXCEPT !.win[i] = [Remembered(@) EXCEPT !.state = "normal", !.size = "own"]]
    [] OTHER -> w

Lowered(j, i) == IF j > i THEN j - 1 ELSE j

ClosesUnshifted(w, i) ==
  IF i \notin Indexes(w) THEN w
  ELSE FocusTopmost([w EXCEPT !.count = @ - 1, !.order = RemoveAt(@, Place(w, i))],
                    Visible([w EXCEPT !.count = @ - 1]))

wm_close_window(w, i) ==
  IF i \notin Indexes(w) THEN w
  ELSE LET kept == RemoveAt(w.order, Place(w, i))
           rest == [count |-> w.count - 1,
                    win |-> [j \in Slots |-> IF j >= i /\ j < w.count THEN w.win[j + 1]
                                             ELSE w.win[j]],
                    order |-> [n \in DOMAIN kept |-> Lowered(kept[n], i)],
                    active |-> w.active]
       IN FocusTopmost(rest, Visible(rest))

Same(w, unique) == {i \in Indexes(w) : unique /\ w.win[i].unique}

\* What was remembered of the slot's last window stays.
wm_open_window(w, unique) ==
  IF Same(w, unique) # {} THEN wm_focus_window(w, CHOOSE i \in Same(w, unique) : TRUE)
  ELSE IF w.count = WindowMax THEN w
  ELSE LET i == w.count + 1
       IN wm_focus_window(
            [w EXCEPT !.count = i,
                      !.win[i] = [@ EXCEPT !.unique = unique, !.state = "normal",
                                           !.size = "default"],
                      !.order = Append(@, i)], i)

wm_focus_next(w) ==
  IF w.count = 0 THEN w
  ELSE wm_focus_window(w, IF w.active = NoIndex THEN 1 ELSE (w.active % w.count) + 1)

(***************************************************************************)
(* The keyboard, and what opens a window: a key, the start menu, an icon.  *)
(***************************************************************************)
AtRest == ~hand.left /\ hand.menu = Closed
KeyComes == KeysInGestures \/ AtRest
Moved(j, i) == IF j = i THEN NoIndex ELSE Lowered(j, i)
HeldWithout(i) ==
  IF i = NoIndex THEN held ELSE [what \in DOMAIN held |-> Moved(held[what], i)]

Becomes(w) == wm' = w /\ UNCHANGED <<hand, held, shown>>
gui_open_window(unique) == Becomes(wm_open_window(wm, unique))
KeyCloses ==
  /\ KeyComes
  /\ wm' = wm_close_window(wm, wm.active)
  /\ held' = HeldWithout(wm.active)
  /\ UNCHANGED <<hand, shown>>
KeyFocusesNext == KeyComes /\ Becomes(wm_focus_next(wm))
KeyMaximises == KeyComes /\ wm.active # NoIndex /\ Becomes(wm_toggle_maximize(wm, wm.active))

(***************************************************************************)
(* The mouse.  The button's press goes to the menu when one is open, else  *)
(* to what is under the pointer.                                           *)
(***************************************************************************)
Press == ~hand.left
Pressed == [hand EXCEPT !.left = TRUE]
PressOnly(w) ==
  Press /\ hand.menu = Closed /\ wm' = w /\ hand' = Pressed /\ UNCHANGED <<held, shown>>

MenuOpens(i) ==
  /\ hand' = [hand EXCEPT !.menu = i]
  /\ held' = [held EXCEPT !.menu = IF i = Desktop THEN NoIndex ELSE i]
  /\ UNCHANGED <<wm, shown>>

MenuActs(w) ==
  /\ Press /\ hand.menu # Closed
  /\ hand' = [Pressed EXCEPT !.menu = Closed]
  /\ held' = [held EXCEPT !.menu = NoIndex]
  /\ wm' = w /\ UNCHANGED shown

MenuIsMissed == MenuActs(wm)
MenuItem(act) == hand.menu # Desktop /\ MenuActs(act)

WindowMenu ==
  LET i == hand.menu
  IN \/ MenuItem(wm_minimize_window(wm, i))
     \/ MenuItem(wm_toggle_maximize(wm, i))
     \/ MenuItem(wm_close_window(wm, i))

PressCloses(i) == PressOnly(wm_close_window(wm, i))
PressMinimises(i) == PressOnly(wm_minimize_window(wm, i))
PressMaximises(i) == PressOnly(wm_toggle_maximize(wm, i))
PressContents(i) == PressOnly(wm_focus_window(wm, i))
PressTaskbar(i) == PressOnly(wm_focus_window(wm, i))
PressNothing == PressOnly(wm)

PressBorder(i) ==
  /\ Press /\ hand.menu = Closed /\ wm.win[i].state = "normal"
  /\ wm' = wm_focus_window(wm, i)
  /\ hand' = [Pressed EXCEPT !.resize = i]
  /\ held' = [held EXCEPT !.resize = i]
  /\ UNCHANGED shown

\* A second press on the same title within 40 frames.
PressTitleAgain(i) ==
  /\ Press /\ hand.menu = Closed /\ hand.title = i
  /\ wm' = wm_toggle_maximize(wm_focus_window(wm, i), i)
  /\ hand' = [Pressed EXCEPT !.title = NoIndex]
  /\ UNCHANGED <<held, shown>>

\* A maximised window is restored first, to follow the pointer.
PressTitleBar(i) ==
  /\ Press /\ hand.menu = Closed
  /\ wm' = LET w == wm_focus_window(wm, i)
           IN IF w.win[i].state = "maximized" THEN wm_restore_window(w, i) ELSE w
  /\ hand' = [Pressed EXCEPT !.drag = i, !.title = i, !.snap = "none"]
  /\ held' = [held EXCEPT !.drag = i]
  /\ UNCHANGED shown

NothingHidden == [active |-> FALSE, mask |-> {}]

\* The corner of the task bar hides every window, and shows those it hid.
Hiding(w, i) == IF i \in Visible(w) THEN wm_minimize_window(w, i) ELSE w
Hidden ==
  LET after[n \in 0 .. wm.count] == IF n = 0 THEN wm ELSE Hiding(after[n - 1], n)
  IN after[wm.count]
Reshown ==
  [wm EXCEPT !.win = [i \in Slots |-> IF i \in shown.mask \cap Indexes(wm)
                                         /\ @[i].state = "minimized"
                                      THEN Restored(@[i]) ELSE @[i]]]
PressShowDesktop ==
  /\ Press /\ hand.menu = Closed
  /\ hand' = Pressed /\ UNCHANGED held
  /\ \/ /\ Visible(wm) # {}
        /\ wm' = Hidden
        /\ shown' = [active |-> TRUE, mask |-> Visible(wm)]
     \/ /\ Visible(wm) = {} /\ shown.active
        /\ wm' = Reshown
        /\ shown' = NothingHidden

\* Motion with the button down.
DragMoves(hint) ==
  /\ hand.left /\ hand.drag # NoIndex /\ hand.resize = NoIndex
  /\ wm' = wm_focus_window(wm, hand.drag)
  /\ hand' = [hand EXCEPT !.snap = hint]
  /\ UNCHANGED <<held, shown>>

ResizeMoves ==
  /\ hand.left /\ hand.resize \in Indexes(wm)
  /\ wm' = [wm EXCEPT !.win[hand.resize].size = "own"]
  /\ UNCHANGED <<hand, held, shown>>

LeftIsReleased ==
  /\ hand.left
  /\ wm' = CASE hand.drag = NoIndex -> wm
             [] hand.snap = "bottom" -> wm_minimize_window(wm, hand.drag)
             [] OTHER -> wm_snap_window(wm, hand.drag, hand.snap)
  /\ hand' = [hand EXCEPT !.left = FALSE, !.drag = NoIndex, !.resize = NoIndex, !.snap = "none"]
  /\ held' = [held EXCEPT !.drag = NoIndex, !.resize = NoIndex]
  /\ UNCHANGED shown

WmInit ==
  /\ wm = [count |-> 0, win |-> [i \in Slots |-> Vacant], order |-> <<>>, active |-> NoIndex]
  /\ hand = [left |-> FALSE, drag |-> NoIndex, resize |-> NoIndex, snap |-> "none",
             title |-> NoIndex, menu |-> Closed]
  /\ held = [drag |-> NoIndex, resize |-> NoIndex, menu |-> NoIndex]
  /\ shown = NothingHidden

WmNext ==
  \/ \E unique \in BOOLEAN : gui_open_window(unique)
  \/ KeyCloses \/ KeyFocusesNext \/ KeyMaximises
  \/ \E i \in Visible(wm) \cup {Desktop} : MenuOpens(i)
  \/ MenuIsMissed \/ WindowMenu
  \/ \E i \in Visible(wm) : PressCloses(i) \/ PressMinimises(i) \/ PressMaximises(i)
                            \/ PressContents(i) \/ PressBorder(i) \/ PressTitleAgain(i)
                            \/ PressTitleBar(i)
  \/ \E i \in Indexes(wm) : PressTaskbar(i)
  \/ PressNothing \/ PressShowDesktop
  \/ \E hint \in {"none", "side", "top", "bottom"} : DragMoves(hint)
  \/ ResizeMoves \/ LeftIsReleased

WmSpec == WmInit /\ [][WmNext]_wmVars

(***************************************************************************)
(* Properties.                                                             *)
(***************************************************************************)
WmTypeOK ==
  /\ wm.count \in 0 .. WindowMax
  /\ \A i \in Slots : wm.win[i].size \in {"default", "own", "full"}

\* z_order stays a permutation of the indexes, whatever is closed, focused,
\* hidden or dragged: a window it lost could neither be drawn nor hit.
OrderIsPermutation == Len(wm.order) = wm.count /\ Range(wm.order) = Indexes(wm)

\* The window that gets the keys is on top of all others, and to be seen.
ActiveIsTop ==
  wm.active # NoIndex => /\ wm.active \in Visible(wm)
                         /\ wm.order[wm.count] = wm.active

\* A drag, a resize and a window's menu act on the window they were begun on,
\* though closing a window moves the indexes: while they last, the mouse alone
\* cannot close one.
GesturesKeepWindow ==
  ~KeysInGestures =>
    /\ hand.drag = held.drag /\ hand.resize = held.resize
    /\ hand.menu \notin {Closed, Desktop} => hand.menu = held.menu
    /\ hand.drag # NoIndex => hand.drag \in Indexes(wm)

\* A window that is maximised fills the screen.
MaximizedIsFull ==
  \A i \in Indexes(wm) : wm.win[i].state = "maximized" => wm.win[i].size = "full"

WmSafe == WmTypeOK /\ OrderIsPermutation /\ ActiveIsTop /\ GesturesKeepWindow /\ MaximizedIsFull

\* A window that is dragged does not fill the screen (gui.c:8217-8219, a
\* maximised window is restored first "instead of staying stuck fullscreen").
DraggedIsNotFull ==
  hand.left /\ hand.drag \in Indexes(wm) => wm.win[hand.drag].size # "full"
=============================================================================
