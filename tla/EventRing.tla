----------------------------- MODULE EventRing -----------------------------
(***************************************************************************)
(* The queue of events of a window (gui/winsrv.c): a ring with two         *)
(* indices.  The loop of the desktop pushes; the application pops, and its *)
(* own calls push too (a new size, place or state).  A system call is one  *)
(* step.  The loop may be taken off the processor between the reading of   *)
(* the indices and the writing, when PushesArePreempted.                   *)
(***************************************************************************)
EXTENDS Integers, Sequences

CONSTANTS
  RingSize,            \* WINSRV_EVQ
  Buttons,             \* states of the mouse buttons
  PushesArePreempted

ASSUME RingAssumption == RingSize \in Nat \ {0, 1} /\ PushesArePreempted \in BOOLEAN

VARIABLES
  evq,      \* index -> event
  head, tail,
  pushing,  \* what the loop has read: [event, head, tail, merges], or NotPushing
  queue     \* the events to be delivered: what the ring stands for

ringVars == <<evq, head, tail, pushing, queue>>

Indices == 0 .. RingSize - 1
Next1(i) == (i + 1) % RingSize
MouseEvent(b, fresh) == [kind |-> "mouse", c |-> b, fresh |-> fresh]
OtherEvent == [kind |-> "other", c |-> 0, fresh |-> TRUE]
NotPushing == [busy |-> FALSE]

\* Motion with the buttons unchanged replaces the coordinates of the event
\* before it; fresh tells new coordinates from old.
Merges(h, t, e) ==
  h # t /\ LET last == evq[(t + RingSize - 1) % RingSize] IN
           e.kind = "mouse" /\ last.kind = "mouse" /\ last.c = e.c

\* What the queue is after a push: merged, or the oldest given up for it.
Pushed(q, e) ==
  IF q # <<>> /\ e.kind = "mouse" /\ q[Len(q)].kind = "mouse" /\ q[Len(q)].c = e.c
    THEN [q EXCEPT ![Len(q)] = e]
    ELSE Append(IF Len(q) = RingSize - 1 THEN Tail(q) ELSE q, e)

\* winsrv_push_event, on indices read before.
WithEvent(h, t, e, merges) ==
  IF merges
    THEN evq' = [evq EXCEPT ![(t + RingSize - 1) % RingSize] = e] /\ UNCHANGED <<head, tail>>
    ELSE /\ evq' = [evq EXCEPT ![t] = e]
         /\ tail' = Next1(t)
         /\ head' = IF Next1(t) = h THEN Next1(h) ELSE head


LoopReads(e) ==
  /\ ~pushing.busy
  /\ pushing' = [busy |-> TRUE, event |-> e, head |-> head, tail |-> tail,
                 merges |-> Merges(head, tail, e)]
  /\ UNCHANGED <<evq, head, tail, queue>>
LoopWrites ==
  /\ pushing.busy
  /\ WithEvent(pushing.head, pushing.tail, pushing.event, pushing.merges)
  /\ queue' = Pushed(queue, pushing.event)
  /\ pushing' = NotPushing

CallRuns == PushesArePreempted \/ ~pushing.busy
AppPushes ==
  /\ CallRuns
  /\ WithEvent(head, tail, OtherEvent, FALSE)
  /\ queue' = Pushed(queue, OtherEvent)
  /\ UNCHANGED pushing
winsrv_pop_event ==
  /\ CallRuns
  /\ head # tail
  /\ head' = Next1(head)
  /\ queue' = IF queue = <<>> THEN queue ELSE Tail(queue)
  /\ UNCHANGED <<evq, tail, pushing>>

RingEvents == {OtherEvent} \cup {MouseEvent(b, f) : b \in Buttons, f \in BOOLEAN}

RingInit ==
  /\ evq = [i \in Indices |-> OtherEvent]
  /\ head = 0 /\ tail = 0
  /\ pushing = NotPushing
  /\ queue = <<>>
RingNext == (\E e \in RingEvents : LoopReads(e)) \/ LoopWrites \/ AppPushes \/ winsrv_pop_event
RingSpec == RingInit /\ [][RingNext]_ringVars

(***************************************************************************)
(* Properties.                                                             *)
(***************************************************************************)
InRing == (tail - head + RingSize) % RingSize
RingTypeOK == head \in Indices /\ tail \in Indices /\ Len(queue) < RingSize

\* The ring holds the events that were pushed and not popped, in their order:
\* when it is full the oldest goes, and a motion replaces the one before it
\* (winsrv.c: the release, keys and close are sure to be queued).
RingIsQueue ==
  /\ InRing = Len(queue)
  /\ \A i \in 1 .. Len(queue) : evq[(head + i - 1) % RingSize] = queue[i]

RingSafe == RingTypeOK /\ RingIsQueue
=============================================================================
