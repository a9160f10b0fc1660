-------------------------------- MODULE Xhci --------------------------------
(***************************************************************************)
(* The rings of the USB controller (xhci.c).  The driver posts transfers   *)
(* to the ring of an endpoint, the controller carries them out and writes  *)
(* events to the event ring, and whoever polls takes the events.  Who owns *)
(* an entry is told by a bit that changes its meaning with every lap; a    *)
(* transfer ring ends with a link.  "bulk" is used by one task that waits  *)
(* for each transfer; "int" is armed once, with a buffer of its own, and   *)
(* armed again by the poll that takes its event.                           *)
(***************************************************************************)
EXTENDS Integers, Sequences

CONSTANTS
  TrbRingSize,    \* XHCI_TRB_RING_SIZE, the link included
  EventRingSize,  \* XHCI_EVENT_RING_SIZE
  Serials,        \* transfers are numbered modulo this
  MaxGivenUp      \* bulk transfers given up

ASSUME XhciAssumption ==
  /\ TrbRingSize \in Nat \ {0, 1} /\ EventRingSize \in Nat \ {0, 1}
  /\ Serials \in Nat \ {0} /\ MaxGivenUp \in Nat

Endpoints == {"bulk", "int"}

VARIABLES
  xring,    \* endpoint -> index -> [type, cycle, serial]
  xdrv,     \* endpoint -> [idx, cycle]: ep_ring_idx, ep_ring_cycle
  xctl,     \* endpoint -> [idx, cycle]: where the controller is
  ering,    \* the event ring: index -> [type, cycle, ep, serial]
  edrv,     \* [idx, cycle]: event_ring_idx, event_ring_cycle; idx is ERDP
  ectl,     \* [idx, cycle]: where the controller writes
  eint,     \* the controller's EINT
  has_data, \* endpoint -> ep_has_data: NoSerial, or the serial completed
  waits,    \* the bulk transfer a task waits for, or NoSerial
  command,  \* "none", "posted", "answered": the command ring
  posted,   \* endpoint -> serials posted and not carried out, in order
  eventTrbs,   \* the events written and not taken, in order
  serial,   \* the serial of the next transfer
  givenUp,  \* bulk transfers given up
  passedOver \* an event of a transfer was passed over

xhciVars == <<xring, xdrv, xctl, ering, edrv, ectl, eint, has_data, waits, command,
              posted, eventTrbs, serial, givenUp, passedOver>>

LinkAt == TrbRingSize - 1
NoSerial == -1
BlankTrb == [type |-> "normal", cycle |-> 0, serial |-> 0]
NoEvent == [type |-> "none", cycle |-> 0, ep |-> "bulk", serial |-> 0]

(***************************************************************************)
(* The driver.                                                             *)
(***************************************************************************)
\* xhci_post_transfer_trb: at the link, the link is handed over with the bit
\* of this lap, and the entry goes to the start of the next.
PostPlace(d) == IF d.idx = LinkAt THEN [idx |-> 0, cycle |-> 1 - d.cycle] ELSE d
Onward(d) == [PostPlace(d) EXCEPT !.idx = @ + 1]
\* Mutant: the link keeps the bit of its lap.
LinkedNot(r, d) == r
Linked(r, d) ==
  IF d.idx = LinkAt THEN [r EXCEPT ![LinkAt] = [type |-> "link", cycle |-> d.cycle, serial |-> 0]]
  ELSE r
PostedRing(r, d, s) ==
  [Linked(r, d) EXCEPT ![PostPlace(d).idx] =
     [type |-> "normal", cycle |-> PostPlace(d).cycle, serial |-> s]]

\* Bulk transfers bring their buffers; the interrupt endpoint has one.
Buffer(ep) == IF ep = "bulk" THEN serial ELSE 0
xhci_post_transfer_trb(ep) ==
  /\ xring' = [xring EXCEPT ![ep] = PostedRing(@, xdrv[ep], Buffer(ep))]
  /\ xdrv' = [xdrv EXCEPT ![ep] = Onward(@)]
  /\ posted' = [posted EXCEPT ![ep] = Append(@, Buffer(ep))]
  /\ serial' = IF ep = "bulk" THEN (serial + 1) % Serials ELSE serial

xhci_bulk_transfer_packet ==
  /\ waits = NoSerial /\ command = "none"
  /\ xhci_post_transfer_trb("bulk")
  /\ has_data' = [has_data EXCEPT !["bulk"] = NoSerial]
  /\ waits' = serial
  /\ UNCHANGED <<xctl, ering, edrv, ectl, eint, command, eventTrbs, givenUp, passedOver>>

xhci_event_ready == ering[edrv.idx].cycle = edrv.cycle /\ ering[edrv.idx].type # "none"
AdvancedEvent(e) ==
  IF e.idx + 1 >= EventRingSize THEN [idx |-> 0, cycle |-> 1 - e.cycle]
  ELSE [e EXCEPT !.idx = @ + 1]
TrbTaken == edrv' = AdvancedEvent(edrv) /\ eventTrbs' = Tail(eventTrbs)

\* xhci_poll takes events while there are any; each is a step, and the
\* controller may write another meanwhile.
PollTransfer ==
  /\ command = "none" /\ eint
  /\ xhci_event_ready /\ ering[edrv.idx].type = "transfer"
  /\ LET e == ering[edrv.idx] IN
       /\ has_data' = [has_data EXCEPT ![e.ep] = e.serial]
       /\ IF e.ep = "int" THEN xhci_post_transfer_trb("int")
          ELSE UNCHANGED <<xring, xdrv, posted, serial>>
  /\ TrbTaken
  /\ UNCHANGED <<xctl, ering, ectl, eint, waits, command, givenUp, passedOver>>
PollNothing ==
  /\ command = "none" /\ eint /\ ~xhci_event_ready
  /\ eint' = FALSE
  /\ UNCHANGED <<xring, xdrv, xctl, ering, edrv, ectl, has_data, waits, command, posted,
                 eventTrbs, serial, givenUp, passedOver>>

BulkReturns ==
  /\ waits # NoSerial /\ has_data["bulk"] # NoSerial
  /\ has_data' = [has_data EXCEPT !["bulk"] = NoSerial]
  /\ waits' = NoSerial
  /\ UNCHANGED <<xring, xdrv, xctl, ering, edrv, ectl, eint, command, posted, eventTrbs,
                 serial, givenUp, passedOver>>
BulkTimesOut ==
  /\ givenUp < MaxGivenUp /\ waits # NoSerial /\ has_data["bulk"] = NoSerial
  /\ waits' = NoSerial /\ givenUp' = givenUp + 1
  /\ UNCHANGED <<xring, xdrv, xctl, ering, edrv, ectl, eint, has_data, command, posted,
                 eventTrbs, serial, passedOver>>
IntReturns ==
  /\ has_data["int"] # NoSerial
  /\ has_data' = [has_data EXCEPT !["int"] = NoSerial]
  /\ UNCHANGED <<xring, xdrv, xctl, ering, edrv, ectl, eint, waits, command, posted,
                 eventTrbs, serial, givenUp, passedOver>>

\* xhci_send_cmd and xhci_wait_cmd_resp: events of other kinds that come before
\* the answer are passed over.
xhci_post_cmd ==
  /\ command = "none"
  /\ command' = "posted"
  /\ UNCHANGED <<xring, xdrv, xctl, ering, edrv, ectl, eint, has_data, waits, posted,
                 eventTrbs, serial, givenUp, passedOver>>
xhci_wait_cmd_resp ==
  /\ command # "none" /\ xhci_event_ready
  /\ ering[edrv.idx].type # "command"
  /\ passedOver' = TRUE
  /\ TrbTaken
  /\ UNCHANGED <<xring, xdrv, xctl, ering, ectl, eint, has_data, waits, command, posted,
                 serial, givenUp>>

\* The answer ends a command.  The first read of an interrupt endpoint sends
\* one to configure it (xhci_get_or_create_ep_ring), and then arms it.
Armed == xdrv["int"] # [idx |-> 0, cycle |-> 1]
xhci_send_cmd ==
  /\ command # "none" /\ xhci_event_ready
  /\ ering[edrv.idx].type = "command"
  /\ command' = "none"
  /\ \/ UNCHANGED <<xring, xdrv, posted, serial>>
     \/ ~Armed /\ xhci_post_transfer_trb("int")
  /\ TrbTaken
  /\ UNCHANGED <<xctl, ering, ectl, eint, has_data, waits, givenUp, passedOver>>

(***************************************************************************)
(* The controller.  It writes no event that would reach the driver's place *)
(* in the ring, and raises EINT with each (as the emulated one does); the  *)
(* doorbell that follows every post makes it look at the ring again.       *)
(***************************************************************************)
EventRoom == AdvancedEvent(ectl).idx # edrv.idx
WriteTrb(type, ep, s) ==
  /\ EventRoom
  /\ ering' = [ering EXCEPT ![ectl.idx] =
                 [type |-> type, cycle |-> ectl.cycle, ep |-> ep, serial |-> s]]
  /\ ectl' = AdvancedEvent(ectl)
  /\ eventTrbs' = Append(eventTrbs, [type |-> type, ep |-> ep, serial |-> s])
  /\ eint' = TRUE

Here(ep) == xring[ep][xctl[ep].idx]
Owned(ep) == Here(ep).cycle = xctl[ep].cycle

PastLink(c) == [c EXCEPT !.idx = 0, !.cycle = 1 - @]
FollowLink(ep) ==
  /\ Owned(ep) /\ Here(ep).type = "link"
  /\ xctl' = [xctl EXCEPT ![ep] = PastLink(@)]
  /\ UNCHANGED <<xring, xdrv, ering, edrv, ectl, eint, has_data, waits, command, posted,
                 eventTrbs, serial, givenUp, passedOver>>
CarryOut(ep) ==
  /\ Owned(ep) /\ Here(ep).type = "normal"
  /\ WriteTrb("transfer", ep, Here(ep).serial)
  /\ xctl' = [xctl EXCEPT ![ep].idx = @ + 1]
  /\ posted' = [posted EXCEPT ![ep] = IF @ = <<>> THEN @ ELSE Tail(@)]
  /\ UNCHANGED <<xring, xdrv, edrv, has_data, waits, command, serial, givenUp, passedOver>>
AnswerCommand ==
  /\ command = "posted"
  /\ WriteTrb("command", "bulk", 0)
  /\ command' = "answered"
  /\ UNCHANGED <<xring, xdrv, xctl, edrv, has_data, waits, posted, serial, givenUp, passedOver>>

XhciInit ==
  /\ xring = [ep \in Endpoints |-> [i \in 0 .. LinkAt |->
                IF i = LinkAt THEN [BlankTrb EXCEPT !.type = "link"] ELSE BlankTrb]]
  /\ xdrv = [ep \in Endpoints |-> [idx |-> 0, cycle |-> 1]]
  /\ xctl = [ep \in Endpoints |-> [idx |-> 0, cycle |-> 1]]
  /\ ering = [i \in 0 .. EventRingSize - 1 |-> NoEvent]
  /\ edrv = [idx |-> 0, cycle |-> 1] /\ ectl = [idx |-> 0, cycle |-> 1]
  /\ eint = FALSE
  /\ has_data = [ep \in Endpoints |-> NoSerial]
  /\ waits = NoSerial /\ command = "none"
  /\ posted = [ep \in Endpoints |-> <<>>] /\ eventTrbs = <<>>
  /\ serial = 0 /\ givenUp = 0 /\ passedOver = FALSE

XhciNext ==
  \/ xhci_bulk_transfer_packet
  \/ PollTransfer \/ PollNothing \/ BulkReturns \/ BulkTimesOut \/ IntReturns
  \/ xhci_post_cmd \/ xhci_wait_cmd_resp \/ xhci_send_cmd \/ AnswerCommand
  \/ \E ep \in Endpoints : FollowLink(ep) \/ CarryOut(ep)

XhciSpec == XhciInit /\ [][XhciNext]_xhciVars

(***************************************************************************)
(* Properties.                                                             *)
(***************************************************************************)
XhciTypeOK ==
  /\ \A ep \in Endpoints : xdrv[ep].idx \in 0 .. LinkAt /\ xctl[ep].idx \in 0 .. LinkAt
  /\ edrv.idx \in 0 .. EventRingSize - 1 /\ ectl.idx \in 0 .. EventRingSize - 1

\* The driver sees an event exactly when one has been written and not taken,
\* and it is the oldest.
EventsInStep ==
  /\ xhci_event_ready <=> eventTrbs # <<>>
  /\ eventTrbs # <<>> =>
       LET e == ering[edrv.idx] IN
       [type |-> e.type, ep |-> e.ep, serial |-> e.serial] = Head(eventTrbs)

\* The controller finds the transfers that were posted, once each and in their
\* order, across the link.
After(ep) ==
  IF Owned(ep) /\ Here(ep).type = "link"
    THEN LET first == xring[ep][0] IN
         IF first.cycle = 1 - xctl[ep].cycle THEN <<first.serial>> ELSE <<>>
    ELSE IF Owned(ep) /\ Here(ep).type = "normal" THEN <<Here(ep).serial>> ELSE <<>>
TransfersInStep ==
  \A ep \in Endpoints :
    /\ posted[ep] # <<>> => After(ep) = <<Head(posted[ep])>>
    /\ posted[ep] = <<>> => After(ep) = <<>>

\* As long as no transfer was given up, a task that waits takes the completion
\* of its own.
AnswersAreOwn ==
  givenUp = 0 /\ waits # NoSerial /\ has_data["bulk"] # NoSerial => has_data["bulk"] = waits

OnItsWay(ep) ==
  \E i \in DOMAIN eventTrbs : eventTrbs[i].ep = ep /\ eventTrbs[i].type = "transfer"

\* Once armed, the interrupt endpoint has a transfer posted, or an event on
\* its way that will post the next: a key press is always heard, unless the
\* wait for a command passed its event over.
StaysArmed ==
  Armed /\ ~passedOver => posted["int"] # <<>> \/ OnItsWay("int")

\* A waiting task has its transfer posted, an event on its way, or its answer.
WaitIsAnswered ==
  waits # NoSerial /\ ~passedOver =>
    has_data["bulk"] # NoSerial \/ posted["bulk"] # <<>> \/ OnItsWay("bulk")

\* Events not yet taken are announced, so that the next poll looks.
EventsAreAnnounced == eventTrbs # <<>> => eint

XhciSafe == XhciTypeOK /\ EventsInStep /\ TransfersInStep /\ AnswersAreOwn /\ StaysArmed
            /\ WaitIsAnswered /\ EventsAreAnnounced
=============================================================================
