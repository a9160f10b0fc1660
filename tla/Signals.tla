------------------------------ MODULE Signals ------------------------------
(***************************************************************************)
(* Signals of one process: task_kill and task_sig_deliver (core/task.c),   *)
(* the frames that syscall.c builds on the user's stack and takes back, the *)
(* alternate stack, and a signalfd (linux_compat.c).  The program returns   *)
(* from its handlers in order and does not edit its frames.  Frames are     *)
(* counted in stack positions; of registers the frames keep the context     *)
(* they return to, a number of handlers.                                    *)
(***************************************************************************)
EXTENDS Naturals, Sequences, SequencesExt, FiniteSets

CONSTANTS SignalCount,  \* signals are numbers, and low ones come first
          FatalSignals, \* the default action ends the task
          TermSignal,   \* SIGTERM, which task_kill acts on at once
          FaultSignal,  \* SIGSEGV
          FlagSets,     \* the sa_flags that programs use
          HandlerMasks, \* the sa_masks that programs use
          Masks,        \* the other sets of signals that programs use
          NestMax,      \* LINUX_SIGINFO_NEST_MAX
          AltFrames,    \* frames that fit on the alternate stack
          SignalQueue,  \* LINUX_SIGNALFD_QUEUE
          MaxSent,      \* bound: signals sent
          MaxFaults,    \* bound: page faults
          ForksInHandler \* whether a handler may call fork

ASSUME SignalsAssumption ==
    /\ {SignalCount, NestMax, AltFrames, SignalQueue} \subseteq Nat \ {0}
    /\ MaxSent \in Nat /\ MaxFaults \in Nat
    /\ Masks \cup HandlerMasks \subseteq SUBSET (1 .. SignalCount)
    /\ FatalSignals \cup {TermSignal, FaultSignal} \subseteq 1 .. SignalCount

VARIABLES signals,  \* the signal fields of task_t and of the user's stack
          handlers, \* ghost: the handlers entered and not left, oldest first
          owed,     \* ghost: signals accepted that the program has not seen
          sent,     \* ghost: how many were sent
          faults    \* ghost: how many page faults there were

signalVars == <<signals, handlers, owed, sent, faults>>

SignalNumbers == 1 .. SignalCount
Lowest(S) == CHOOSE s \in S : \A t \in S : s <= t

Positions == [stack : {"main", "alt"}, at : 0 .. NestMax]
UserActions == [handler : {"user"}, flags : FlagSets, mask : HandlerMasks]
DefaultAction == [handler |-> "default", flags |-> {}, mask |-> {}]
IgnoreAction == [handler |-> "ignore", flags |-> {}, mask |-> {}]
Frames == [blocked : SUBSET SignalNumbers, rsp : Positions, below : 0 .. NestMax]
Bottom == [stack |-> "main", at |-> 0]
NoFrame == [blocked |-> {}, rsp |-> Bottom, below |-> 0]

SignalsInit ==
    /\ signals = [alive |-> TRUE, pending |-> {}, blocked |-> {},
                  action |-> [s \in SignalNumbers |-> DefaultAction],
                  frame_active |-> FALSE, saved |-> NoFrame, siginfo_depth |-> 0,
                  altstack |-> FALSE, rsp |-> Bottom,
                  stack |-> [p \in Positions |-> NoFrame],
                  watched |-> {}, queue |-> <<>>]
    /\ handlers = <<>> /\ owed = {} /\ sent = 0 /\ faults = 0

\* the part of a state that an operation of the program changes
Current == [signals |-> signals, handlers |-> handlers, owed |-> owed]
Becomes(now) == signals' = now.signals /\ handlers' = now.handlers /\ owed' = now.owed

-----------------------------------------------------------------------------
(* Delivery to a handler                                                   *)

linux_on_altstack(st) == st.altstack /\ st.rsp.stack = "alt" /\ st.rsp.at \in 1 .. AltFrames

\* where linux_siginfo_deliver builds the next frame
FrameAt(st, flags) ==
    IF "ONSTACK" \in flags /\ st.altstack /\ ~linux_on_altstack(st)
    THEN [stack |-> "alt", at |-> 1]
    ELSE [st.rsp EXCEPT !.at = @ + 1]

linux_signal_consume(st, s) ==
    LET a == st.action[s] IN
    [st EXCEPT !.pending = @ \ {s},
               !.blocked = @ \cup a.mask \cup (IF "NODEFER" \in a.flags THEN {} ELSE {s}),
               !.action[s] = IF "RESETHAND" \in a.flags THEN DefaultAction ELSE @]

Entered(now, st, s, kind) ==
    [signals |-> st,
     handlers |-> Append(now.handlers, [sig |-> s, kind |-> kind,
                    was |-> [blocked |-> now.signals.blocked, rsp |-> now.signals.rsp]]),
     owed |-> now.owed \ {s}]

Interrupted(now) == [blocked |-> now.signals.blocked, rsp |-> now.signals.rsp,
                     below |-> Len(now.handlers)]

linux_siginfo_deliver(now, s) ==
    LET st == now.signals
        cell == FrameAt(st, st.action[s].flags)
        built == [linux_signal_consume(st, s) EXCEPT !.stack[cell] = Interrupted(now),
                       !.siginfo_depth = @ + 1, !.rsp = cell]
    IN Entered(now, built, s, "siginfo")

SavedDeliver(now, s) ==
    LET built == [linux_signal_consume(now.signals, s) EXCEPT !.saved = Interrupted(now),
                       !.frame_active = TRUE, !.rsp.at = @ + 1]
    IN Entered(now, built, s, "saved")

(* mutant: a one-argument handler may interrupt a SA_SIGINFO handler       *)
SavedFrameTakenNot(st) == st.frame_active

\* a frame in the task's own slot and frames on the stack exclude each other
SavedFrameTaken(st) == st.frame_active \/ st.siginfo_depth > 0

CanEnter(st, s) ==
    /\ "RESTORER" \in st.action[s].flags
    /\ IF "SIGINFO" \in st.action[s].flags
       THEN ~st.frame_active /\ st.siginfo_depth < NestMax
       ELSE ~SavedFrameTaken(st)

Enter(now, s) == IF "SIGINFO" \in now.signals.action[s].flags
                 THEN linux_siginfo_deliver(now, s) ELSE SavedDeliver(now, s)

(* mutant: signals without a handler are considered, and end the search    *)
HandledAny(st) == st.pending \ st.blocked

Handled(st) == {s \in st.pending \ st.blocked : st.action[s].handler = "user"}

\* at the end of every system call; only the first handled signal is tried
linux_signal_prepare_return(now) ==
    LET st == now.signals IN
    IF Handled(st) # {} /\ CanEnter(st, Lowest(Handled(st)))
    THEN Enter(now, Lowest(Handled(st))) ELSE now

linux_signal_prepare_exception ==
    LET s == FaultSignal
        now == Current
        entered == signals.action[s].handler = "user" /\ s \notin signals.blocked
                     /\ CanEnter(signals, s)
    IN
    /\ signals.alive /\ faults < MaxFaults
    /\ faults' = faults + 1
    /\ Becomes(IF entered THEN Enter(now, s)
               ELSE [now EXCEPT !.signals.alive = FALSE]) \* task_exit
    /\ UNCHANGED sent

linux_rt_sigreturn ==
    LET frame == IF signals.siginfo_depth > 0 THEN signals.stack[signals.rsp] ELSE signals.saved
        freed == IF signals.siginfo_depth > 0
                 THEN [signals EXCEPT !.siginfo_depth = @ - 1, !.stack[signals.rsp] = NoFrame]
                 ELSE [signals EXCEPT !.frame_active = FALSE, !.saved = NoFrame]
    IN
    /\ signals.alive /\ handlers # <<>>
    /\ signals.siginfo_depth > 0 \/ signals.frame_active \* else EINVAL
    /\ signals' = [freed EXCEPT !.blocked = frame.blocked, !.rsp = frame.rsp]
    /\ handlers' = SubSeq(handlers, 1, frame.below)
    /\ UNCHANGED <<owed, sent, faults>> \* sig_suppress_delivery

-----------------------------------------------------------------------------
(* System calls.  Each ends in linux_signal_prepare_return.                *)

Call(now) == /\ signals.alive
             /\ Becomes(linux_signal_prepare_return(now))
             /\ UNCHANGED <<sent, faults>>

OtherCall == Call(Current)

linux_rt_sigaction(s, action) == Call([Current EXCEPT !.signals.action[s] = action])

\* SIG_SETMASK stands for the three forms
SigProcMask(mask) == Call([Current EXCEPT !.signals.blocked = mask])

linux_sigaltstack(enable) ==
    /\ ~linux_on_altstack(signals) \* else EPERM
    /\ Call([Current EXCEPT !.signals.altstack = enable])

linux_compat_signalfd(mask) == Call([Current EXCEPT !.signals.watched = mask])

ReadSignalfd ==
    /\ signals.queue # <<>>
    /\ Call([Current EXCEPT !.signals.queue = Tail(@), !.owed = @ \ {Head(signals.queue)}])

\* task_fork_copy, seen from the child, which has the parent's memory
Fork ==
    /\ signals.alive
    /\ handlers = <<>> \/ ForksInHandler
    /\ Becomes([Current EXCEPT !.signals = [@ EXCEPT !.pending = {}, !.frame_active = FALSE,
                   !.siginfo_depth = 0, !.watched = {}, !.queue = <<>>], !.owed = {}])
    /\ UNCHANGED <<sent, faults>>

-----------------------------------------------------------------------------
(* The kernel's side                                                       *)

task_kill(s) ==
    /\ signals.alive /\ sent < MaxSent
    /\ sent' = sent + 1
    /\ \/ /\ s = TermSignal /\ signals.action[s].handler = "default"
          /\ signals' = [signals EXCEPT !.alive = FALSE]
          /\ UNCHANGED owed
       \/ /\ signals.action[s].handler = "ignore"
          /\ UNCHANGED <<signals, owed>>
       \/ /\ ~(s = TermSignal /\ signals.action[s].handler = "default")
          /\ signals.action[s].handler # "ignore"
          /\ signals' = [signals EXCEPT !.pending = @ \cup {s}]
          /\ owed' = owed \cup {s}
    /\ UNCHANGED <<handlers, faults>>

Blocked(st) == {s \in st.pending : s \in st.blocked}
FirstPending(st) == IF st.pending \subseteq st.blocked THEN SignalCount + 1
             ELSE Lowest(st.pending \ st.blocked)

\* what linux_compat_signalfd_consume takes before the loop ends
Taken(st) == {s \in Blocked(st) : s < FirstPending(st) /\ s \in st.watched}

Ascending(S) ==
    [k \in 1 .. Cardinality(S) |-> CHOOSE s \in S : Cardinality({t \in S : t < s}) = k - 1]

Queued(st) ==
    LET all == st.queue \o Ascending(Taken(st))
    IN SubSeq(all, 1, IF Len(all) < SignalQueue THEN Len(all) ELSE SignalQueue)

\* when the task is switched to: the loop ends at the first unblocked signal
task_sig_deliver ==
    LET s == FirstPending(signals)
        disposed == s \in SignalNumbers /\ signals.action[s].handler # "user"
        gone == IF disposed THEN {s} ELSE {}
    IN
    /\ signals.alive /\ signals.pending # {}
    /\ signals' = [signals EXCEPT !.pending = (@ \ Taken(signals)) \ gone,
                      !.queue = Queued(signals),
                      !.alive = ~(disposed /\ signals.action[s].handler = "default"
                                    /\ s \in FatalSignals)]
    /\ owed' = owed \ gone
    /\ UNCHANGED <<handlers, sent, faults>>

SignalsNext ==
    \/ OtherCall \/ ReadSignalfd \/ Fork
    \/ \E s \in SignalNumbers, a \in UserActions \cup {DefaultAction, IgnoreAction} :
         linux_rt_sigaction(s, a)
    \/ \E mask \in Masks : SigProcMask(mask)
    \/ \E enable \in BOOLEAN : linux_sigaltstack(enable)
    \/ \E mask \in Masks : linux_compat_signalfd(mask)
    \/ linux_rt_sigreturn \/ linux_signal_prepare_exception
    \/ \E s \in SignalNumbers : task_kill(s)
    \/ task_sig_deliver

\* The program goes on making calls and leaves its handlers.
SignalsFair == WF_signalVars(OtherCall) /\ WF_signalVars(linux_rt_sigreturn)
SignalsSpec == SignalsInit /\ [][SignalsNext]_signalVars /\ SignalsFair

-----------------------------------------------------------------------------
(* Properties                                                              *)

SignalsTypeOK ==
    /\ signals \in [alive : BOOLEAN, pending : SUBSET SignalNumbers,
                    blocked : SUBSET SignalNumbers,
                    action : [SignalNumbers -> UserActions \cup {DefaultAction, IgnoreAction}],
                    frame_active : BOOLEAN, saved : Frames, siginfo_depth : 0 .. NestMax,
                    altstack : BOOLEAN, rsp : Positions, stack : [Positions -> Frames],
                    watched : SUBSET SignalNumbers,
                    queue : Seq(SignalNumbers)]
    /\ Len(signals.queue) <= SignalQueue
    /\ owed \subseteq SignalNumbers
    /\ sent \in 0 .. MaxSent /\ faults \in 0 .. MaxFaults

(* Whatever handlers are running, on whichever stack and with whatever     *)
(* masks, the frame that rt_sigreturn will use for each is the one made    *)
(* when it was entered: it gives back the mask, the stack and the context  *)
(* that were interrupted.  Frames on the stack and the slot in task_t have *)
(* to agree with sig_siginfo_depth and sig_frame_active about whose turn   *)
(* it is.                                                                  *)
FrameOf(i) ==
    IF handlers[i].kind = "saved" THEN signals.saved
    ELSE signals.stack[IF i = Len(handlers) THEN signals.rsp ELSE handlers[i + 1].was.rsp]
FramesIntact ==
    /\ signals.siginfo_depth = Cardinality({i \in DOMAIN handlers : handlers[i].kind = "siginfo"})
    /\ signals.frame_active <=> \E i \in DOMAIN handlers : handlers[i].kind = "saved"
    /\ \A i \in DOMAIN handlers :
         FrameOf(i) = [blocked |-> handlers[i].was.blocked, rsp |-> handlers[i].was.rsp,
                       below |-> i - 1]

(* A signal that was accepted and neither ignored nor discarded by default *)
(* is still pending or waits in the signalfd until the program sees it: a  *)
(* blocked signal, a handler that cannot start yet, the signalfd and the   *)
(* early ends of both delivery loops lose none.                            *)
AcceptedIsKept ==
    signals.alive => owed \subseteq signals.pending \cup ToSet(signals.queue)

SignalsSafe == SignalsTypeOK /\ FramesIntact /\ AcceptedIsKept

(* A pending signal with a handler is delivered, unless it is blocked or   *)
(* given another action or the task ends: neither lower signals nor frames *)
(* in use hold it back for ever, as the program goes on making calls.      *)
Waits(s) == signals.alive /\ s \in Handled(signals)
HandlersRun == \A s \in SignalNumbers : Waits(s) ~> ~Waits(s)
=============================================================================
