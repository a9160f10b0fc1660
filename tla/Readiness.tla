------------------------------ MODULE Readiness ------------------------------
(***************************************************************************)
(* epoll and poll (linux_compat.c): the table of watches, the scan with    *)
(* its edge-triggered and one-shot forms, and the loops that wait.         *)
(*                                                                         *)
(* A source is whatever fd_ready_mask looks at: a pipe, an event counter,  *)
(* the receive ring of a socket, an inotify queue.  It holds 0 to          *)
(* SourceRoom items; it is readable unless empty and writable unless full. *)
(***************************************************************************)
EXTENDS Integers, FiniteSets, FiniteSetsExt

CONSTANTS WatchedFds,    \* descriptor numbers
          WatchSlots,    \* 1 .. LINUX_EPOLL_WATCHES, or a part of it
          Sources,       \* the objects that numbers can lead to
          SourceRoom,    \* how much a source holds
          MaxEvents,     \* max_events of epoll_wait
          PollSets,      \* the sets of descriptors that programs poll
          Interests,     \* the event masks that programs ask for
          WatchForms,    \* the EPOLLET, EPOLLONESHOT flags that programs use
          ClosesWatched  \* whether programs close a descriptor they watch

ASSUME ReadyAssumption ==
    /\ WatchSlots \subseteq Nat /\ WatchedFds \subseteq Nat /\ SourceRoom \in Nat
    /\ "closed" \notin Sources
    /\ WatchForms \subseteq [edge : BOOLEAN, oneshot : BOOLEAN]
    /\ Interests \subseteq SUBSET {"in", "out"}
    /\ PollSets \subseteq SUBSET WatchedFds
    /\ ClosesWatched \in BOOLEAN

VARIABLES leads,    \* number -> source, or "closed"
          held,     \* source -> items
          watches,  \* slot -> watch, or NoWatch
          waiter,   \* epoll_wait: "out", "timed", "untimed"
          poller,   \* poll: the numbers waited for; {} when not called
          fresh     \* source -> an item came under an edge-triggered watch
                  \* and its readiness was not reported since

readyVars == <<leads, held, watches, waiter, poller, fresh>>

NoWatch == [fd |-> -1]
Watch == [fd : WatchedFds, source : Sources, edge : BOOLEAN, oneshot : BOOLEAN,
          events : SUBSET {"in", "out"}, last_mask : SUBSET {"in", "out"},
          oneshot_done : BOOLEAN,
          fired : 0 .. 2]   \* reports since it was armed, 2 for more

ReadyTypeOK ==
    /\ leads \in [WatchedFds -> Sources \cup {"closed"}]
    /\ held \in [Sources -> 0 .. SourceRoom]
    /\ watches \in [WatchSlots -> Watch \cup {NoWatch}]
    /\ waiter \in {"out", "timed", "untimed"}
    /\ poller \subseteq WatchedFds
    /\ fresh \in [Sources -> BOOLEAN]

ReadyInit ==
    /\ leads = [fd \in WatchedFds |-> "closed"]
    /\ held = [s \in Sources |-> 0]
    /\ watches = [i \in WatchSlots |-> NoWatch]
    /\ waiter = "out"
    /\ poller = {}
    /\ fresh = [s \in Sources |-> FALSE]

fd_ready_mask(fd) ==
    IF leads[fd] = "closed" THEN {}
    ELSE {m \in {"in", "out"} : \/ m = "in" /\ held[leads[fd]] > 0
                                \/ m = "out" /\ held[leads[fd]] < SourceRoom}

-----------------------------------------------------------------------------
(* What the program and its peers do to descriptors and sources. *)

Watches(fd) == {i \in WatchSlots : watches[i].fd = fd}

(* A new object takes a free number. *)
Open(fd, s) ==
    /\ leads[fd] = "closed"
    /\ \A other \in WatchedFds : leads[other] # s
    /\ leads' = [leads EXCEPT ![fd] = s]
    /\ held' = [held EXCEPT ![s] = 0]
    /\ fresh' = [fresh EXCEPT ![s] = FALSE]
    /\ UNCHANGED <<watches, waiter, poller>>

(* close: the watches of the number stay. *)
Close(fd) ==
    /\ leads[fd] # "closed"
    /\ ClosesWatched \/ Watches(fd) = {}
    /\ leads' = [leads EXCEPT ![fd] = "closed"]
    /\ UNCHANGED <<held, watches, waiter, poller, fresh>>

Put(s) ==
    /\ held[s] < SourceRoom
    /\ \E fd \in WatchedFds : leads[fd] = s
    /\ held' = [held EXCEPT ![s] = @ + 1]
    /\ fresh' = [fresh EXCEPT ![s] =
                   \E i \in WatchSlots :
                       watches[i] # NoWatch /\ watches[i].edge /\ leads[watches[i].fd] = s]
    /\ UNCHANGED <<leads, watches, waiter, poller>>

(* A read of everything, as the edge-triggered contract asks. *)
Drain(s) ==
    /\ held[s] > 0
    /\ held' = [held EXCEPT ![s] = 0]
    /\ fresh' = [fresh EXCEPT ![s] = FALSE]
    /\ UNCHANGED <<leads, watches, waiter, poller>>

-----------------------------------------------------------------------------
(* epoll_ctl. *)

Armed(fd, form, interest) ==
    [fd |-> fd, source |-> leads[fd], edge |-> form.edge, oneshot |-> form.oneshot,
     events |-> interest, last_mask |-> {}, oneshot_done |-> FALSE,
     fired |-> 0]

EpollAdd(fd, form, interest) ==
    LET empty == {i \in WatchSlots : watches[i] = NoWatch} IN
    /\ leads[fd] # "closed"
    /\ Watches(fd) = {} /\ empty # {}
    /\ watches' = [watches EXCEPT ![Min(empty)] = Armed(fd, form, interest)]
    /\ UNCHANGED <<leads, held, waiter, poller, fresh>>

(* MOD re-arms: the edge is looked for afresh and a spent one-shot wakes. *)
EpollMod(fd, form, interest) ==
    /\ leads[fd] # "closed"
    /\ \E i \in Watches(fd) :
          watches' = [watches EXCEPT ![i] =
                        [Armed(fd, form, interest) EXCEPT !.source = watches[i].source]]
    /\ UNCHANGED <<leads, held, waiter, poller, fresh>>

(* A closed number is EBADF, so its watch cannot be taken away. *)
EpollDel(fd) ==
    /\ leads[fd] # "closed"
    /\ \E i \in Watches(fd) : watches' = [watches EXCEPT ![i] = NoWatch]
    /\ UNCHANGED <<leads, held, waiter, poller, fresh>>

linux_compat_epoll_ctl ==
    \E fd \in WatchedFds :
        \/ EpollDel(fd)
        \/ \E form \in WatchForms, interest \in Interests :
              EpollAdd(fd, form, interest) \/ EpollMod(fd, form, interest)

-----------------------------------------------------------------------------
(* epoll_wait and poll. *)

Dormant(i) == watches[i] = NoWatch \/ watches[i].oneshot_done

Result(i) ==
    LET mask == fd_ready_mask(watches[i].fd) \cap watches[i].events
    IN  IF watches[i].edge THEN mask \ watches[i].last_mask ELSE mask

Hits == {i \in WatchSlots : ~Dormant(i) /\ Result(i) # {}}
Reported == {i \in Hits : Cardinality({j \in Hits : j < i}) < MaxEvents}
Scanned == {i \in WatchSlots :
              ~Dormant(i) /\ Cardinality({j \in Reported : j < i}) < MaxEvents}

(* mutant: a one-shot watch is not put to sleep *)
SpentNever(i) == FALSE
Spent(i) == i \in Reported /\ watches[i].oneshot

(* One pass over the watches; the results are in events[] or, without      *)
(* any, the loop yields.                                                   *)
Scan ==
    /\ watches' = [i \in WatchSlots |->
                     IF i \notin Scanned THEN watches[i]
                     ELSE [watches[i] EXCEPT
                             !.last_mask = fd_ready_mask(watches[i].fd),
                             !.oneshot_done = @ \/ Spent(i),
                             !.fired = IF i \in Reported THEN Min({2, @ + 1}) ELSE @]]
    /\ fresh' = [s \in Sources |->
                   /\ fresh[s]
                   /\ \A i \in Reported : leads[watches[i].fd] = s => "in" \notin Result(i)]
    /\ UNCHANGED <<leads, held, poller>>

EpollWaitCall(timing) ==
    /\ waiter = "out"
    /\ waiter' = IF Reported # {} THEN "out" ELSE timing
    /\ Scan

(* mutant: after a yield only the first watch is looked at *)
WakesFirst == Reported \cap {1}

Wakes == Reported

(* After task_yield: again, until something is reported. *)
EpollWaitAgain ==
    /\ waiter # "out"
    /\ waiter' = IF Wakes # {} THEN "out" ELSE waiter
    /\ Scan

EpollTimeout ==
    /\ waiter = "timed"
    /\ Reported = {}
    /\ waiter' = "out"
    /\ Scan

Pollable(fd) == leads[fd] = "closed" \/ "in" \in fd_ready_mask(fd)

PollCall(fds) ==
    /\ poller = {}
    /\ fds # {} /\ \A fd \in fds : ~Pollable(fd)
    /\ poller' = fds
    /\ UNCHANGED <<leads, held, watches, waiter, fresh>>

linux_compat_poll ==
    /\ \E fd \in poller : Pollable(fd)
    /\ poller' = {}
    /\ UNCHANGED <<leads, held, watches, waiter, fresh>>

ReadyNext ==
    \/ \E fd \in WatchedFds, s \in Sources : Open(fd, s)
    \/ \E fd \in WatchedFds : Close(fd)
    \/ \E s \in Sources : Put(s) \/ Drain(s)
    \/ linux_compat_epoll_ctl
    \/ \E timing \in {"timed", "untimed"} : EpollWaitCall(timing)
    \/ EpollWaitAgain
    \/ EpollTimeout
    \/ \E fds \in PollSets : PollCall(fds)
    \/ linux_compat_poll

(* A loop that yields runs again: the scheduler is a ring (Task). *)
ReadyFair == WF_readyVars(EpollWaitAgain) /\ WF_readyVars(linux_compat_poll)
ReadySpec == ReadyInit /\ [][ReadyNext]_readyVars /\ ReadyFair

-----------------------------------------------------------------------------
(* Properties. *)

(* Watches name numbers, not objects.  As long as programs delete a watch  *)
(* before they close its descriptor, every watch leads to the object it    *)
(* was made for, and no number is watched twice.                           *)
WatchesFollowObjects ==
    \A i \in WatchSlots : watches[i] # NoWatch =>
        /\ leads[watches[i].fd] = watches[i].source
        /\ Watches(watches[i].fd) = {i}

(* EPOLLONESHOT: at most one report until MOD or a new ADD arms it again.  *)
OneshotOnce ==
    \A i \in WatchSlots :
        watches[i] # NoWatch /\ watches[i].oneshot => watches[i].fired <= 1

ReadinessSafe == ReadyTypeOK /\ WatchesFollowObjects /\ OneshotOnce

(* Nobody sleeps for ever in epoll_wait while a level-triggered watch is   *)
(* ready, nor in poll while one of its descriptors is.                     *)
LevelReady(i) ==
    ~Dormant(i) /\ ~watches[i].edge /\ Result(i) # {}
NobodySleepsOnReady ==
    /\ ~ <>[](waiter # "out" /\ \E i \in WatchSlots : LevelReady(i))
    /\ ~ <>[](poller # {} /\ \E fd \in poller : Pollable(fd))

(* An edge-triggered watch re-arms once the source is drained: an item     *)
(* that came since is reported to whoever waits                            *)
(* (tests/linux_epoll_et.c:7).                                             *)
EdgeIsReported ==
    ~ <>[](/\ waiter = "untimed"
           /\ \E i \in WatchSlots :
                /\ watches[i] # NoWatch /\ watches[i].edge /\ ~watches[i].oneshot_done
                /\ leads[watches[i].fd] # "closed" /\ fresh[leads[watches[i].fd]])
=============================================================================
