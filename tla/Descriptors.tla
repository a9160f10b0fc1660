----------------------------- MODULE Descriptors -----------------------------
(***************************************************************************)
(* Descriptor tables and the objects behind them: open, dup, dup2, close,  *)
(* fork, threads that share a table, exit (lib/posix.c, linux_compat.c,    *)
(* syscall.c, core/task.c), with pipes and event counters as objects and   *)
(* the reads and writes that wait on them.                                 *)
(*                                                                         *)
(* FD_EVENT stands for the kinds whose slots linux_compat_retain counts    *)
(* (event, epoll, unix, memfd, inotify: the code is the same line by       *)
(* line).  A call runs to its end or to a task_yield without interruption. *)
(***************************************************************************)
EXTENDS Integers, FiniteSets, FiniteSetsExt

CONSTANTS FdTasks,      \* tasks
          FdTables,     \* task_fd_tables
          FdNumbers,    \* 0 .. POSIX_MAX_FDS - 1, or a part of it
          EventSlots,   \* event_slots
          PipeObjects,  \* pipes that kmalloc can hand out
          PipeRoom,     \* PIPE_BUF_SIZE
          EventMax,     \* UINT64_MAX - 1
          NoTable,      \* a task without a table
          CopiesPipes,  \* whether programs copy pipe ends (dup, dup2, fork)
          ClosesWaited  \* whether a thread closes what another waits on

ASSUME FdAssumption ==
    /\ IsFiniteSet(FdTasks) /\ FdTasks # {}
    /\ IsFiniteSet(FdTables) /\ FdTables # {} /\ NoTable \notin FdTables
    /\ IsFiniteSet(FdNumbers) /\ FdNumbers \subseteq Nat
    /\ EventSlots \subseteq Nat /\ PipeObjects \subseteq Nat
    /\ PipeRoom \in Nat \ {0} /\ EventMax \in Nat \ {0}

VARIABLES table,    \* table -> number -> entry
          sharers,  \* table -> refs
          uses,     \* task -> fd_table
          events,   \* event slot -> [refs, value, semaphore]; used iff refs > 0
          pipes,    \* pipe -> [state, ref_count, count]
          blocked   \* task -> the call in which it yields

fdVars == <<table, sharers, uses, events, pipes, blocked>>

FirstFd == 3
FreeEntry == [kind |-> "none", obj |-> 0]
FreeEvent == [refs |-> 0, value |-> 0, semaphore |-> FALSE]
NoCall == [call |-> "none"]
Calls ==
    {NoCall} \cup
    [call : {"event_read"}, fd : FdNumbers, obj : EventSlots] \cup
    [call : {"event_write"}, fd : FdNumbers, obj : EventSlots, n : 1 .. EventMax] \cup
    [call : {"pipe_read"}, fd : FdNumbers, obj : PipeObjects] \cup
    [call : {"pipe_write"}, fd : FdNumbers, obj : PipeObjects, n : 1 .. PipeRoom + 1]

FdTypeOK ==
    /\ table \in [FdTables -> [FdNumbers ->
           {FreeEntry} \cup [kind : {"event"}, obj : EventSlots]
                       \cup [kind : {"pipe"}, obj : PipeObjects]]]
    /\ sharers \in [FdTables -> 0 .. Cardinality(FdTasks)]
    /\ uses \in [FdTasks -> FdTables \cup {NoTable}]
    /\ events \in [EventSlots -> [refs : Nat, value : 0 .. EventMax, semaphore : BOOLEAN]]
    /\ pipes \in [PipeObjects -> [state : {"none", "live", "freed"},
                                  ref_count : Int, count : 0 .. PipeRoom]]
    /\ blocked \in [FdTasks -> Calls]

FirstTable == CHOOSE d \in FdTables : TRUE
FirstTask == CHOOSE t \in FdTasks : TRUE

FdInit ==
    /\ table = [d \in FdTables |-> [fd \in FdNumbers |-> FreeEntry]]
    /\ sharers = [d \in FdTables |-> IF d = FirstTable THEN 1 ELSE 0]
    /\ uses = [t \in FdTasks |-> IF t = FirstTask THEN FirstTable ELSE NoTable]
    /\ events = [e \in EventSlots |-> FreeEvent]
    /\ pipes = [p \in PipeObjects |-> [state |-> "none", ref_count |-> 0, count |-> 0]]
    /\ blocked = [t \in FdTasks |-> NoCall]

-----------------------------------------------------------------------------
(* Entries and references. *)

EntryOf(t, fd) == table[uses[t]][fd]
Ready(t) == uses[t] # NoTable /\ blocked[t] = NoCall
FreeFrom(t, low) == {fd \in FdNumbers : fd >= low /\ EntryOf(t, fd) = FreeEntry}

(* mutant: a copied entry is not counted *)
RetainedNothing(ev, entries) == ev

(* linux_compat_retain for each of the numbers in entries: a function from *)
(* numbers to entries.                                                     *)
Retained(ev, entries) ==
    [e \in EventSlots |->
        [ev[e] EXCEPT !.refs =
            IF @ = 0 THEN 0
            ELSE @ + Cardinality({fd \in DOMAIN entries :
                                    entries[fd] = [kind |-> "event", obj |-> e]})]]

(* linux_compat_close or linux_compat_release_task: the last reference     *)
(* clears the slot.                                                        *)
EventsReleased(ev, entries) ==
    [e \in EventSlots |->
        LET n == Cardinality({fd \in DOMAIN entries :
                                entries[fd] = [kind |-> "event", obj |-> e]})
        IN  IF n = 0 THEN ev[e]
            ELSE IF ev[e].refs <= n THEN FreeEvent
            ELSE [ev[e] EXCEPT !.refs = @ - n]]

(* close of a pipe end; kfree at zero. *)
PipesReleased(entry) ==
    IF entry.kind # "pipe" THEN pipes
    ELSE [pipes EXCEPT ![entry.obj].ref_count = @ - 1,
                       ![entry.obj].state =
                           IF pipes[entry.obj].ref_count <= 1 THEN "freed" ELSE @]

Alone(entry) == [fd \in {0} |-> entry]

(* The program does not close what one of its threads waits on. *)
MayClose(t, fd) ==
    ClosesWaited \/ \A u \in FdTasks \ {t} :
        uses[u] = uses[t] /\ blocked[u] # NoCall => blocked[u].fd # fd
MayCopy(entry) == CopiesPipes \/ entry.kind # "pipe"

-----------------------------------------------------------------------------
(* Calls on the table. *)

linux_compat_eventfd2(t, value, semaphore) ==
    LET idle == {e \in EventSlots : events[e].refs = 0}
        fds  == FreeFrom(t, FirstFd) IN
    /\ Ready(t)
    /\ idle # {} /\ fds # {}
    /\ events' = [events EXCEPT ![Min(idle)] =
                    [refs |-> 1, value |-> value, semaphore |-> semaphore]]
    /\ table' = [table EXCEPT ![uses[t]][Min(fds)] = [kind |-> "event", obj |-> Min(idle)]]
    /\ UNCHANGED <<sharers, uses, pipes, blocked>>

pipe(t) ==
    LET fds == FreeFrom(t, FirstFd)
        r   == Min(fds)
        p   == Min({q \in PipeObjects : pipes[q].state # "live"}) IN
    /\ Ready(t)
    /\ Cardinality(fds) >= 2
    /\ \E q \in PipeObjects : pipes[q].state # "live"
    /\ table' = [table EXCEPT ![uses[t]] =
                   [@ EXCEPT ![r] = [kind |-> "pipe", obj |-> p],
                             ![Min(fds \ {r})] = [kind |-> "pipe", obj |-> p]]]
    /\ pipes' = [pipes EXCEPT ![p] = [state |-> "live", ref_count |-> 2, count |-> 0]]
    /\ UNCHANGED <<sharers, uses, events, blocked>>

(* dup takes the lowest free number, 0 to 2 included. *)
Dup(t, old) ==
    LET fds == FreeFrom(t, 0)
        entry == EntryOf(t, old) IN
    /\ Ready(t)
    /\ entry # FreeEntry /\ MayCopy(entry)
    /\ fds # {}
    /\ table' = [table EXCEPT ![uses[t]][Min(fds)] = entry]
    /\ events' = Retained(events, Alone(entry))
    /\ UNCHANGED <<sharers, uses, pipes, blocked>>

Dup2(t, old, new) ==
    LET entry == EntryOf(t, old)
        gone  == EntryOf(t, new) IN
    /\ Ready(t)
    /\ old # new
    /\ entry # FreeEntry /\ MayCopy(entry)
    /\ MayClose(t, new)
    /\ table' = [table EXCEPT ![uses[t]][new] = entry]
    /\ pipes' = PipesReleased(gone)
    /\ events' = Retained(EventsReleased(events, Alone(gone)), Alone(entry))
    /\ UNCHANGED <<sharers, uses, blocked>>

close(t, fd) ==
    /\ Ready(t)
    /\ EntryOf(t, fd) # FreeEntry
    /\ MayClose(t, fd)
    /\ table' = [table EXCEPT ![uses[t]][fd] = FreeEntry]
    /\ events' = EventsReleased(events, Alone(EntryOf(t, fd)))
    /\ pipes' = PipesReleased(EntryOf(t, fd))
    /\ UNCHANGED <<sharers, uses, blocked>>

-----------------------------------------------------------------------------
(* Tasks. *)

task_fork(t, child) ==
    LET unused == {d \in FdTables : sharers[d] = 0}
        d == CHOOSE c \in unused : TRUE IN
    /\ Ready(t)
    /\ uses[child] = NoTable
    /\ unused # {}
    /\ \A fd \in FdNumbers : MayCopy(EntryOf(t, fd))
    /\ table' = [table EXCEPT ![d] = table[uses[t]]]
    /\ sharers' = [sharers EXCEPT ![d] = 1]
    /\ uses' = [uses EXCEPT ![child] = d]
    /\ events' = Retained(events, table[uses[t]])
    /\ UNCHANGED <<pipes, blocked>>

task_clone_thread(t, thread) ==
    /\ Ready(t)
    /\ uses[thread] = NoTable
    /\ uses' = [uses EXCEPT ![thread] = uses[t]]
    /\ sharers' = [sharers EXCEPT ![uses[t]] = @ + 1]
    /\ UNCHANGED <<table, events, pipes, blocked>>

LastUser(d) == sharers[d] = 1

(* task_exit and task_kill: linux_compat_release_task knows nothing of     *)
(* pipes.  The entries of a table that nobody uses are cleared when it is  *)
(* taken again (task_fd_table_alloc); here, at once.                       *)
task_release_fd_table(t) ==
    LET d == uses[t] IN
    /\ d # NoTable
    /\ sharers' = [sharers EXCEPT ![d] = @ - 1]
    /\ uses' = [uses EXCEPT ![t] = NoTable]
    /\ blocked' = [blocked EXCEPT ![t] = NoCall]
    /\ IF LastUser(d)
       THEN /\ events' = EventsReleased(events, table[d])
            /\ table' = [table EXCEPT ![d] = [fd \in FdNumbers |-> FreeEntry]]
       ELSE UNCHANGED <<events, table>>
    /\ UNCHANGED pipes

-----------------------------------------------------------------------------
(* Event counters. *)

Fits(e, n) == EventMax - events[e].value >= n

Took(e) == [events EXCEPT ![e].value = IF events[e].semaphore THEN @ - 1 ELSE 0]

event_read(t, fd) ==
    LET e == EntryOf(t, fd).obj IN
    /\ Ready(t)
    /\ EntryOf(t, fd).kind = "event"
    /\ IF events[e].value > 0
       THEN events' = Took(e) /\ UNCHANGED blocked
       ELSE /\ blocked' = [blocked EXCEPT ![t] =
                             [call |-> "event_read", fd |-> fd, obj |-> e]]
            /\ UNCHANGED events
    /\ UNCHANGED <<table, sharers, uses, pipes>>

event_write(t, fd, n) ==
    LET e == EntryOf(t, fd).obj IN
    /\ Ready(t)
    /\ EntryOf(t, fd).kind = "event"
    /\ IF Fits(e, n)
       THEN events' = [events EXCEPT ![e].value = @ + n] /\ UNCHANGED blocked
       ELSE /\ blocked' = [blocked EXCEPT ![t] =
                             [call |-> "event_write", fd |-> fd, obj |-> e, n |-> n]]
            /\ UNCHANGED events
    /\ UNCHANGED <<table, sharers, uses, pipes>>

(* After task_yield the loops look at the slot they have kept. *)
event_resume(t) ==
    LET c == blocked[t] IN
    /\ \/ /\ c.call = "event_read"
          /\ events[c.obj].value > 0
          /\ events' = Took(c.obj)
       \/ /\ c.call = "event_write"
          /\ Fits(c.obj, c.n)
          /\ events' = [events EXCEPT ![c.obj].value = @ + c.n]
    /\ blocked' = [blocked EXCEPT ![t] = NoCall]
    /\ UNCHANGED <<table, sharers, uses, pipes>>

-----------------------------------------------------------------------------
(* Pipes.  Neither end checks for which direction it was opened. *)

(* mutant: a reader yields once instead of until something changes *)
AtEofOnce(t, p) == pipes[p].count = 0 /\ (pipes[p].ref_count < 2 \/ blocked[t] # NoCall)

AtEof(t, p) == pipes[p].count = 0 /\ pipes[p].ref_count < 2

(* The loop of a reader that starts, or goes on after task_yield. *)
PipeReads(t, fd, p) ==
    /\ \/ /\ pipes[p].count > 0
          /\ \E n \in 1 .. pipes[p].count : pipes' = [pipes EXCEPT ![p].count = @ - n]
          /\ blocked' = [blocked EXCEPT ![t] = NoCall]
       \/ /\ AtEof(t, p)
          /\ blocked' = [blocked EXCEPT ![t] = NoCall]
          /\ UNCHANGED pipes
       \/ /\ pipes[p].count = 0 /\ ~AtEof(t, p)
          /\ blocked' = [blocked EXCEPT ![t] = [call |-> "pipe_read", fd |-> fd, obj |-> p]]
          /\ UNCHANGED pipes
    /\ UNCHANGED <<table, sharers, uses, events>>

(* The loop of a writer with n bytes to go: it fills the ring and yields. *)
PipeWrites(t, fd, p, n) ==
    LET put == Min({n, PipeRoom - pipes[p].count}) IN
    /\ pipes' = [pipes EXCEPT ![p].count = @ + put]
    /\ blocked' = [blocked EXCEPT ![t] =
                     IF put = n THEN NoCall
                     ELSE [call |-> "pipe_write", fd |-> fd, obj |-> p, n |-> n - put]]
    /\ UNCHANGED <<table, sharers, uses, events>>

pipe_read(t, fd) ==
    /\ Ready(t)
    /\ EntryOf(t, fd).kind = "pipe"
    /\ PipeReads(t, fd, EntryOf(t, fd).obj)

pipe_write(t, fd, n) ==
    /\ Ready(t)
    /\ EntryOf(t, fd).kind = "pipe"
    /\ PipeWrites(t, fd, EntryOf(t, fd).obj, n)

pipe_resume(t) ==
    LET c == blocked[t] IN
    \/ c.call = "pipe_read" /\ PipeReads(t, c.fd, c.obj)
    \/ c.call = "pipe_write" /\ PipeWrites(t, c.fd, c.obj, c.n)

FdNext ==
    \E t \in FdTasks :
        \/ \E value \in 0 .. 1, semaphore \in BOOLEAN :
              linux_compat_eventfd2(t, value, semaphore)
        \/ pipe(t)
        \/ \E old \in FdNumbers : Ready(t) /\ Dup(t, old)
        \/ \E old, new \in FdNumbers : Ready(t) /\ Dup2(t, old, new)
        \/ \E fd \in FdNumbers : Ready(t) /\ close(t, fd)
        \/ \E child \in FdTasks : task_fork(t, child)
        \/ \E thread \in FdTasks : task_clone_thread(t, thread)
        \/ task_release_fd_table(t)
        \/ \E fd \in FdNumbers : Ready(t) /\ event_read(t, fd)
        \/ \E fd \in FdNumbers, n \in 1 .. EventMax : Ready(t) /\ event_write(t, fd, n)
        \/ event_resume(t)
        \/ \E fd \in FdNumbers : Ready(t) /\ pipe_read(t, fd)
        \/ \E fd \in FdNumbers, n \in 1 .. PipeRoom + 1 : Ready(t) /\ pipe_write(t, fd, n)
        \/ pipe_resume(t)

FdSpec == FdInit /\ [][FdNext]_fdVars

-----------------------------------------------------------------------------
(* Properties. *)

TablesInUse == {d \in FdTables : sharers[d] > 0}
Naming(kind, obj) ==
    {x \in TablesInUse \X FdNumbers : table[x[1]][x[2]] = [kind |-> kind, obj |-> obj]}

(* Whatever is copied, closed, forked, shared and killed, a slot has       *)
(* exactly as many references as there are entries in tables in use, so it *)
(* is neither cleared under an entry nor lost.                             *)
RefsMatchEntries ==
    /\ \A e \in EventSlots : events[e].refs = Cardinality(Naming("event", e))
    /\ \A d \in FdTables : sharers[d] = Cardinality({t \in FdTasks : uses[t] = d})

(* As long as programs do not copy pipe ends, an entry in use never leads  *)
(* to a freed pipe, and the count is at least the ends that are open.      *)
PipesOutliveEnds ==
    \A p \in PipeObjects :
        LET ends == Cardinality(Naming("pipe", p)) IN
        ends > 0 => pipes[p].state = "live" /\ pipes[p].ref_count >= ends

(* A call that yields keeps a pointer to its object: as long as no thread  *)
(* closes what another waits on, the descriptor still leads to that object *)
(* when the call goes on.                                                  *)
WaitersKeepObject ==
    \A t \in FdTasks : blocked[t] # NoCall =>
        EntryOf(t, blocked[t].fd).obj = blocked[t].obj
        /\ EntryOf(t, blocked[t].fd) # FreeEntry

DescriptorsSafe ==
    /\ FdTypeOK
    /\ RefsMatchEntries
    /\ PipesOutliveEnds
    /\ WaitersKeepObject

(* A reader comes back empty-handed only if the pipe's other end has been  *)
(* closed: no other step ends a read of an empty pipe.                     *)
EofOnlyWithoutWriter ==
    [][\A t \in FdTasks :
         blocked[t] # NoCall /\ blocked[t].call = "pipe_read" /\ blocked'[t] = NoCall
           /\ uses'[t] # NoTable /\ pipes'[blocked[t].obj] = pipes[blocked[t].obj]
         => Cardinality(Naming("pipe", blocked[t].obj)) < 2]_fdVars
=============================================================================
