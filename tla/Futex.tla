-------------------------------- MODULE Futex --------------------------------
(***************************************************************************)
(* Futexes (src/linux_compat.c): a fixed table of slots keyed by the       *)
(* address of the word, each with an entry per waiter, the blocking loop   *)
(* that polls its word, its entry and its deadline, and what task_exit and *)
(* task_kill (src/core/task.c) do with the robust locks, the tid word and  *)
(* the wait of the thread that dies.  The SYSCALL entry masks interrupts,  *)
(* so a call is atomic but for the task_yield of the loop.                 *)
(***************************************************************************)
EXTENDS Naturals, FiniteSets

CONSTANTS
    Tasks,
    Abroad,      \* the tasks of process 2; the others are threads of process 1
    Locks,       \* addresses of robust locks, registered by every task
    Joinable,    \* tasks with a clear_child_tid, which names its address
    NoAddr,
    Takers,      \* the tasks that take locks
    Masks,       \* bit sets programs pass to the BITSET calls
    WaitArgs,    \* what each passes to WAIT: its mask, and a timeout or not
    MaxTasks,    \* MAX_TASKS: slots of the table, and entries of a slot
    Deaths       \* ways to die besides exit and the kill of a running sibling

Addrs == Locks \cup Joinable
Processes == 1 .. 2
Slots == 1 .. MaxTasks
Entries == 1 .. MaxTasks
AnyMask == UNION Masks          \* LINUX_FUTEX_BITSET_MATCH_ANY
Nobody == "nobody"

ASSUME FutexAssumption ==
    /\ Abroad \subseteq Tasks /\ Joinable \subseteq Tasks /\ Takers \subseteq Tasks
    /\ IsFiniteSet(Tasks)
    /\ Cardinality(Tasks) <= MaxTasks     \* a task is a slot of the pool of MAX_TASKS
    /\ Locks \cap Tasks = {} /\ NoAddr \notin Addrs /\ Nobody \notin Tasks
    /\ {} \notin Masks /\ WaitArgs \in [Tasks -> [mask : Masks, timed : BOOLEAN]]
    /\ MaxTasks \in Nat \ {0}
    /\ Deaths \subseteq {"waiting", "foreign"}

VARIABLES
    word,      \* user memory: word[p][a], a tid with its two flag bits
    slot,      \* futex_slots[i].address
    waiters,   \* futex_slots[i].waiters
    at         \* where each task is, with the locals of a wait it is in

vars == <<word, slot, waiters, at>>

Process(t) == IF t \in Abroad THEN 2 ELSE 1
Word == [owner : Tasks \cup {Nobody}, waiters : BOOLEAN, died : BOOLEAN]
Owned(o, w) == [owner |-> o, waiters |-> w, died |-> FALSE]
Free == Owned(Nobody, FALSE)

Waiter == [used : BOOLEAN, woken : BOOLEAN, task : Tasks \cup {Nobody}, mask : SUBSET AnyMask]
NoWaiter == [used |-> FALSE, woken |-> FALSE, task |-> Nobody, mask |-> {}]

\* A task that does not wait has no entry: slot and entry are 0.
At == [pc : {"run", "wait", "dead"}, addr : Addrs \cup {NoAddr}, value : Word,
       timed : BOOLEAN, slot : 0 .. MaxTasks, entry : 0 .. MaxTasks,
       late : BOOLEAN]     \* the last wait returned ETIMEDOUT
Idle(expired) == [pc |-> "run", addr |-> NoAddr, value |-> Free, timed |-> FALSE,
                     slot |-> 0, entry |-> 0, late |-> expired]

Init ==
    /\ word = [p \in Processes |-> [a \in Addrs |->
                  IF a \in Joinable /\ Process(a) = p THEN Owned(a, FALSE) ELSE Free]]
    /\ slot = [i \in Slots |-> NoAddr]
    /\ waiters = [i \in Slots |-> [k \in Entries |-> NoWaiter]]
    /\ at = [t \in Tasks |-> Idle(FALSE)]

Runs(t) == at[t].pc = "run"
Waits(t) == at[t].pc = "wait"
Mine(t) == waiters[at[t].slot][at[t].entry]

-----------------------------------------------------------------------------
(* The table.                                                              *)

IsFirst(i, S) == i \in S /\ \A j \in S : i <= j

\* futex_find: the slot of the address, or else the first empty one.
With(a) == {i \in Slots : slot[i] = a}
Found(a, i) == IsFirst(i, IF With(a) # {} THEN With(a) ELSE With(NoAddr))
\* A new slot starts with all its entries clear.
Opened(a, i) == IF slot[i] = a THEN waiters[i] ELSE [k \in Entries |-> NoWaiter]
FreeEntries(entries) == {k \in Entries : ~ entries[k].used}

\* FUTEX_WAKE: the first asking[a] waiters of the slot of address a whose mask
\* has a bit in common.  The table is keyed by virtual address alone.
MatchingWoken(i, mask) ==      \* mutant: the test of waiter->woken is missing
    {k \in Entries : waiters[i][k].used /\ waiters[i][k].mask \cap mask # {}}
Matching(i, mask) ==
    {k \in Entries : /\ waiters[i][k].used /\ ~ waiters[i][k].woken
                     /\ waiters[i][k].mask \cap mask # {}}
FirstOf(S, n) == {k \in S : Cardinality({j \in S : j < k}) < n}
Reached(i, asking, mask) ==
    IF slot[i] = NoAddr \/ ~ IsFirst(i, With(slot[i])) THEN {}
    ELSE FirstOf(Matching(i, mask), asking[slot[i]])
Woken(entries, reached) ==
    [k \in Entries |-> IF k \in reached THEN [entries[k] EXCEPT !.woken = TRUE] ELSE entries[k]]
Awakened(asking, mask) ==
    [i \in Slots |-> Woken(waiters[i], Reached(i, asking, mask))]

-----------------------------------------------------------------------------
(* Programs.                                                               *)

\* A program frees a lock, takes it, or says that somebody waits for it, and
\* waits for a lock marked like that or for a tid word that is not zero.
Stores(t, w) ==
    {Free} \cup {Owned(u, FALSE) : u \in {t} \cap Takers}
           \cup {[w EXCEPT !.waiters = TRUE] : x \in {w} \ {Free}}
Blocks(a, w) == IF a \in Locks THEN w.waiters ELSE w # Free
Store(t, a) ==
    /\ Runs(t)
    /\ \E v \in Stores(t, word[Process(t)][a]) :
          word' = [word EXCEPT ![Process(t)][a] = v]
    /\ UNCHANGED <<slot, waiters, at>>

\* FUTEX_WAIT of the word's current value (any other returns EAGAIN), up to
\* the first check of the loop.  Without room it fails and changes nothing.
Wait(t, a) ==
    /\ Runs(t) /\ Blocks(a, word[Process(t)][a])
    /\ \E i \in Slots, k \in Entries :
          /\ Found(a, i)
          /\ IsFirst(k, FreeEntries(Opened(a, i)))
          /\ slot' = [slot EXCEPT ![i] = a]
          /\ waiters' = [waiters EXCEPT ![i] = [Opened(a, i) EXCEPT ![k] =
                           [used |-> TRUE, woken |-> FALSE, task |-> t, mask |-> WaitArgs[t].mask]]]
          /\ at' = [at EXCEPT ![t] =
                      [pc |-> "wait", addr |-> a, value |-> word[Process(t)][a],
                       timed |-> WaitArgs[t].timed, slot |-> i, entry |-> k, late |-> FALSE]]
    /\ UNCHANGED word

\* The loop ends: the word changed, the waiter was woken, or else its time is
\* up.  The entry is cleared, and the slot with the last one.
Answered(t) == word[Process(t)][at[t].addr] # at[t].value \/ Mine(t).woken
ClearedNothing(t) == waiters    \* mutant: the memset of the entry is missing
Cleared(t) == [waiters EXCEPT ![at[t].slot][at[t].entry] = NoWaiter]
EmptiedAlways(i, entries) == TRUE   \* mutant: the slot is freed without looking for others
Emptied(i, entries) == \A k \in Entries : ~ entries[k].used
Return(t) ==
    LET i == at[t].slot
    IN  /\ Waits(t)
        /\ Answered(t) \/ at[t].timed
        /\ waiters' = Cleared(t)
        /\ slot' = IF Emptied(i, Cleared(t)[i]) THEN [slot EXCEPT ![i] = NoAddr] ELSE slot
        /\ at' = [at EXCEPT ![t] = Idle(~ Answered(t))]
        /\ UNCHANGED word

Wake(t, a, n, mask) ==
    /\ Runs(t)
    /\ waiters' = Awakened([b \in Addrs |-> IF b = a THEN n ELSE 0], mask)
    /\ UNCHANGED <<word, slot, at>>

-----------------------------------------------------------------------------
(* The end of a task.                                                      *)

\* task_robust_cleanup, then clear_child_tid, each store followed by its wake.
\* q is the process whose page tables are in CR3.
HeldContended(t) ==            \* mutant: only locks with FUTEX_WAITERS are marked
    {a \in Locks : word[Process(t)][a].owner = t /\ word[Process(t)][a].waiters}
Held(t) == {a \in Locks : word[Process(t)][a].owner = t}
OwnerDied(w) == [w EXCEPT !.owner = Nobody, !.died = TRUE]
RobustAfter(t, robust) == [word EXCEPT ![Process(t)] = [a \in Addrs |->
    IF robust /\ a \in Held(t) THEN OwnerDied(@[a]) ELSE @[a]]]
WordsAfterKeepTid(t, q, robust) ==  \* mutant: the tid word is not cleared
    RobustAfter(t, robust)
WordsAfter(t, q, robust) ==
    IF t \in Joinable THEN [RobustAfter(t, robust) EXCEPT ![q][t] = Free]
    ELSE RobustAfter(t, robust)
WakesAfter(t, robust) == [a \in Addrs |->
    IF a = t THEN Cardinality(Tasks)
    ELSE IF robust /\ a \in Held(t) /\ word[Process(t)][a].waiters THEN 1 ELSE 0]
Cleanup(t, q, robust) ==
    /\ word' = WordsAfter(t, q, robust)
    /\ waiters' = Awakened(WakesAfter(t, robust), AnyMask)
    /\ at' = [at EXCEPT ![t].pc = "dead"]
    /\ UNCHANGED slot

Exit(t) == Runs(t) /\ Cleanup(t, Process(t), TRUE)

\* SIGKILL.  The robust list is walked only in the victim's own address space;
\* the tid word is written in the killer's.  The entry of a waiter stays.
Kill(k, t) ==
    LET sibling == Process(k) = Process(t)
    IN  /\ Runs(k) /\ k # t
        /\ Runs(t) \/ (Waits(t) /\ "waiting" \in Deaths)
        /\ sibling \/ "foreign" \in Deaths
        /\ Cleanup(t, Process(k), sibling)

Next ==
    \E t \in Tasks :
        \/ Return(t) \/ Exit(t)
        \/ \E k \in Tasks : Kill(k, t)
        \/ \E a \in Locks : Store(t, a)
        \/ \E a \in Addrs :
            \/ Wait(t, a)
            \/ \E n \in {1, Cardinality(Tasks)}, mask \in Masks : Wake(t, a, n, mask)

Spec == Init /\ [][Next]_vars
\* A waiting task is scheduled (NoStarvation of Task) and deadlines pass.
FairSpec == Spec /\ \A t \in Tasks : WF_vars(Return(t))

-----------------------------------------------------------------------------
(* Properties.                                                             *)

\* Every variable has its type, and a task has an entry while it waits.
TypeOK ==
    /\ word \in [Processes -> [Addrs -> Word]]
    /\ slot \in [Slots -> Addrs \cup {NoAddr}]
    /\ waiters \in [Slots -> [Entries -> Waiter]]
    /\ at \in [Tasks -> At]
    /\ \A t \in Tasks : /\ Runs(t) => at[t].slot = 0
                        /\ Waits(t) => at[t].slot # 0
                        /\ at[t].slot # 0 => at[t].entry # 0 /\ at[t].addr \in Addrs

\* The table and the blocked tasks agree, whatever the interleaving of calls,
\* returns and deaths: an address has one slot, the pointer a task keeps
\* across its yields names an entry that is its own, in the slot of its word,
\* and a slot is in use exactly while it has an entry (futex_find and the end
\* of linux_compat_futex6, linux_compat.c:2215-2227 and 2321-2327).
OneSlot == \A i, j \in Slots : slot[i] = slot[j] /\ slot[i] # NoAddr => i = j
EntryIsMine ==
    \A t \in Tasks : at[t].slot # 0 =>
        /\ Mine(t).used /\ Mine(t).task = t
        /\ slot[at[t].slot] = at[t].addr
EntryIsSomebodys ==
    \A i \in Slots, k \in Entries : waiters[i][k].used =>
        \E t \in Tasks : at[t].slot = i /\ at[t].entry = k
SlotIsUsed ==
    \A i \in Slots : slot[i] # NoAddr <=> \E k \in Entries : waiters[i][k].used
TableMatchesWaiters == OneSlot /\ EntryIsMine /\ EntryIsSomebodys /\ SlotIsUsed
FutexSafe == TypeOK /\ TableMatchesWaiters

\* Whatever killed it, a dead thread has left its tid word zero and no lock
\* names it (task.c:749-757 and 889-896).
DeadLeaveNothing ==
    \A t \in Tasks : at[t].pc = "dead" =>
        /\ t \in Joinable => word[Process(t)][t] = Free
        /\ \A a \in Locks : word[Process(t)][a].owner # t

\* A task that can call WAIT finds room: returns give back what they took.
RoomForAll ==
    \A t \in Tasks, a \in Addrs : Runs(t) =>
        \E i \in Slots : Found(a, i) /\ FreeEntries(Opened(a, i)) # {}

\* pthread_join, and waiters on the lock of a dead thread, return.
AwaitsDead(t, u) == Waits(t) /\ at[t].value.owner = u /\ at[u].pc = "dead"
WaitersOfDeadReturn ==
    \A t, u \in Tasks : AwaitsDead(t, u) ~> (at[t].pc # "wait")

\* The promise: what a program sees is FutexPromise, so a wake is not lost, is
\* not given to another word's waiter, and beats a deadline that passes later.
wait == [t \in Tasks |->
    IF at[t].slot = 0 THEN [waiting |-> FALSE]
    ELSE [waiting |-> TRUE, addr |-> at[t].addr, value |-> at[t].value,
          mask |-> Mine(t).mask, timed |-> at[t].timed, woken |-> Mine(t).woken]]
dead == {t \in Tasks : at[t].pc = "dead"}
late == {t \in Tasks : at[t].late}
Promise == INSTANCE FutexPromise
PromiseKept == Promise!Spec
=============================================================================
