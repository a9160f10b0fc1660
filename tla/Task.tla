-------------------------------- MODULE Task --------------------------------
(***************************************************************************)
(* The task pool and the scheduler of src/core/task.c: slots of the pool,  *)
(* the round-robin ring, the tables of address spaces and of descriptor    *)
(* tables the slots point into, creation, fork, clone, the ELF loader's    *)
(* borrowed address space, yield, exit, kill, wait, signal delivery and    *)
(* the timer tick.  One CPU (the application processors are never          *)
(* started): what interleaves is the timer, at the points where interrupts *)
(* are enabled.                                                            *)
(***************************************************************************)
EXTENDS Naturals, FiniteSets

CONSTANTS
    MaxTasks,    \* MAX_TASKS: slots of the pool and of the mm and fd tables
    MaxId,       \* bound: next_id stops here (uint32_t in the code)
    Pml4s,       \* the frames that can hold a user address space
    KernelPml4,  \* the boot address space, which task 0 borrows
    NoPml4,      \* physical address 0
    Workload,    \* the operations tasks invoke
    IrqOpen,     \* kernel program points entered with interrupts enabled
    LoadYields   \* TRUE when the loaded file sits on a driver that yields

Slot  == 0 .. MaxTasks - 1
NoRef == MaxTasks                     \* NULL, for a slot or a table index

Operations == {"create", "ring3", "fork", "clone", "exit", "kill", "pend", "wait"}
KernelPoints == {"load", "scan", "claim", "mem", "fdt", "frame", "link",
                 "exit2", "kill2", "wait"}

ASSUME TaskAssumption ==
    /\ MaxTasks \in Nat \ {0}
    /\ MaxId \in Nat \ {0}
    /\ IsFiniteSet(Pml4s)
    /\ KernelPml4 \notin Pml4s
    /\ NoPml4 \notin Pml4s \cup {KernelPml4}
    /\ Workload \subseteq Operations
    /\ IrqOpen \subseteq KernelPoints
    /\ LoadYields \in BOOLEAN

VARIABLES
    state,      \* task_t.state
    tid,        \* task_t.id
    tgid,       \* task_t.thread_group_id
    next,       \* task_t.next, the ring
    ctx,        \* TRUE when task_t.rsp is a context of the slot's own task
    pending,    \* an unblocked signal whose default action terminates
    mm,         \* task_t.mm, an index of task_memory_spaces
    fdt,        \* task_t.fd_table, an index of task_fd_tables
    pc,         \* where the slot's task is: "user" or a kernel point
    loc,        \* the locals of the kernel function it is in
    taskCount, nextId, current,
    mmRefs, mmPml4,  \* task_memory_spaces[].refs and .pml4_phys
    fdRefs,          \* task_fd_tables[].refs
    live,       \* the address spaces whose page tables exist
    retired,    \* retired_address_spaces
    cr3,        \* g_pml4_phys, the address space in CR3
    preempt,    \* preempt_count
    halted      \* task_exit found nothing to run

slotVars == <<state, tid, tgid, next, ctx, pending, mm, fdt, taskCount, nextId>>
memVars  == <<mmRefs, mmPml4, fdRefs, live, retired, cr3>>
cpuVars  == <<current, preempt, halted>>
vars     == <<slotVars, memVars, cpuVars, pc, loc>>

Local == [op : Operations \cup {"none"}, slot : 0 .. MaxTasks, reuse : BOOLEAN,
          pml4 : Pml4s \cup {NoPml4}, old : Pml4s \cup {KernelPml4, NoPml4}]
NoLocal == [op |-> "none", slot |-> NoRef, reuse |-> FALSE, pml4 |-> NoPml4,
            old |-> NoPml4]

(***************************************************************************)
(* task_init: slot 0 is the main task; the rest of the pool is zeroed BSS, *)
(* so its state reads TASK_READY (0) but no scan goes beyond task_count.   *)
(***************************************************************************)
Init ==
    /\ state = [s \in Slot |-> IF s = 0 THEN "RUNNING" ELSE "READY"]
    /\ tid = [s \in Slot |-> 0]
    /\ tgid = [s \in Slot |-> 0]
    /\ next = [s \in Slot |-> IF s = 0 THEN 0 ELSE NoRef]
    /\ ctx = [s \in Slot |-> s = 0]
    /\ pending = [s \in Slot |-> FALSE]
    /\ mm = [s \in Slot |-> IF s = 0 THEN 0 ELSE NoRef]
    /\ fdt = [s \in Slot |-> IF s = 0 THEN 0 ELSE NoRef]
    /\ pc = [s \in Slot |-> "user"]
    /\ loc = [s \in Slot |-> NoLocal]
    /\ taskCount = 1 /\ nextId = 1 /\ current = 0
    /\ mmRefs = [m \in Slot |-> IF m = 0 THEN 1 ELSE 0]
    /\ mmPml4 = [m \in Slot |-> IF m = 0 THEN KernelPml4 ELSE NoPml4]
    /\ fdRefs = [f \in Slot |-> IF f = 0 THEN 1 ELSE 0]
    /\ live = {KernelPml4} /\ retired = {} /\ cr3 = KernelPml4
    /\ preempt = 0 /\ halted = FALSE

-----------------------------------------------------------------------------
(* Tables.                                                                 *)

\* The first free entry of a reference-counted table of MaxTasks entries.
FirstFree(refs, e) == refs[e] = 0 /\ \A k \in Slot : k < e => refs[k] # 0
Full(refs) == \A k \in Slot : refs[k] # 0

\* Mutants: the tables under CR3 are freed at once; or they are forgotten.
RetireAtOnce(p) == live' = live \ {p} /\ UNCHANGED retired
RetireForgets(p) == live' = live \ ({p} \ {cr3}) /\ UNCHANGED retired

\* task_retire_address_space and vmm_destroy_address_space: the page tables
\* under CR3 cannot be freed, so that one waits in the retired list.
Retire(p) ==
    IF p = cr3
    THEN /\ retired' = IF Cardinality(retired) < MaxTasks THEN retired \cup {p} ELSE retired
         /\ UNCHANGED live
    ELSE live' = live \ {p} /\ UNCHANGED retired

\* Mutant: the test of owns_pml4 is missing.
ReleaseMmUnowned(s) ==
    /\ mm' = [mm EXCEPT ![s] = NoRef]
    /\ mmRefs' = [m \in Slot |-> IF m = mm[s] THEN mmRefs[m] - 1 ELSE mmRefs[m]]
    /\ mmPml4' = [m \in Slot |-> IF mmRefs'[m] = 0 THEN NoPml4 ELSE mmPml4[m]]
    /\ IF mm[s] # NoRef /\ mmRefs[mm[s]] = 1
       THEN Retire(mmPml4[mm[s]])
       ELSE UNCHANGED <<live, retired>>

\* task_release_mm, on the slot's reference to its address space.  The boot
\* address space is not owned (owns_pml4 is false) and is never retired.
ReleaseMm(s) ==
    /\ mm' = [mm EXCEPT ![s] = NoRef]
    /\ IF mm[s] = NoRef
       THEN UNCHANGED <<mmRefs, mmPml4, live, retired>>
       ELSE /\ mmRefs' = [mmRefs EXCEPT ![mm[s]] = @ - 1]
            /\ IF mmRefs[mm[s]] = 1
               THEN /\ mmPml4' = [mmPml4 EXCEPT ![mm[s]] = NoPml4]
                    /\ IF mmPml4[mm[s]] = KernelPml4
                       THEN UNCHANGED <<live, retired>>
                       ELSE Retire(mmPml4[mm[s]])
               ELSE UNCHANGED <<mmPml4, live, retired>>

\* task_release_fd_table.
ReleaseFdt(s) ==
    /\ fdt' = [fdt EXCEPT ![s] = NoRef]
    /\ fdRefs' = IF fdt[s] = NoRef THEN fdRefs ELSE [fdRefs EXCEPT ![fdt[s]] = @ - 1]

-----------------------------------------------------------------------------
(* The ring and the switch.                                                *)

Succ(s) == IF next[s] = NoRef THEN 0 ELSE next[s]
Hop[k \in Nat] == IF k = 0 THEN current ELSE Succ(Hop[k - 1])

\* n is the first member of ready after the current slot, in ring order.
FirstInRing(n, ready) ==
    \E k \in 1 .. taskCount :
        /\ n = Hop[k]
        /\ \A j \in 1 .. k - 1 : Hop[j] \notin ready

ReadySlots == {s \in Slot : state[s] = "READY"}

\* sched_next, another task than the current one.
OtherReady == ReadySlots \ {current}
SchedNext(n) == taskCount > 1 /\ n \in OtherReady /\ FirstInRing(n, OtherReady)
NothingToRun == ~ \E n \in Slot : SchedNext(n)

\* The scan of task_schedule, which has already put the interrupted task back
\* to TASK_READY.
TickReady == ReadySlots \cup {s \in {current} : state[s] = "RUNNING"}
TickNextFromHead(n) ==     \* mutant: the scan starts at slot 0, not after current
    n \in TickReady \ {current} /\ \A t \in TickReady \ {current} : n <= t
TickNext(n) == n \in TickReady /\ FirstInRing(n, TickReady)

\* vmm_set_pml4 of the next task's address space, then task_reap_address_spaces.
HasSpace(s) == mm[s] # NoRef /\ mmPml4[mm[s]] # NoPml4
Cr3Of(n) == IF HasSpace(n) THEN mmPml4[mm[n]] ELSE cr3
SwitchToWithoutReap(n) ==  \* mutant: the retired list is never walked
    current' = n /\ cr3' = Cr3Of(n) /\ UNCHANGED <<retired, live>>
SwitchTo(n) ==
    /\ current' = n
    /\ cr3' = Cr3Of(n)
    /\ retired' = retired \cap {Cr3Of(n)}
    /\ live' = live \ (retired \ {Cr3Of(n)})

\* task_yield and task_schedule: the previous task is runnable again unless it
\* is terminated, and task_sig_deliver runs on the next one before it resumes.
SwitchStatesKeepPrev(n) == \* mutant: the previous task stays TASK_RUNNING
    [state EXCEPT ![n] = IF pending[n] THEN "TERMINATED" ELSE "RUNNING"]
SwitchStates(n) ==
    [state EXCEPT ![current] = IF @ = "RUNNING" THEN "READY" ELSE @,
                  ![n] = IF pending[n] THEN "TERMINATED" ELSE "RUNNING"]

Runs == ctx[current] /\ ~ halted
At(point) == Runs /\ pc[current] = point
Goto(point) == pc' = [pc EXCEPT ![current] = point]
Return == Goto("user") /\ loc' = [loc EXCEPT ![current] = NoLocal]
L == loc[current]
T == L.slot

-----------------------------------------------------------------------------
(* Creation: task_create, task_create_ring3_full, task_fork_common and     *)
(* task_clone_thread_common, cut at the points where a tick can land.      *)

\* The scan for a slot: the first terminated one, else one more of the pool.
Recyclable(s) == s \in 1 .. taskCount - 1 /\ state[s] = "TERMINATED"
PickSlot(s) ==
    IF \E t \in Slot : Recyclable(t)
    THEN Recyclable(s) /\ \A t \in Slot : t < s => ~ Recyclable(t)
    ELSE s = taskCount /\ taskCount < MaxTasks

CanSpawn(op) ==
    \/ op \in {"create", "fork"}
    \/ op = "clone" /\ HasSpace(current) /\ fdt[current] # NoRef

\* Entry of task_create, task_fork and task_clone_*_thread, up to the choice of idx.
SpawnScan(op, s) ==
    /\ nextId < MaxId
    /\ \/ At("user") /\ op \in Workload /\ CanSpawn(op)
       \/ At("scan") /\ op = "ring3"
    /\ PickSlot(s)
    /\ loc' = [loc EXCEPT ![current] =
                   [L EXCEPT !.op = op, !.slot = s, !.reuse = s < taskCount]]
    /\ Goto("claim")
    /\ UNCHANGED <<slotVars, memVars, cpuVars>>

\* The pool is full: task_create_ring3_full also drops the address space it was given.
SpawnFull ==
    /\ At("scan") /\ ~ \E s \in Slot : PickSlot(s)
    /\ live' = live \ ({L.pml4} \ {cr3})
    /\ Return
    /\ UNCHANGED <<slotVars, mmRefs, mmPml4, fdRefs, retired, cr3, cpuVars>>

\* The slot gets its id and is TASK_READY from here on.  fork and clone zero
\* the whole task_t first; task_create keeps what the last task left.  The
\* caller itself is recycled when a signal terminated it and it runs on: it
\* keeps executing, on the stack of the task it is creating.
SpawnClaim ==
    /\ At("claim")
    /\ nextId' = nextId + 1
    /\ tid' = [tid EXCEPT ![T] = nextId]
    /\ state' = [state EXCEPT ![T] = "READY"]
    /\ ctx' = [ctx EXCEPT ![T] = T = current]
    /\ IF L.op \in {"fork", "clone"}
       THEN /\ mm' = [mm EXCEPT ![T] = NoRef]
            /\ fdt' = [fdt EXCEPT ![T] = NoRef]
            /\ pending' = [pending EXCEPT ![T] = FALSE]
       ELSE UNCHANGED <<mm, fdt, pending>>
    /\ Goto("mem")
    /\ UNCHANGED <<tgid, next, taskCount, memVars, cpuVars, loc>>

\* The new address space: fork's and task_create's come from the frame
\* allocator, the ELF loader passes its own, clone shares the caller's.
NewSpace(p) == IF L.op = "ring3" THEN p = L.pml4 ELSE p \in Pml4s \ live

SpawnSpace(p, m) ==
    /\ At("mem") /\ L.op \in {"create", "ring3", "fork"}
    /\ L.op = "fork" => HasSpace(current)
    /\ NewSpace(p) /\ FirstFree(mmRefs, m)
    /\ live' = live \cup {p}
    /\ mmRefs' = [mmRefs EXCEPT ![m] = 1]
    /\ mmPml4' = [mmPml4 EXCEPT ![m] = p]
    /\ mm' = [mm EXCEPT ![T] = m]
    /\ tgid' = [tgid EXCEPT ![T] = tid[T]]
    /\ loc' = [loc EXCEPT ![current].pml4 = NoPml4]
    /\ Goto("fdt")
    /\ UNCHANGED <<state, tid, next, ctx, pending, fdt, taskCount, nextId,
                   fdRefs, retired, cr3, cpuVars>>

SpawnShareSpaceUncounted ==    \* mutant: mm->refs++ is missing
    /\ At("mem") /\ L.op = "clone" /\ mm[current] # NoRef
    /\ mm' = [mm EXCEPT ![T] = mm[current]]
    /\ tgid' = [tgid EXCEPT ![T] = tgid[current]]
    /\ Goto("fdt")
    /\ UNCHANGED <<state, tid, next, ctx, pending, fdt, taskCount, nextId,
                   memVars, cpuVars, loc>>

SpawnShareSpace ==
    /\ At("mem") /\ L.op = "clone" /\ mm[current] # NoRef
    /\ mm' = [mm EXCEPT ![T] = mm[current]]
    /\ mmRefs' = [mmRefs EXCEPT ![mm[current]] = @ + 1]
    /\ tgid' = [tgid EXCEPT ![T] = tgid[current]]
    /\ Goto("fdt")
    /\ UNCHANGED <<state, tid, next, ctx, pending, fdt, taskCount, nextId,
                   mmPml4, fdRefs, live, retired, cr3, cpuVars, loc>>

\* No frame or no mm entry: fork terminates the slot it claimed, task_create
\* and task_create_ring3_full return -1 and leave it TASK_READY.
NoFrame == L.op = "create" /\ Pml4s \subseteq live
SpawnSpaceFailsReady ==        \* mutant: fork's failure path leaves TASK_READY too
    /\ At("mem") /\ L.op # "clone"
    /\ mm' = IF NoFrame THEN mm ELSE [mm EXCEPT ![T] = NoRef]
    /\ live' = live \ ({L.pml4} \ {cr3})
    /\ Return
    /\ UNCHANGED <<state, tid, tgid, next, ctx, pending, fdt, taskCount, nextId,
                   mmRefs, mmPml4, fdRefs, retired, cr3, cpuVars>>

SpawnSpaceFails ==
    /\ At("mem") /\ L.op # "clone"
    /\ \/ L.op = "fork"          \* kmalloc of a vm_area copy may fail at any time
       \/ Full(mmRefs)
       \/ NoFrame
    /\ state' = IF L.op = "fork" THEN [state EXCEPT ![T] = "TERMINATED"] ELSE state
    /\ mm' = IF NoFrame THEN mm ELSE [mm EXCEPT ![T] = NoRef]
    /\ live' = live \ ({L.pml4} \ {cr3})
    /\ Return
    /\ UNCHANGED <<tid, tgid, next, ctx, pending, fdt, taskCount, nextId,
                   mmRefs, mmPml4, fdRefs, retired, cr3, cpuVars>>

SpawnFdt(f) ==
    /\ At("fdt")
    /\ IF L.op = "clone"
       THEN f = fdt[current]
       ELSE FirstFree(fdRefs, f)
    /\ fdt' = [fdt EXCEPT ![T] = f]
    /\ fdRefs' = [fdRefs EXCEPT ![f] = @ + 1]
    /\ Goto("frame")
    /\ UNCHANGED <<state, tid, tgid, next, ctx, pending, mm, taskCount, nextId,
                   mmRefs, mmPml4, live, retired, cr3, cpuVars, loc>>

SpawnFdtFails ==
    /\ At("fdt") /\ L.op # "clone" /\ Full(fdRefs)
    /\ ReleaseMm(T)
    /\ fdt' = [fdt EXCEPT ![T] = NoRef]
    /\ state' = IF L.op = "fork" THEN [state EXCEPT ![T] = "TERMINATED"] ELSE state
    /\ Return
    /\ UNCHANGED <<tid, tgid, next, ctx, pending, taskCount, nextId,
                   fdRefs, cr3, cpuVars>>

\* The signal state is cleared and the first context is built on the stack.
SpawnFrame ==
    /\ At("frame")
    /\ ctx' = [ctx EXCEPT ![T] = T # current]
    /\ pending' = [pending EXCEPT ![T] = FALSE]
    /\ pc' = [pc EXCEPT ![T] = "user", ![current] = "link"]
    /\ loc' = [loc EXCEPT ![T] = IF T = current THEN @ ELSE NoLocal]
    /\ UNCHANGED <<state, tid, tgid, next, mm, fdt, taskCount, nextId, memVars, cpuVars>>

\* Mutant: a recycled slot, which never left the ring, is linked again.
SpawnLinkAgain ==
    /\ At("link")
    /\ next' = [next EXCEPT ![T] = next[0], ![0] = T]
    /\ taskCount' = IF L.reuse THEN taskCount ELSE taskCount + 1
    /\ Return
    /\ UNCHANGED <<state, tid, tgid, ctx, pending, mm, fdt, nextId, memVars, cpuVars>>

\* A slot that was never used joins the ring after slot 0.
SpawnLink ==
    /\ At("link")
    /\ IF L.reuse
       THEN UNCHANGED <<next, taskCount>>
       ELSE /\ next' = [next EXCEPT ![T] = next[0], ![0] = T]
            /\ taskCount' = taskCount + 1
    /\ Return
    /\ UNCHANGED <<state, tid, tgid, ctx, pending, mm, fdt, nextId, memVars, cpuVars>>

-----------------------------------------------------------------------------
(* The ELF loader fills the new image through CR3, with preemption off.    *)

LoadBeginPreemptible(p) ==     \* mutant: task_preempt_disable is missing
    /\ At("user") /\ "ring3" \in Workload /\ nextId < MaxId /\ p \in Pml4s \ live
    /\ live' = live \cup {p}
    /\ cr3' = p
    /\ loc' = [loc EXCEPT ![current] = [NoLocal EXCEPT !.op = "ring3", !.pml4 = p, !.old = cr3]]
    /\ Goto("load")
    /\ UNCHANGED <<slotVars, mmRefs, mmPml4, fdRefs, retired, preempt, current, halted>>

LoadBegin(p) ==
    /\ At("user") /\ "ring3" \in Workload /\ nextId < MaxId /\ p \in Pml4s \ live
    /\ live' = live \cup {p}
    /\ cr3' = p
    /\ preempt' = preempt + 1
    /\ loc' = [loc EXCEPT ![current] = [NoLocal EXCEPT !.op = "ring3", !.pml4 = p, !.old = cr3]]
    /\ Goto("load")
    /\ UNCHANGED <<slotVars, mmRefs, mmPml4, fdRefs, retired, current, halted>>

LoadEndKeepsCr3 ==             \* mutant: CR3 is not put back
    /\ At("load")
    /\ preempt' = preempt - 1
    /\ Goto("scan")
    /\ UNCHANGED <<slotVars, memVars, current, halted, loc>>

LoadEnd ==
    /\ At("load")
    /\ cr3' = L.old
    /\ preempt' = preempt - 1
    /\ Goto("scan")
    /\ UNCHANGED <<slotVars, mmRefs, mmPml4, fdRefs, live, retired, current, halted, loc>>

\* ELF_NEW_IMAGE_FAIL.
LoadFails ==
    /\ At("load")
    /\ cr3' = L.old
    /\ preempt' = preempt - 1
    /\ live' = live \ ({L.pml4} \ {L.old})
    /\ Return
    /\ UNCHANGED <<slotVars, mmRefs, mmPml4, fdRefs, retired, current, halted>>

-----------------------------------------------------------------------------
(* Leaving the CPU.                                                        *)

\* task_yield, from sched_yield, from a polling wait, or from the driver
\* below the ELF loader's vfs_read.  With nothing else to run it halts until
\* the next interrupt and returns: no step of this model.
Yield(n) ==
    /\ \/ At("user") \/ At("wait")
       \/ At("load") /\ LoadYields
    /\ SchedNext(n)
    /\ state' = SwitchStates(n)
    /\ pending' = [pending EXCEPT ![n] = FALSE]
    /\ SwitchTo(n)
    /\ UNCHANGED <<tid, tgid, next, ctx, mm, fdt, taskCount, nextId,
                   mmRefs, mmPml4, fdRefs, preempt, halted, pc, loc>>

\* The timer interrupt, task_schedule: it also delivers to a task it resumes
\* at once because no other one is ready.
Tick(n) ==
    /\ Runs
    /\ pc[current] \in {"user", "wait", "load"} \cup IrqOpen
    /\ preempt = 0 /\ state[current] # "TERMINATED"
    /\ TickNext(n)
    /\ state' = SwitchStates(n)
    /\ pending' = [pending EXCEPT ![n] = FALSE]
    /\ SwitchTo(n)
    /\ UNCHANGED <<tid, tgid, next, ctx, mm, fdt, taskCount, nextId,
                   mmRefs, mmPml4, fdRefs, preempt, halted, pc, loc>>

-----------------------------------------------------------------------------
(* The end of a task.                                                      *)

\* task_exit up to task_irq_save: both tables are released, the CPU still
\* runs on the page tables that were given back.
ExitRelease ==
    /\ At("user") /\ "exit" \in Workload
    /\ ReleaseFdt(current)
    /\ ReleaseMm(current)
    /\ Goto("exit2")
    /\ UNCHANGED <<state, tid, tgid, next, ctx, pending, taskCount, nextId, cr3, cpuVars, loc>>

\* The rest of task_exit, interrupts off.  No signal is delivered on this path.
ExitSwitch(n) ==
    /\ At("exit2")
    /\ SchedNext(n)
    /\ state' = [state EXCEPT ![current] = "TERMINATED", ![n] = "RUNNING"]
    /\ SwitchTo(n)
    /\ UNCHANGED <<tid, tgid, next, ctx, pending, mm, fdt, taskCount, nextId,
                   mmRefs, mmPml4, fdRefs, preempt, halted, pc, loc>>

ExitHalt ==
    /\ At("exit2") /\ NothingToRun
    /\ state' = [state EXCEPT ![current] = "TERMINATED"]
    /\ halted' = TRUE
    /\ UNCHANGED <<tid, tgid, next, ctx, pending, mm, fdt, taskCount, nextId,
                   memVars, current, preempt, pc, loc>>

\* task_kill (of the caller itself: task_exit) of another task with SIGKILL, or
\* with SIGTERM at its default: the killer releases the target's tables, then marks it.
Killable(t) == t \in 0 .. taskCount - 1 /\ t # current /\ state[t] # "TERMINATED"

KillRelease(t) ==
    /\ At("user") /\ "kill" \in Workload /\ Killable(t)
    /\ ReleaseFdt(t)
    /\ ReleaseMm(t)
    /\ loc' = [loc EXCEPT ![current].slot = t]
    /\ Goto("kill2")
    /\ UNCHANGED <<state, tid, tgid, next, ctx, pending, taskCount, nextId, cr3, cpuVars>>

KillMark ==
    /\ At("kill2")
    /\ state' = [state EXCEPT ![T] = "TERMINATED"]
    /\ Return
    /\ UNCHANGED <<tid, tgid, next, ctx, pending, mm, fdt, taskCount, nextId, memVars, cpuVars>>

\* task_kill with any other signal the target leaves at a terminating default.
Pend(t) ==
    /\ At("user") /\ "pend" \in Workload
    /\ t \in 0 .. taskCount - 1 /\ state[t] # "TERMINATED"
    /\ pending' = [pending EXCEPT ![t] = TRUE]
    /\ UNCHANGED <<state, tid, tgid, next, ctx, mm, fdt, taskCount, nextId,
                   memVars, cpuVars, pc, loc>>

\* task_wait: the slot of the id is looked up once, its state is polled.
\* waitpid calls it whether or not it was given WNOHANG.
WaitBegin(i, s) ==
    /\ At("user") /\ "wait" \in Workload
    /\ s \in 0 .. taskCount - 1 /\ tid[s] = i /\ s # current
    /\ \A t \in 0 .. s - 1 : tid[t] # i
    /\ loc' = [loc EXCEPT ![current] = [NoLocal EXCEPT !.op = "wait", !.slot = s]]
    /\ Goto("wait")
    /\ UNCHANGED <<slotVars, memVars, cpuVars>>

WaitReturn ==
    /\ At("wait") /\ state[T] = "TERMINATED"
    /\ Return
    /\ UNCHANGED <<slotVars, memVars, cpuVars>>

-----------------------------------------------------------------------------
Spawn ==
    \/ \E op \in Operations, s \in Slot : SpawnScan(op, s)
    \/ SpawnFull \/ SpawnClaim
    \/ \E p \in Pml4s, m \in Slot : SpawnSpace(p, m)
    \/ SpawnShareSpace \/ SpawnSpaceFails
    \/ \E f \in Slot : SpawnFdt(f)
    \/ SpawnFdtFails \/ SpawnFrame \/ SpawnLink

Load == (\E p \in Pml4s : LoadBegin(p)) \/ LoadEnd \/ LoadFails

End ==
    \/ ExitRelease \/ (\E n \in Slot : ExitSwitch(n)) \/ ExitHalt
    \/ (\E t \in Slot : KillRelease(t)) \/ KillMark
    \/ \E t \in Slot : Pend(t)

Wait == (\E i \in 0 .. nextId, s \in Slot : WaitBegin(i, s)) \/ WaitReturn

Schedule == \E n \in Slot : Yield(n) \/ Tick(n)

\* cli; hlt: the machine stays where it is.
Halted == halted /\ UNCHANGED vars

Next == Spawn \/ Load \/ End \/ Wait \/ Schedule \/ Halted

Spec == Init /\ [][Next]_vars

-----------------------------------------------------------------------------
(* Fairness.  Kernel code does not stop by itself, and the timer interrupt *)
(* keeps coming: an IRQ0 raised while interrupts are off is latched by the *)
(* PIC and taken when they are enabled again, so the tick is strongly fair.*)
KernelStep == ~ At("user") /\ (Spawn \/ Load \/ End)
Fairness == WF_vars(KernelStep) /\ SF_vars(\E n \in Slot : Tick(n))
FairSpec == Spec /\ Fairness

-----------------------------------------------------------------------------
(* Properties.                                                             *)

\* Every variable has its type.
TaskTypes ==
    /\ state \in [Slot -> {"READY", "RUNNING", "TERMINATED"}]
    /\ tid \in [Slot -> Nat] /\ tgid \in [Slot -> Nat]
    /\ next \in [Slot -> 0 .. MaxTasks]
    /\ ctx \in [Slot -> BOOLEAN] /\ pending \in [Slot -> BOOLEAN]
    /\ taskCount \in Nat \ {0} /\ nextId \in Nat
TableTypes ==
    /\ mm \in [Slot -> 0 .. MaxTasks] /\ fdt \in [Slot -> 0 .. MaxTasks]
    /\ mmRefs \in [Slot -> Nat] /\ fdRefs \in [Slot -> Nat]
SpaceTypes ==
    /\ mmPml4 \in [Slot -> Pml4s \cup {KernelPml4, NoPml4}]
    /\ live \subseteq Pml4s \cup {KernelPml4} /\ retired \subseteq Pml4s
    /\ cr3 \in Pml4s \cup {KernelPml4}
CpuTypes ==
    /\ current \in Slot /\ preempt \in Nat /\ halted \in BOOLEAN
    /\ pc \in [Slot -> KernelPoints \cup {"user"}]
LocalTypes == loc \in [Slot -> Local]
TypeOK == TaskTypes /\ TableTypes /\ SpaceTypes /\ CpuTypes /\ LocalTypes

\* The ring the scheduler walks passes through every slot handed out so far
\* and through no other: no task drops out of the rotation (task.c:456, 594).
RingIsComplete == {Hop[k] : k \in 1 .. taskCount} = 0 .. taskCount - 1

\* Exactly the current task is TASK_RUNNING, until the machine halts.
OneRuns ==
    ~ halted => {s \in 0 .. taskCount - 1 : state[s] = "RUNNING"} = {current}

\* The CPU only ever resumes a context that the slot's present task saved or
\* that its creation built, never one left by the slot's last task.
ResumesOwnContext == ctx[current]

Holders(table, e) == {s \in Slot : table[s] = e}

\* The reference counts of both tables are exactly the number of slots that
\* point at the entry, whoever shares, forks, exits or is killed.
RefsMatchHolders ==
    \A e \in Slot :
        /\ mmRefs[e] = Cardinality(Holders(mm, e))
        /\ fdRefs[e] = Cardinality(Holders(fdt, e))

\* No page table is freed under the CPU or under a task that will run on it.
SpacesInUseExist ==
    /\ cr3 \in live
    /\ \A s \in Slot : mm[s] # NoRef => mmPml4[mm[s]] \in live

\* Why it holds, as an inductive invariant: an entry of the mm table counts at
\* least its holders; the spaces of the entries in use, the retired ones and
\* the ones a loader still carries exist and are all different; the loader is
\* alone while CR3 is borrowed, so the space it returns to still exists.
Used(m) == mmRefs[m] > 0
Carries(s) == loc[s].pml4 # NoPml4
RefsCoverHolders ==
    \A e \in Slot :
        /\ mmRefs[e] >= Cardinality(Holders(mm, e))
        /\ fdRefs[e] >= Cardinality(Holders(fdt, e))
EntriesOwnSpaces ==
    \A m \in Slot : Used(m) =>
        /\ mmPml4[m] \in live \ retired
        /\ \A k \in Slot : Used(k) /\ mmPml4[k] = mmPml4[m] => k = m
RetiredExist == retired \subseteq live
CarriedAreOwned ==
    \A s \in Slot : Carries(s) =>
        /\ loc[s].pml4 \in live \ retired
        /\ \A m \in Slot : Used(m) => mmPml4[m] # loc[s].pml4
        /\ \A t \in Slot : loc[t].pml4 = loc[s].pml4 => t = s
LoaderIsAlone ==
    \A s \in Slot : pc[s] = "load" => s = current /\ preempt > 0 /\ loc[s].old \in live
LocalsInRange ==
    \A s \in Slot :
        pc[s] \in {"claim", "mem", "fdt", "frame", "link", "kill2"} => loc[s].slot \in Slot
SpaceInv ==
    /\ cr3 \in live
    /\ RefsCoverHolders /\ EntriesOwnSpaces /\ RetiredExist /\ CarriedAreOwned
    /\ LoaderIsAlone /\ LocalsInRange
SpacesSafe == SpaceInv /\ SpacesInUseExist

\* Every address space that exists has someone who will free it: an mm entry
\* in use, the retired list, or a loader or creation in progress.
OwnsSpace(s, p) ==
    /\ loc[s].pml4 = p /\ pc[s] \in {"load", "scan", "claim", "mem"}
    /\ state[s] # "TERMINATED"
NoSpaceLeaks ==
    \A p \in live \ {KernelPml4} :
        \/ p \in retired
        \/ \E m \in Slot : mmRefs[m] > 0 /\ mmPml4[m] = p
        \/ \E s \in Slot : OwnsSpace(s, p)

\* A task that executes outside the kernel does so in its own address space.
RunsInOwnSpace ==
    pc[current] = "user" /\ state[current] = "RUNNING"
        => mm[current] # NoRef /\ cr3 = mmPml4[mm[current]]

\* While the loader writes the segments of a new image, CR3 is the new
\* image's address space (elf.c:596).
LoaderKeepsSpace == pc[current] = "load" => cr3 = loc[current].pml4

\* A task that took a fatal signal does not go on executing.
TerminatedStops == ~ halted => state[current] # "TERMINATED"

\* Round robin: a runnable task gets the CPU, or is terminated first.
NoStarvation ==
    \A s \in Slot :
        (s < taskCount /\ state[s] = "READY") ~> (s = current \/ state[s] = "TERMINATED" \/ halted)

\* The page tables a task died on are freed once another task runs.
RetiredIsReaped ==
    \A p \in Pml4s : (p \in retired) ~> (p \notin retired \/ halted)

=============================================================================
