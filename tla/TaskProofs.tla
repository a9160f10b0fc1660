----------------------------- MODULE TaskProofs -----------------------------
(***************************************************************************)
(* What is proved of Task for every pool size, every set of frames, every  *)
(* workload and every choice of the points the timer may interrupt.        *)
(***************************************************************************)
EXTENDS Task, FiniteSetTheorems, WellFoundedInduction, TLAPS

\* The pool is not empty and has finitely many slots.
LEMMA SlotFacts ==
    /\ IsFiniteSet(Slot) /\ 0 \in Slot /\ NoRef \notin Slot
    /\ NoRef \in 0 .. MaxTasks /\ Slot \subseteq 0 .. MaxTasks
    /\ \A e \in 0 .. MaxTasks : e # NoRef => e \in Slot
<1>1. IsFiniteSet(Slot)
  BY TaskAssumption, FS_Interval DEF Slot
<1> QED  BY <1>1, TaskAssumption DEF Slot, NoRef

\* The holders of an entry are finite in number, and one at least once a slot
\* points at the entry.
LEMMA HoldersCount ==
    ASSUME NEW f \in [Slot -> 0 .. MaxTasks], NEW e
    PROVE  /\ IsFiniteSet(Holders(f, e))
           /\ Cardinality(Holders(f, e)) \in Nat
           /\ \A s \in Slot : f[s] = e => Cardinality(Holders(f, e)) >= 1
<1>1. IsFiniteSet(Holders(f, e))
  BY SlotFacts, FS_Subset DEF Holders
<1>2. Cardinality(Holders(f, e)) \in Nat
  BY <1>1, FS_CardinalityType
<1>3. ASSUME NEW s \in Slot, f[s] = e
      PROVE  Cardinality(Holders(f, e)) >= 1
  <2>1. Holders(f, e) # {}  BY <1>3 DEF Holders
  <2>2. Cardinality(Holders(f, e)) # 0  BY <1>1, <2>1, FS_EmptySet
  <2> QED  BY <1>2, <2>2
<1> QED  BY <1>1, <1>2, <1>3

\* Pointing slot t at v takes it from the holders of its old entry and adds it
\* to those of v.
LEMMA HoldersExcept ==
    ASSUME NEW f \in [Slot -> 0 .. MaxTasks], NEW t \in Slot,
           NEW v \in 0 .. MaxTasks, NEW e \in Slot
    PROVE  /\ f[t] = e /\ v # e => Cardinality(Holders([f EXCEPT ![t] = v], e))
                                     = Cardinality(Holders(f, e)) - 1
           /\ f[t] # e /\ v = e => Cardinality(Holders([f EXCEPT ![t] = v], e))
                                     = Cardinality(Holders(f, e)) + 1
           /\ (f[t] = e) = (v = e) => Cardinality(Holders([f EXCEPT ![t] = v], e))
                                     = Cardinality(Holders(f, e))
<1> DEFINE g == [f EXCEPT ![t] = v]
<1>0. IsFiniteSet(Holders(f, e)) /\ Cardinality(Holders(f, e)) \in Nat
  BY HoldersCount
<1>1. CASE f[t] = e /\ v # e
  <2>1. Holders(g, e) = Holders(f, e) \ {t} /\ t \in Holders(f, e)
    BY <1>1 DEF Holders
  <2> QED  BY <1>0, <1>1, <2>1, FS_RemoveElement, ZenonT(40)
<1>2. CASE f[t] # e /\ v = e
  <2>1. Holders(g, e) = Holders(f, e) \cup {t} /\ t \notin Holders(f, e)
    BY <1>2 DEF Holders
  <2> QED  BY <1>0, <1>2, <2>1, FS_AddElement
<1>3. CASE (f[t] = e) = (v = e)
  <2>1. Holders(g, e) = Holders(f, e)
    BY <1>3 DEF Holders
  <2> QED  BY <1>3, <2>1
<1> QED  BY <1>1, <1>2, <1>3

-----------------------------------------------------------------------------
IInv == TypeOK /\ SpaceInv

\* The locals stay records of their type when a field is set.
LEMMA LocalFacts ==
    /\ NoLocal \in Local
    /\ \A x \in Local, op \in Operations, s \in Slot, b \in BOOLEAN :
           [x EXCEPT !.op = op, !.slot = s, !.reuse = b] \in Local
    /\ \A x \in Local : [x EXCEPT !.pml4 = NoPml4] \in Local
    /\ \A x \in Local, s \in Slot : [x EXCEPT !.slot = s] \in Local
    /\ \A s \in Slot : [NoLocal EXCEPT !.op = "wait", !.slot = s] \in Local
    /\ \A p \in Pml4s, o \in Pml4s \cup {KernelPml4} :
           [NoLocal EXCEPT !.op = "ring3", !.pml4 = p, !.old = o] \in Local
BY SlotFacts DEF Local, NoLocal, Operations

LEMMA InitIInv == Init => IInv
<1> SUFFICES ASSUME Init PROVE IInv  OBVIOUS
<1> USE SlotFacts, TaskAssumption
<1>1. TaskTypes /\ TableTypes /\ SpaceTypes
  BY DEF Init, TaskTypes, TableTypes, SpaceTypes
<1>2. CpuTypes /\ LocalTypes
  BY LocalFacts DEF Init, CpuTypes, LocalTypes
<1>3. \A e \in Slot : Cardinality(Holders(mm, e)) = (IF e = 0 THEN 1 ELSE 0)
                     /\ Cardinality(Holders(fdt, e)) = (IF e = 0 THEN 1 ELSE 0)
  <2> TAKE e \in Slot
  <2>1. /\ Holders(mm, e) = (IF e = 0 THEN {0} ELSE {})
        /\ Holders(fdt, e) = (IF e = 0 THEN {0} ELSE {})
    BY DEF Init, Holders
  <2>2. Cardinality({}) = 0 /\ Cardinality({0}) = 1
    BY FS_EmptySet, FS_Singleton
  <2> QED  BY <2>1, <2>2
<1>4. RefsCoverHolders
  BY <1>3 DEF Init, RefsCoverHolders
<1>5. EntriesOwnSpaces /\ RetiredExist /\ CarriedAreOwned /\ cr3 \in live
  BY DEF Init, EntriesOwnSpaces, Used, RetiredExist, CarriedAreOwned, Carries, NoLocal
<1>6. LoaderIsAlone /\ LocalsInRange
  BY DEF Init, LoaderIsAlone, LocalsInRange
<1> QED  BY <1>1, <1>2, <1>4, <1>5, <1>6 DEF IInv, TypeOK, SpaceInv

LEMMA TaskTypesStep ==
    ASSUME TypeOK, Next
    PROVE  TaskTypes'
<1>n. \A t : [tid EXCEPT ![t] = nextId] \in [Slot -> Nat]
  BY DEF TypeOK, TaskTypes
<1> USE SlotFacts, TaskAssumption
<1> USE DEF TypeOK, TaskTypes, slotVars
<1>1. CASE Spawn
  <2>1. CASE \/ \E op \in Operations, s \in Slot : SpawnScan(op, s)
             \/ SpawnFull
    BY <2>1 DEF SpawnScan, SpawnFull
  <2>2. CASE SpawnClaim
    <3>1. state' \in [Slot -> {"READY", "RUNNING", "TERMINATED"}]  BY <2>2 DEF SpawnClaim
    <3>2. tid' \in [Slot -> Nat] /\ nextId' \in Nat
      <4>1. nextId \in Nat /\ nextId' = nextId + 1  BY <2>2 DEF SpawnClaim
      <4>2. tid' = [tid EXCEPT ![T] = nextId]  BY <2>2 DEF SpawnClaim
      <4> QED  BY <4>1, <4>2, <1>n
    <3>3. ctx' \in [Slot -> BOOLEAN]
      <4>1. ctx' = [ctx EXCEPT ![T] = T = current]  BY <2>2 DEF SpawnClaim
      <4>2. (T = current) \in BOOLEAN  OBVIOUS
      <4> QED  BY <4>1, <4>2
    <3>4. pending' \in [Slot -> BOOLEAN]  BY <2>2 DEF SpawnClaim
    <3>5. UNCHANGED <<tgid, next, taskCount>>  BY <2>2 DEF SpawnClaim
    <3> QED  BY <3>1, <3>2, <3>3, <3>4, <3>5
  <2>3. CASE \/ \E p \in Pml4s, m \in Slot : SpawnSpace(p, m)
             \/ SpawnShareSpace
    BY <2>3 DEF SpawnSpace, SpawnShareSpace, CpuTypes
  <2>4. CASE SpawnSpaceFails \/ SpawnFdtFails \/ \E f \in Slot : SpawnFdt(f)
    BY <2>4 DEF SpawnSpaceFails, SpawnFdtFails, SpawnFdt
  <2>5. CASE SpawnFrame  BY <2>5 DEF SpawnFrame
  <2>6. CASE SpawnLink  BY <2>6 DEF SpawnLink, T, L, CpuTypes, LocalTypes, Local
  <2> QED  BY <1>1, <2>1, <2>2, <2>3, <2>4, <2>5, <2>6 DEF Spawn
<1>2. CASE Load
  BY <1>2 DEF Load, LoadBegin, LoadEnd, LoadFails
<1>3. CASE End
  BY <1>3 DEF End, ExitRelease, ExitSwitch, ExitHalt, KillRelease, KillMark, Pend
<1>4. CASE Wait
  BY <1>4 DEF Wait, WaitBegin, WaitReturn
<1>5. CASE Schedule
  <2>1. PICK n \in Slot : Yield(n) \/ Tick(n)  BY <1>5 DEF Schedule
  <2>2. state' = SwitchStates(n) /\ pending' = [pending EXCEPT ![n] = FALSE]
    BY <2>1 DEF Yield, Tick
  <2>3. UNCHANGED <<tid, tgid, next, ctx, taskCount, nextId>>
    BY <2>1 DEF Yield, Tick
  <2>4. state' \in [Slot -> {"READY", "RUNNING", "TERMINATED"}]
    BY <2>2 DEF SwitchStates, CpuTypes
  <2>5. pending' \in [Slot -> BOOLEAN]
    BY <2>2
  <2> QED  BY <2>3, <2>4, <2>5
<1>6. CASE Halted
  BY <1>6 DEF Halted, vars
<1> QED  BY <1>1, <1>2, <1>3, <1>4, <1>5, <1>6 DEF Next

LEMMA LocalTypesStep ==
    ASSUME TypeOK, Next
    PROVE  LocalTypes'
<1> USE DEF TypeOK, LocalTypes, Return
<1>0. current \in Slot /\ L \in Local
  BY DEF CpuTypes, L
<1>a. \A s \in Slot : (s < taskCount) \in BOOLEAN
  BY DEF Slot, TaskTypes
<1>b. \A i \in 0 .. nextId : i \in Nat
  BY DEF TaskTypes
<1> USE SlotFacts, LocalFacts, TaskAssumption
<1>1. CASE Spawn
  <2>1. CASE \E op \in Operations, s \in Slot : SpawnScan(op, s)
    <3>1. PICK op \in Operations, s \in Slot : SpawnScan(op, s)  BY <2>1
    <3>2. loc' = [loc EXCEPT ![current] =
                     [L EXCEPT !.op = op, !.slot = s, !.reuse = s < taskCount]]
      BY <3>1 DEF SpawnScan
    <3>3. (s < taskCount) \in BOOLEAN  BY <1>a
    <3>4. [L EXCEPT !.op = op, !.slot = s, !.reuse = s < taskCount] \in Local
      BY <1>0, <3>3
    <3> QED  BY <1>0, <3>2, <3>4
  <2>2. CASE SpawnClaim \/ SpawnShareSpace \/ \E f \in Slot : SpawnFdt(f)
    BY <2>2 DEF SpawnClaim, SpawnShareSpace, SpawnFdt
  <2>3. CASE \E p \in Pml4s, m \in Slot : SpawnSpace(p, m)
    <3>1. loc' = [loc EXCEPT ![current].pml4 = NoPml4]  BY <2>3 DEF SpawnSpace
    <3>2. [loc[current] EXCEPT !.pml4 = NoPml4] \in Local  BY <1>0
    <3> QED  BY <1>0, <3>1, <3>2
  <2>4. CASE SpawnFull \/ SpawnSpaceFails \/ SpawnFdtFails \/ SpawnLink
    BY <1>0, <2>4 DEF SpawnFull, SpawnSpaceFails, SpawnFdtFails, SpawnLink
  <2>5. CASE SpawnFrame
    BY <1>0, <2>5 DEF SpawnFrame
  <2> QED  BY <1>1, <2>1, <2>2, <2>3, <2>4, <2>5 DEF Spawn
<1>2. CASE Load
  <2>1. CASE \E p \in Pml4s : LoadBegin(p)
    <3>1. PICK p \in Pml4s : LoadBegin(p)  BY <2>1
    <3>2. [NoLocal EXCEPT !.op = "ring3", !.pml4 = p, !.old = cr3] \in Local
      BY DEF SpaceTypes
    <3>3. loc' = [loc EXCEPT ![current] =
                     [NoLocal EXCEPT !.op = "ring3", !.pml4 = p, !.old = cr3]]
      BY <3>1 DEF LoadBegin
    <3> QED  BY <1>0, <3>2, <3>3
  <2>2. CASE LoadEnd \/ LoadFails
    BY <1>0, <2>2 DEF LoadEnd, LoadFails
  <2> QED  BY <1>2, <2>1, <2>2 DEF Load
<1>3. CASE End
  <2>1. CASE \E t \in Slot : KillRelease(t)
    <3>1. PICK t \in Slot : KillRelease(t)  BY <2>1
    <3>2. loc' = [loc EXCEPT ![current].slot = t]  BY <3>1 DEF KillRelease
    <3>3. [loc[current] EXCEPT !.slot = t] \in Local  BY <1>0
    <3> QED  BY <1>0, <3>2, <3>3
  <2>2. CASE \/ ExitRelease \/ ExitHalt \/ KillMark
             \/ \E n \in Slot : ExitSwitch(n) \/ Pend(n)
    BY <1>0, <2>2 DEF ExitRelease, ExitSwitch, ExitHalt, KillMark, Pend
  <2> QED  BY <1>3, <2>1, <2>2 DEF End
<1>4. CASE Wait
  <2>1. CASE \E i \in 0 .. nextId, s \in Slot : WaitBegin(i, s)
    <3>1. PICK i \in 0 .. nextId, s \in Slot : WaitBegin(i, s)
      BY <2>1
    <3>3. loc' = [loc EXCEPT ![current] = [NoLocal EXCEPT !.op = "wait", !.slot = s]]
      BY <3>1 DEF WaitBegin
    <3> QED  BY <1>0, <3>3
  <2>2. CASE WaitReturn  BY <1>0, <2>2 DEF WaitReturn
  <2> QED  BY <1>4, <2>1, <2>2 DEF Wait
<1>5. CASE Schedule
  BY <1>5 DEF Schedule, Yield, Tick
<1>6. CASE Halted
  BY <1>6 DEF Halted, vars
<1> QED  BY <1>1, <1>2, <1>3, <1>4, <1>5, <1>6 DEF Next

LEMMA CpuTypesStep ==
    ASSUME TypeOK, LoaderIsAlone, Next
    PROVE  CpuTypes'
<1> USE DEF TypeOK, CpuTypes, KernelPoints, Return, Goto, cpuVars, At
<1>1. CASE Spawn
  BY <1>1 DEF Spawn, SpawnScan, SpawnFull, SpawnClaim, SpawnSpace, SpawnShareSpace,
     SpawnSpaceFails, SpawnFdt, SpawnFdtFails, SpawnFrame, SpawnLink
<1>2. CASE Load
  <2>1. CASE \E p \in Pml4s : LoadBegin(p)
    BY <2>1 DEF LoadBegin
  <2>2. CASE LoadEnd \/ LoadFails
    <3>1. preempt > 0  BY <2>2 DEF LoadEnd, LoadFails, LoaderIsAlone
    <3> QED  BY <2>2, <3>1 DEF LoadEnd, LoadFails
  <2> QED  BY <1>2, <2>1, <2>2 DEF Load
<1>3. CASE End
  BY <1>3 DEF End, ExitRelease, ExitSwitch, ExitHalt, KillRelease, KillMark, Pend, SwitchTo
<1>4. CASE Wait
  BY <1>4 DEF Wait, WaitBegin, WaitReturn
<1>5. CASE Schedule
  BY <1>5 DEF Schedule, Yield, Tick, SwitchTo
<1>6. CASE Halted
  BY <1>6 DEF Halted, vars
<1> QED  BY <1>1, <1>2, <1>3, <1>4, <1>5, <1>6 DEF Next

-----------------------------------------------------------------------------
(* The reference counts.                                                   *)

Covers(refs, table) == \A e \in Slot : refs[e] >= Cardinality(Holders(table, e))

LEMMA CoverDrop ==
    ASSUME NEW f \in [Slot -> 0 .. MaxTasks], NEW refs \in [Slot -> Nat],
           Covers(refs, f), NEW t \in Slot
    PROVE  Covers(refs, [f EXCEPT ![t] = NoRef])
<1> SUFFICES ASSUME NEW e \in Slot
             PROVE  refs[e] >= Cardinality(Holders([f EXCEPT ![t] = NoRef], e))
  BY DEF Covers
<1>1. refs[e] >= Cardinality(Holders(f, e)) /\ Cardinality(Holders(f, e)) \in Nat
  BY HoldersCount DEF Covers
<1>2. /\ f[t] = e => Cardinality(Holders([f EXCEPT ![t] = NoRef], e))
                    = Cardinality(Holders(f, e)) - 1
      /\ f[t] # e => Cardinality(Holders([f EXCEPT ![t] = NoRef], e))
                    = Cardinality(Holders(f, e))
  <2>1. NoRef # e /\ NoRef \in 0 .. MaxTasks  BY SlotFacts
  <2> QED  BY <2>1, HoldersExcept
<1> QED  BY <1>1, <1>2

LEMMA CoverRelease ==
    ASSUME NEW f \in [Slot -> 0 .. MaxTasks], NEW refs \in [Slot -> Nat],
           Covers(refs, f), NEW t \in Slot, f[t] # NoRef
    PROVE  /\ f[t] \in Slot /\ refs[f[t]] >= 1
           /\ [refs EXCEPT ![f[t]] = @ - 1] \in [Slot -> Nat]
           /\ Covers([refs EXCEPT ![f[t]] = @ - 1], [f EXCEPT ![t] = NoRef])
<1>1. f[t] \in Slot  BY SlotFacts
<1>2. refs[f[t]] >= 1
  <2>1. Cardinality(Holders(f, f[t])) >= 1 /\ Cardinality(Holders(f, f[t])) \in Nat
    BY HoldersCount
  <2> QED  BY <1>1, <2>1 DEF Covers
<1>3. [refs EXCEPT ![f[t]] = @ - 1] \in [Slot -> Nat]  BY <1>1, <1>2
<1>4. ASSUME NEW e \in Slot
      PROVE  [refs EXCEPT ![f[t]] = @ - 1][e] >= Cardinality(Holders([f EXCEPT ![t] = NoRef], e))
  <2>1. refs[e] >= Cardinality(Holders(f, e)) /\ Cardinality(Holders(f, e)) \in Nat
    BY HoldersCount DEF Covers
  <2>2. NoRef # e /\ NoRef \in 0 .. MaxTasks  BY SlotFacts
  <2>3. /\ f[t] = e => Cardinality(Holders([f EXCEPT ![t] = NoRef], e))
                      = Cardinality(Holders(f, e)) - 1
        /\ f[t] # e => Cardinality(Holders([f EXCEPT ![t] = NoRef], e))
                      = Cardinality(Holders(f, e))
    BY <2>2, HoldersExcept
  <2> QED  BY <2>1, <2>3
<1> QED  BY <1>1, <1>2, <1>3, <1>4 DEF Covers

LEMMA CoverTake ==
    ASSUME NEW f \in [Slot -> 0 .. MaxTasks], NEW refs \in [Slot -> Nat],
           Covers(refs, f), NEW t \in Slot, NEW v \in Slot
    PROVE  Covers([refs EXCEPT ![v] = @ + 1], [f EXCEPT ![t] = v])
<1> SUFFICES ASSUME NEW e \in Slot
             PROVE  [refs EXCEPT ![v] = @ + 1][e] >= Cardinality(Holders([f EXCEPT ![t] = v], e))
  BY DEF Covers
<1>1. refs[e] >= Cardinality(Holders(f, e)) /\ Cardinality(Holders(f, e)) \in Nat
  BY HoldersCount DEF Covers
<1>2. v \in 0 .. MaxTasks  BY SlotFacts
<1>3. /\ f[t] = e /\ v # e => Cardinality(Holders([f EXCEPT ![t] = v], e))
                               = Cardinality(Holders(f, e)) - 1
      /\ f[t] # e /\ v = e => Cardinality(Holders([f EXCEPT ![t] = v], e))
                               = Cardinality(Holders(f, e)) + 1
      /\ (f[t] = e) = (v = e) => Cardinality(Holders([f EXCEPT ![t] = v], e))
                               = Cardinality(Holders(f, e))
  BY <1>2, HoldersExcept
<1> QED  BY <1>1, <1>3

\* task_release_mm and task_release_fd_table on any slot.
LEMMA ReleaseMmCovers ==
    ASSUME TableTypes, RefsCoverHolders, NEW s \in Slot, ReleaseMm(s)
    PROVE  /\ mm' \in [Slot -> 0 .. MaxTasks] /\ mmRefs' \in [Slot -> Nat]
           /\ Covers(mmRefs', mm')
<1>1. Covers(mmRefs, mm)  BY DEF RefsCoverHolders, Covers
<1>2. mm' = [mm EXCEPT ![s] = NoRef]  BY DEF ReleaseMm
<1>3. mm' \in [Slot -> 0 .. MaxTasks]  BY <1>2, SlotFacts DEF TableTypes
<1>4. CASE mm[s] = NoRef
  BY <1>1, <1>2, <1>3, <1>4, CoverDrop DEF ReleaseMm, TableTypes
<1>5. CASE mm[s] # NoRef
  <2>1. mmRefs' = [mmRefs EXCEPT ![mm[s]] = @ - 1]  BY <1>5 DEF ReleaseMm
  <2> QED  BY <1>1, <1>2, <1>3, <1>5, <2>1, CoverRelease DEF TableTypes
<1> QED  BY <1>4, <1>5

LEMMA ReleaseFdtCovers ==
    ASSUME TableTypes, RefsCoverHolders, NEW s \in Slot, ReleaseFdt(s)
    PROVE  /\ fdt' \in [Slot -> 0 .. MaxTasks] /\ fdRefs' \in [Slot -> Nat]
           /\ Covers(fdRefs', fdt')
<1>1. Covers(fdRefs, fdt)  BY DEF RefsCoverHolders, Covers
<1>2. fdt' = [fdt EXCEPT ![s] = NoRef]  BY DEF ReleaseFdt
<1>3. fdt' \in [Slot -> 0 .. MaxTasks]  BY <1>2, SlotFacts DEF TableTypes
<1>4. CASE fdt[s] = NoRef
  BY <1>1, <1>2, <1>3, <1>4, CoverDrop DEF ReleaseFdt, TableTypes
<1>5. CASE fdt[s] # NoRef
  <2>1. fdRefs' = [fdRefs EXCEPT ![fdt[s]] = @ - 1]  BY <1>5 DEF ReleaseFdt
  <2> QED  BY <1>1, <1>2, <1>3, <1>5, <2>1, CoverRelease DEF TableTypes
<1> QED  BY <1>4, <1>5

\* Every action keeps the counts of both tables at or above their holders.
LEMMA TablesStep ==
    ASSUME TypeOK, RefsCoverHolders, LocalsInRange, Next
    PROVE  TableTypes' /\ RefsCoverHolders'
<1> DEFINE MmOk == mm' \in [Slot -> 0 .. MaxTasks] /\ mmRefs' \in [Slot -> Nat]
                   /\ Covers(mmRefs', mm')
           FdOk == fdt' \in [Slot -> 0 .. MaxTasks] /\ fdRefs' \in [Slot -> Nat]
                   /\ Covers(fdRefs', fdt')
<1> SUFFICES MmOk /\ FdOk
  BY DEF TableTypes, RefsCoverHolders, Covers
<1>0. /\ TableTypes /\ current \in Slot
      /\ Covers(mmRefs, mm) /\ Covers(fdRefs, fdt)
  BY DEF TypeOK, CpuTypes, RefsCoverHolders, Covers
<1>m. ASSUME UNCHANGED <<mm, mmRefs>> PROVE MmOk
  BY <1>0, <1>m DEF TableTypes
<1>f. ASSUME UNCHANGED <<fdt, fdRefs>> PROVE FdOk
  BY <1>0, <1>f DEF TableTypes
<1>t. ASSUME pc[current] \in {"claim", "mem", "fdt", "frame", "link", "kill2"}
      PROVE  T \in Slot
  BY <1>0, <1>t DEF LocalsInRange, T, L
<1>1. CASE Spawn
  <2>1. CASE SpawnFull \/ SpawnFrame \/ SpawnLink
             \/ \E op \in Operations, s \in Slot : SpawnScan(op, s)
    <3>1. UNCHANGED <<mm, mmRefs, fdt, fdRefs>>
      BY <2>1 DEF SpawnFull, SpawnFrame, SpawnLink, SpawnScan, slotVars, memVars
    <3> HIDE DEF MmOk, FdOk
    <3> QED  BY <3>1, <1>m, <1>f
  <2>2. CASE SpawnClaim
    <3>1. T \in Slot  BY <1>t, <2>2 DEF SpawnClaim, At
    <3>2. \/ mm' = mm /\ fdt' = fdt
          \/ mm' = [mm EXCEPT ![T] = NoRef] /\ fdt' = [fdt EXCEPT ![T] = NoRef]
      BY <2>2 DEF SpawnClaim
    <3>3. mmRefs' = mmRefs /\ fdRefs' = fdRefs  BY <2>2 DEF SpawnClaim, memVars
    <3> QED  BY <1>0, <3>1, <3>2, <3>3, CoverDrop, SlotFacts DEF TableTypes
  <2>3. CASE \E p \in Pml4s, m \in Slot : SpawnSpace(p, m)
    <3>1. PICK p \in Pml4s, m \in Slot : SpawnSpace(p, m)  BY <2>3
    <3>2. T \in Slot  BY <1>t, <3>1 DEF SpawnSpace, At
    <3>3. mm' = [mm EXCEPT ![T] = m] /\ mmRefs' = [mmRefs EXCEPT ![m] = @ + 1]
      BY <1>0, <3>1 DEF SpawnSpace, FirstFree, TableTypes
    <3>c. Covers([mmRefs EXCEPT ![m] = @ + 1], [mm EXCEPT ![T] = m])
      BY <1>0, <3>2, CoverTake DEF TableTypes
    <3>4. MmOk  BY <1>0, <3>2, <3>3, <3>c, SlotFacts DEF TableTypes
    <3>5. FdOk  BY <1>f, <3>1 DEF SpawnSpace
    <3> QED  BY <3>4, <3>5
  <2>4. CASE SpawnShareSpace
    <3>1. T \in Slot  BY <1>t, <2>4 DEF SpawnShareSpace, At
    <3>2. mm[current] \in Slot  BY <1>0, <2>4, SlotFacts DEF SpawnShareSpace, TableTypes
    <3>3. mm' = [mm EXCEPT ![T] = mm[current]]
          /\ mmRefs' = [mmRefs EXCEPT ![mm[current]] = @ + 1]
      BY <2>4 DEF SpawnShareSpace
    <3>c. Covers([mmRefs EXCEPT ![mm[current]] = @ + 1], [mm EXCEPT ![T] = mm[current]])
      BY <1>0, <3>1, <3>2, CoverTake DEF TableTypes
    <3>4. MmOk  BY <1>0, <3>1, <3>2, <3>3, <3>c, SlotFacts DEF TableTypes
    <3>5. FdOk  BY <1>f, <2>4 DEF SpawnShareSpace
    <3> QED  BY <3>4, <3>5
  <2>5. CASE SpawnSpaceFails
    <3>1. T \in Slot  BY <1>t, <2>5 DEF SpawnSpaceFails, At
    <3>2. mm' = mm \/ mm' = [mm EXCEPT ![T] = NoRef]
      BY <2>5 DEF SpawnSpaceFails
    <3>3. mmRefs' = mmRefs  BY <2>5 DEF SpawnSpaceFails
    <3>4. MmOk  BY <1>0, <3>1, <3>2, <3>3, CoverDrop, SlotFacts DEF TableTypes
    <3>5. FdOk  BY <1>f, <2>5 DEF SpawnSpaceFails
    <3> QED  BY <3>4, <3>5
  <2>6. CASE \E f \in Slot : SpawnFdt(f)
    <3>1. PICK f \in Slot : SpawnFdt(f)  BY <2>6
    <3>2. T \in Slot  BY <1>t, <3>1 DEF SpawnFdt, At
    <3>3. fdt' = [fdt EXCEPT ![T] = f] /\ fdRefs' = [fdRefs EXCEPT ![f] = @ + 1]
      BY <3>1 DEF SpawnFdt
    <3>c. Covers([fdRefs EXCEPT ![f] = @ + 1], [fdt EXCEPT ![T] = f])
      BY <1>0, <3>2, CoverTake DEF TableTypes
    <3>4. FdOk  BY <1>0, <3>2, <3>3, <3>c, SlotFacts DEF TableTypes
    <3>5. MmOk  BY <1>m, <3>1 DEF SpawnFdt
    <3> QED  BY <3>4, <3>5
  <2>7. CASE SpawnFdtFails
    <3>1. T \in Slot /\ ReleaseMm(T)  BY <1>t, <2>7 DEF SpawnFdtFails, At
    <3>2. MmOk  BY <1>0, <3>1, ReleaseMmCovers
    <3>3. fdt' = [fdt EXCEPT ![T] = NoRef] /\ fdRefs' = fdRefs
      BY <2>7 DEF SpawnFdtFails
    <3>4. FdOk  BY <1>0, <3>1, <3>3, CoverDrop, SlotFacts DEF TableTypes
    <3> QED  BY <3>2, <3>4
  <2> QED  BY <1>1, <2>1, <2>2, <2>3, <2>4, <2>5, <2>6, <2>7 DEF Spawn
<1>2. CASE Load
  <2>1. UNCHANGED <<mm, mmRefs, fdt, fdRefs>>
    BY <1>2 DEF Load, LoadBegin, LoadEnd, LoadFails, slotVars
  <2> HIDE DEF MmOk, FdOk
  <2> QED  BY <2>1, <1>m, <1>f
<1>3. CASE End
  <2>1. CASE ExitRelease
    BY <1>0, <2>1, ReleaseMmCovers, ReleaseFdtCovers DEF ExitRelease
  <2>2. CASE \E t \in Slot : KillRelease(t)
    BY <1>0, <2>2, ReleaseMmCovers, ReleaseFdtCovers DEF KillRelease
  <2>3. CASE ExitHalt \/ KillMark \/ \E n \in Slot : ExitSwitch(n) \/ Pend(n)
    <3>1. UNCHANGED <<mm, mmRefs, fdt, fdRefs>>
      BY <2>3 DEF ExitHalt, KillMark, ExitSwitch, Pend, memVars
    <3> HIDE DEF MmOk, FdOk
    <3> QED  BY <3>1, <1>m, <1>f
  <2> QED  BY <1>3, <2>1, <2>2, <2>3 DEF End
<1>4. CASE Wait \/ Schedule \/ Halted
  <2>1. UNCHANGED <<mm, mmRefs, fdt, fdRefs>>
    BY <1>4 DEF Wait, WaitBegin, WaitReturn, Schedule, Yield, Tick, Halted, vars,
       slotVars, memVars
  <2> HIDE DEF MmOk, FdOk
  <2> QED  BY <2>1, <1>m, <1>f
<1> QED  BY <1>1, <1>2, <1>3, <1>4 DEF Next

-----------------------------------------------------------------------------
(* The address spaces.                                                     *)

Owned == cr3 \in live /\ EntriesOwnSpaces /\ RetiredExist /\ CarriedAreOwned
Unowned(p) ==
    /\ \A m \in Slot : Used(m) => mmPml4[m] # p
    /\ \A s \in Slot : loc[s].pml4 # p

\* A step that adds no owner, and that frees or retires only what nobody owns
\* after it, keeps every owned space in existence.
LEMMA OwnedShrink ==
    ASSUME Owned,
           \A m \in Slot : Used(m)' => Used(m) /\ mmPml4'[m] = mmPml4[m],
           \A s \in Slot : loc'[s].pml4 \in {loc[s].pml4, NoPml4},
           live' \subseteq live, retired' \subseteq live', cr3' \in live',
           \A p \in live \ live' : Unowned(p)',
           \A p \in retired' \ retired : Unowned(p)'
    PROVE  Owned'
<1>1. EntriesOwnSpaces'
  <2> SUFFICES ASSUME NEW m \in Slot, Used(m)'
               PROVE  /\ mmPml4'[m] \in live' \ retired'
                      /\ \A k \in Slot : Used(k)' /\ mmPml4'[k] = mmPml4'[m] => k = m
    BY DEF EntriesOwnSpaces
  <2>1. mmPml4'[m] \in live \ retired  BY DEF Owned, EntriesOwnSpaces
  <2>2. \A p : Unowned(p)' => p # mmPml4'[m]  BY DEF Unowned
  <2>3. \A k \in Slot : Used(k)' /\ mmPml4'[k] = mmPml4'[m] => k = m
    BY DEF Owned, EntriesOwnSpaces
  <2> QED  BY <2>1, <2>2, <2>3
<1>2. CarriedAreOwned'
  <2> SUFFICES ASSUME NEW s \in Slot, Carries(s)'
               PROVE  /\ loc'[s].pml4 \in live' \ retired'
                      /\ \A m \in Slot : Used(m)' => mmPml4'[m] # loc'[s].pml4
                      /\ \A t \in Slot : loc'[t].pml4 = loc'[s].pml4 => t = s
    BY DEF CarriedAreOwned
  <2>1. loc'[s].pml4 = loc[s].pml4 /\ Carries(s)  BY DEF Carries
  <2>2. loc'[s].pml4 \in live \ retired  BY <2>1 DEF Owned, CarriedAreOwned
  <2>3. \A p : Unowned(p)' => p # loc'[s].pml4  BY DEF Unowned
  <2>4. \A m \in Slot : Used(m)' => mmPml4'[m] # loc'[s].pml4
    BY <2>1 DEF Owned, CarriedAreOwned
  <2>5. \A t \in Slot : loc'[t].pml4 = loc'[s].pml4 => t = s
    BY <2>1 DEF Owned, CarriedAreOwned, Carries
  <2> QED  BY <2>2, <2>3, <2>4, <2>5
<1> QED  BY <1>1, <1>2 DEF Owned, RetiredExist

\* task_release_mm gives back a space only with its last reference.
LEMMA ReleaseMmSpaces ==
    ASSUME TableTypes, SpaceTypes, RefsCoverHolders, Owned, NEW s \in Slot, ReleaseMm(s),
           UNCHANGED cr3, \A t \in Slot : loc'[t].pml4 \in {loc[t].pml4, NoPml4}
    PROVE  SpaceTypes' /\ Owned'
<1>1. CASE mm[s] = NoRef \/ mmRefs[mm[s]] # 1
  <2>1. UNCHANGED <<mmPml4, live, retired>>  BY <1>1 DEF ReleaseMm
  <2>2. ASSUME NEW m \in Slot, Used(m)' PROVE Used(m)
    <3>1. CASE mm[s] = NoRef  BY <2>2, <3>1 DEF ReleaseMm, Used
    <3>2. CASE mm[s] # NoRef
      <4>1. mmRefs[m] \in Nat /\ mmRefs' = [mmRefs EXCEPT ![mm[s]] = @ - 1]
        BY <3>2 DEF ReleaseMm, TableTypes
      <4> QED  BY <2>2, <4>1 DEF Used, TableTypes
    <3> QED  BY <3>1, <3>2
  <2>3. Owned'  BY <2>1, <2>2, OwnedShrink DEF Owned, RetiredExist
  <2> QED  BY <2>1, <2>3 DEF SpaceTypes
<1>2. CASE mm[s] # NoRef /\ mmRefs[mm[s]] = 1
  <2>m. PICK m : m = mm[s]  OBVIOUS
  <2>p. PICK p : p = mmPml4[m]  OBVIOUS
  <2>1. m \in Slot /\ Used(m)  BY <1>2, <2>m, SlotFacts DEF TableTypes, Used
  <2>2. mmPml4' = [mmPml4 EXCEPT ![m] = NoPml4] /\ mmRefs' = [mmRefs EXCEPT ![m] = 0]
    BY <1>2, <2>m, <2>1 DEF ReleaseMm, TableTypes
  <2>3. \A k \in Slot : Used(k)' => k # m /\ Used(k) /\ mmPml4'[k] = mmPml4[k]
    BY <2>1, <2>2 DEF Used, TableTypes, SpaceTypes
  <2>4. p \in live \ retired /\ p # NoPml4
    BY <2>p, <2>1, TaskAssumption DEF Owned, EntriesOwnSpaces, SpaceTypes
  <2>5. Unowned(p)'
    <3>1. \A k \in Slot : Used(k)' => mmPml4'[k] # p
      BY <2>p, <2>1, <2>3 DEF Owned, EntriesOwnSpaces
    <3>2. \A t \in Slot : loc'[t].pml4 # p
      BY <2>p, <2>1, <2>4 DEF Owned, CarriedAreOwned, Carries
    <3> QED  BY <3>1, <3>2 DEF Unowned
  <2>6. \/ UNCHANGED <<live, retired>>
        \/ p = cr3 /\ p # KernelPml4 /\ retired' = retired \cup {p} /\ UNCHANGED live
        \/ p # cr3 /\ live' = live \ {p} /\ UNCHANGED retired
    BY <1>2, <2>m, <2>p DEF ReleaseMm, Retire
  <2>7. SpaceTypes'
    BY <2>2, <2>4, <2>6 DEF SpaceTypes
  <2>8. Owned'
    <3>1. /\ live' \subseteq live /\ retired' \subseteq live' /\ cr3' \in live'
          /\ \A q \in live \ live' : q = p
          /\ \A q \in retired' \ retired : q = p
      BY <2>4, <2>6 DEF Owned, RetiredExist
    <3> QED  BY <2>3, <2>5, <3>1, OwnedShrink
  <2> QED  BY <2>7, <2>8
<1> QED  BY <1>1, <1>2

\* A switch frees retired spaces, which nobody owns, and lands in a live one.
LEMMA SwitchToSpaces ==
    ASSUME TableTypes, SpaceTypes, RefsCoverHolders, Owned, NEW n \in Slot, SwitchTo(n),
           UNCHANGED <<mmRefs, mmPml4, loc>>
    PROVE  SpaceTypes' /\ Owned'
<1>1. Cr3Of(n) \in live
  <2>1. CASE HasSpace(n)
    <3>1. mm[n] \in Slot  BY <2>1, SlotFacts DEF HasSpace, TableTypes
    <3>2. Cardinality(Holders(mm, mm[n])) >= 1 /\ Cardinality(Holders(mm, mm[n])) \in Nat
      BY HoldersCount DEF TableTypes
    <3>3. Used(mm[n])  BY <3>1, <3>2 DEF Used, RefsCoverHolders, TableTypes
    <3> QED  BY <2>1, <3>1, <3>3 DEF Cr3Of, Owned, EntriesOwnSpaces
  <2>2. CASE ~ HasSpace(n)  BY <2>2 DEF Cr3Of, Owned
  <2> QED  BY <2>1, <2>2
<1>2. \A p \in retired : Unowned(p)'
  <2> SUFFICES ASSUME NEW p \in retired PROVE Unowned(p)'  OBVIOUS
  <2>1. \A m \in Slot : Used(m)' => mmPml4'[m] # p
    BY DEF Owned, EntriesOwnSpaces, Used
  <2>2. \A s \in Slot : loc'[s].pml4 # p
    BY TaskAssumption DEF Owned, CarriedAreOwned, Carries, SpaceTypes
  <2> QED  BY <2>1, <2>2 DEF Unowned
<1>3. /\ live' \subseteq live /\ retired' \subseteq live' /\ cr3' \in live'
      /\ \A p \in live \ live' : p \in retired
      /\ retired' \subseteq retired
  BY <1>1 DEF SwitchTo, Owned, RetiredExist
<1>4. Owned'
  BY <1>2, <1>3, OwnedShrink DEF Used
<1>5. SpaceTypes'
  BY <1>1, <1>3 DEF SpaceTypes, SwitchTo
<1> QED  BY <1>4, <1>5

\* What every action does to the spaces.
LEMMA SpacesStep ==
    ASSUME LoadYields = FALSE, IInv, Next
    PROVE  SpaceTypes' /\ Owned'
<1>0. /\ TaskTypes /\ TableTypes /\ SpaceTypes /\ CpuTypes /\ LocalTypes
      /\ RefsCoverHolders /\ Owned /\ current \in Slot
  BY DEF IInv, TypeOK, SpaceInv, Owned, CpuTypes
<1>q. ASSUME UNCHANGED <<mmPml4, live, retired, cr3>>,
             \A m \in Slot : Used(m)' => Used(m),
             \A s \in Slot : loc'[s].pml4 \in {loc[s].pml4, NoPml4}
      PROVE  SpaceTypes' /\ Owned'
  <2>1. Owned'  BY <1>0, <1>q, OwnedShrink DEF Owned, RetiredExist
  <2> QED  BY <1>0, <1>q, <2>1 DEF SpaceTypes
<1>r. ASSUME Return
      PROVE  /\ \A s \in Slot : loc'[s].pml4 \in {loc[s].pml4, NoPml4}
             /\ loc'[current].pml4 = NoPml4
             /\ \A s \in Slot : s # current => loc'[s].pml4 = loc[s].pml4
  BY <1>0, <1>r DEF Return, NoLocal, LocalTypes
<1>d. ASSUME NEW keep, cr3' \in live', cr3' = keep,
             live' = live \ ({loc[current].pml4} \ {keep}), Return,
             UNCHANGED <<mmRefs, mmPml4, retired>>
      PROVE  SpaceTypes' /\ Owned'
  <2>p. PICK p : p = loc[current].pml4  OBVIOUS
  <2>1. \A q \in live \ live' : q = p /\ p # NoPml4
    BY <1>0, <1>d, <2>p, TaskAssumption DEF SpaceTypes
  <2>2. p # NoPml4 => Unowned(p)' /\ p \notin retired
    <3> HAVE p # NoPml4
    <3>1. Carries(current)  BY <2>p DEF Carries
    <3>2. \A m \in Slot : Used(m)' => mmPml4'[m] # p
      BY <1>0, <1>d, <2>p, <3>1 DEF Owned, CarriedAreOwned, Used
    <3>3. \A t \in Slot : loc'[t].pml4 # p
      BY <1>0, <1>d, <1>r, <2>p, <3>1 DEF Owned, CarriedAreOwned
    <3>4. p \notin retired  BY <1>0, <2>p, <3>1 DEF Owned, CarriedAreOwned
    <3> QED  BY <3>2, <3>3, <3>4 DEF Unowned
  <2>3. retired' \subseteq live' /\ live' \subseteq live
    BY <1>0, <1>d, <2>1, <2>2 DEF Owned, RetiredExist
  <2>4. \A m \in Slot : Used(m)' => Used(m) /\ mmPml4'[m] = mmPml4[m]
    BY <1>d DEF Used
  <2>5. \A q \in retired' \ retired : Unowned(q)'  BY <1>d
  <2>6. Owned'  BY <1>0, <1>d, <1>r, <2>1, <2>2, <2>3, <2>4, <2>5, OwnedShrink
  <2>7. cr3' \in Pml4s \cup {KernelPml4}  BY <1>0, <1>d DEF SpaceTypes
  <2> QED  BY <1>0, <1>d, <2>6, <2>7 DEF SpaceTypes
<1>1. CASE \E op \in Operations, s \in Slot : SpawnScan(op, s)
  <2>1. PICK op \in Operations, s \in Slot : SpawnScan(op, s)  BY <1>1
  <2>2. \A t \in Slot : loc'[t].pml4 \in {loc[t].pml4, NoPml4}
    BY <1>0, <2>1 DEF SpawnScan, L, LocalTypes, Local
  <2> QED  BY <1>q, <2>1, <2>2 DEF SpawnScan, memVars, Used
<1>2. CASE SpawnFull
  BY <1>0, <1>2, <1>d DEF SpawnFull, L, Owned
<1>3. CASE SpawnClaim \/ \E f \in Slot : SpawnFdt(f)
  BY <1>3, <1>q DEF SpawnClaim, SpawnFdt, memVars, Used
<1>4. CASE \E p \in Pml4s, m \in Slot : SpawnSpace(p, m)
  <2>1. PICK p \in Pml4s, m \in Slot : SpawnSpace(p, m)  BY <1>4
  <2>2. /\ live' = live \cup {p} /\ UNCHANGED <<retired, cr3>>
        /\ mmRefs' = [mmRefs EXCEPT ![m] = 1] /\ mmPml4' = [mmPml4 EXCEPT ![m] = p]
        /\ ~ Used(m)
    BY <1>0, <2>1 DEF SpawnSpace, FirstFree, Used, TableTypes
  <2>3. p \notin live \/ p = loc[current].pml4
    BY <2>1 DEF SpawnSpace, NewSpace, L
  <2>n. p # NoPml4  BY TaskAssumption
  <2>4. /\ loc'[current].pml4 = NoPml4
        /\ \A s \in Slot : s # current => loc'[s].pml4 = loc[s].pml4
    BY <1>0, <2>1 DEF SpawnSpace, LocalTypes, Local
  <2>5. /\ p \notin retired /\ \A k \in Slot : Used(k) => mmPml4[k] # p
        /\ \A s \in Slot : s # current => loc[s].pml4 # p
    <3>1. CASE p \notin live
      BY <1>0, <2>n, <3>1 DEF Owned, EntriesOwnSpaces, RetiredExist, CarriedAreOwned, Carries
    <3>2. CASE p = loc[current].pml4
      BY <1>0, <2>n, <3>2 DEF Owned, CarriedAreOwned, Carries
    <3> QED  BY <2>3, <3>1, <3>2
  <2>6. \A k \in Slot : /\ Used(k)' <=> Used(k) \/ k = m
                        /\ mmPml4'[k] = IF k = m THEN p ELSE mmPml4[k]
    BY <1>0, <2>2 DEF Used, TableTypes, SpaceTypes
  <2>7. EntriesOwnSpaces'
    BY <1>0, <2>2, <2>5, <2>6 DEF Owned, EntriesOwnSpaces
  <2>8. CarriedAreOwned'
    <3> SUFFICES ASSUME NEW s \in Slot, Carries(s)'
                 PROVE  /\ loc'[s].pml4 \in live' \ retired'
                        /\ \A k \in Slot : Used(k)' => mmPml4'[k] # loc'[s].pml4
                        /\ \A t \in Slot : loc'[t].pml4 = loc'[s].pml4 => t = s
      BY DEF CarriedAreOwned
    <3>1. s # current /\ loc'[s].pml4 = loc[s].pml4 /\ Carries(s) /\ loc[s].pml4 # NoPml4
      BY <1>0, <2>4 DEF Carries
    <3>2. loc'[s].pml4 \in live' \ retired'
      BY <1>0, <2>2, <3>1 DEF Owned, CarriedAreOwned
    <3>3. \A k \in Slot : Used(k)' => mmPml4'[k] # loc'[s].pml4
      BY <1>0, <2>5, <2>6, <3>1 DEF Owned, CarriedAreOwned
    <3>4. \A t \in Slot : loc'[t].pml4 = loc'[s].pml4 => t = s
      BY <1>0, <2>4, <3>1 DEF Owned, CarriedAreOwned
    <3> QED  BY <3>2, <3>3, <3>4
  <2>9. cr3' \in live' /\ RetiredExist'  BY <1>0, <2>2 DEF Owned, RetiredExist
  <2> QED  BY <1>0, <2>2, <2>7, <2>8, <2>9 DEF SpaceTypes, Owned
<1>5. CASE SpawnShareSpace
  <2>1. mm[current] \in Slot  BY <1>0, <1>5, SlotFacts DEF SpawnShareSpace, TableTypes
  <2>2. Cardinality(Holders(mm, mm[current])) >= 1 /\ Cardinality(Holders(mm, mm[current])) \in Nat
    BY <1>0, HoldersCount DEF TableTypes
  <2>3. Used(mm[current])  BY <1>0, <2>1, <2>2 DEF Used, RefsCoverHolders, TableTypes
  <2>4. \A m \in Slot : Used(m)' => Used(m)
    BY <1>0, <1>5, <2>1, <2>3 DEF SpawnShareSpace, Used, TableTypes
  <2> QED  BY <1>5, <1>q, <2>4 DEF SpawnShareSpace
<1>6. CASE SpawnSpaceFails
  BY <1>0, <1>6, <1>d DEF SpawnSpaceFails, L, Owned
<1>7. CASE SpawnFdtFails
  <2>1. T \in Slot  BY <1>0, <1>7 DEF SpawnFdtFails, At, T, L, IInv, SpaceInv, LocalsInRange
  <2> QED  BY <1>0, <1>7, <1>r, <2>1, ReleaseMmSpaces DEF SpawnFdtFails
<1>8. CASE SpawnFrame
  <2>1. \A s \in Slot : loc'[s].pml4 \in {loc[s].pml4, NoPml4}
    BY <1>0, <1>8 DEF SpawnFrame, NoLocal, LocalTypes
  <2> QED  BY <1>8, <1>q, <2>1 DEF SpawnFrame, memVars, Used
<1>9. CASE SpawnLink \/ KillMark \/ WaitReturn
  BY <1>9, <1>q, <1>r DEF SpawnLink, KillMark, WaitReturn, memVars, Used
<1>10. CASE \E p \in Pml4s : LoadBegin(p)
  <2>1. PICK p \in Pml4s : LoadBegin(p)  BY <1>10
  <2>2. live' = live \cup {p} /\ cr3' = p /\ p \notin live /\ UNCHANGED <<mmRefs, mmPml4, retired>>
    BY <2>1 DEF LoadBegin
  <2>3. loc'[current].pml4 = p /\ \A s \in Slot : s # current => loc'[s].pml4 = loc[s].pml4
    BY <1>0, <2>1 DEF LoadBegin, NoLocal, LocalTypes
  <2>4. EntriesOwnSpaces' /\ RetiredExist'
    BY <1>0, <2>2 DEF Owned, EntriesOwnSpaces, Used, RetiredExist
  <2>5. CarriedAreOwned'
    BY <1>0, <2>2, <2>3 DEF Owned, EntriesOwnSpaces, Used, RetiredExist, CarriedAreOwned, Carries
  <2> QED  BY <1>0, <2>2, <2>4, <2>5 DEF Owned, SpaceTypes
<1>11. CASE LoadEnd
  <2>1. L.old \in live  BY <1>0, <1>11 DEF LoadEnd, At, L, IInv, SpaceInv, LoaderIsAlone
  <2>2. UNCHANGED <<mmRefs, mmPml4, live, retired, loc>> /\ cr3' = L.old
    BY <1>11 DEF LoadEnd
  <2>3. Owned'  BY <1>0, <2>1, <2>2 DEF Owned, EntriesOwnSpaces, Used, RetiredExist,
                   CarriedAreOwned, Carries
  <2> QED  BY <1>0, <2>1, <2>2, <2>3 DEF SpaceTypes
<1>12. CASE LoadFails
  <2>1. L.old \in live  BY <1>0, <1>12 DEF LoadFails, At, L, IInv, SpaceInv, LoaderIsAlone
  <2>o. PICK o : o = L.old  OBVIOUS
  <2>2. cr3' = o /\ live' = live \ ({loc[current].pml4} \ {o}) /\ o \in live'
    BY <1>12, <2>1, <2>o DEF LoadFails, L
  <2> QED  BY <1>12, <2>2, <1>d DEF LoadFails
<1>13. CASE ExitRelease
  BY <1>0, <1>13, ReleaseMmSpaces DEF ExitRelease
<1>14. CASE \E t \in Slot : KillRelease(t)
  <2>1. PICK t \in Slot : KillRelease(t)  BY <1>14
  <2>2. \A s \in Slot : loc'[s].pml4 \in {loc[s].pml4, NoPml4}
    BY <1>0, <2>1 DEF KillRelease, LocalTypes, Local
  <2> QED  BY <1>0, <2>1, <2>2, ReleaseMmSpaces DEF KillRelease
<1>15. CASE ExitHalt \/ \E t \in Slot : Pend(t)
  BY <1>15, <1>q DEF ExitHalt, Pend, memVars, Used
<1>16. CASE \E i \in 0 .. nextId, s \in Slot : WaitBegin(i, s)
  <2>1. PICK i \in 0 .. nextId, s \in Slot : WaitBegin(i, s)  BY <1>16
  <2>2. \A t \in Slot : loc'[t].pml4 \in {loc[t].pml4, NoPml4}
    BY <1>0, <2>1 DEF WaitBegin, NoLocal, LocalTypes
  <2> QED  BY <1>q, <2>1, <2>2 DEF WaitBegin, memVars, Used
<1>17. CASE Schedule \/ \E n \in Slot : ExitSwitch(n)
  BY <1>0, <1>17, SwitchToSpaces DEF Schedule, Yield, Tick, ExitSwitch
<1>18. CASE Halted
  BY <1>18, <1>q DEF Halted, vars, memVars, Used
<1> QED
  BY <1>1, <1>2, <1>3, <1>4, <1>5, <1>6, <1>7, <1>8, <1>9, <1>10, <1>11, <1>12,
     <1>13, <1>14, <1>15, <1>16, <1>17, <1>18 DEF Next, Spawn, Load, End, Wait

\* The loader keeps the CPU while it borrows CR3, so nothing else runs and the
\* space it came from stays; the slots kept in locals stay slots.
LEMMA LoaderStep ==
    ASSUME LoadYields = FALSE, IInv, Next
    PROVE  LoaderIsAlone' /\ LocalsInRange'
<1>0. CpuTypes /\ LocalTypes /\ LoaderIsAlone /\ LocalsInRange /\ current \in Slot
      /\ preempt \in Nat /\ pc \in [Slot -> KernelPoints \cup {"user"}]
      /\ loc \in [Slot -> Local]
  BY DEF IInv, TypeOK, SpaceInv, CpuTypes, LocalTypes
<1> DEFINE SlotPoints == {"claim", "mem", "fdt", "frame", "link", "kill2"}
\* The usual step: the current task moves on, and its locals keep or get a slot.
<1>g. ASSUME NEW point, point # "load", pc[current] # "load",
             pc' = [pc EXCEPT ![current] = point],
             point \in SlotPoints => loc'[current].slot \in Slot,
             \A s \in Slot : s # current => loc'[s].slot = loc[s].slot
      PROVE  LoaderIsAlone' /\ LocalsInRange'
  <2>1. \A s \in Slot : pc'[s] # "load"  BY <1>0, <1>g DEF LoaderIsAlone
  <2>2. LoaderIsAlone'  BY <2>1 DEF LoaderIsAlone
  <2>3. LocalsInRange'  BY <1>0, <1>g DEF LocalsInRange
  <2> QED  BY <2>2, <2>3
<1>u. ASSUME pc[current] # "load", UNCHANGED <<pc, loc>>
      PROVE  LoaderIsAlone' /\ LocalsInRange'
  <2>1. \A s \in Slot : pc'[s] # "load"  BY <1>0, <1>u DEF LoaderIsAlone
  <2> QED  BY <1>0, <1>u, <2>1 DEF LoaderIsAlone, LocalsInRange
<1>r. ASSUME Return, pc[current] # "load"
      PROVE  LoaderIsAlone' /\ LocalsInRange'
  <2>1. \A s \in Slot : s # current => loc'[s].slot = loc[s].slot
    BY <1>0, <1>r DEF Return
  <2> QED  BY <1>r, <1>g, <2>1 DEF Return, Goto
<1>1. CASE Spawn
  <2>1. CASE \E op \in Operations, s \in Slot : SpawnScan(op, s)
    <3>1. PICK op \in Operations, s \in Slot : SpawnScan(op, s)  BY <2>1
    <3>2. pc[current] # "load" /\ pc' = [pc EXCEPT ![current] = "claim"]
      BY <3>1 DEF SpawnScan, At, Goto
    <3>3. loc'[current].slot = s
      BY <1>0, <3>1 DEF SpawnScan, L, Local
    <3>4. \A t \in Slot : t # current => loc'[t].slot = loc[t].slot
      BY <1>0, <3>1 DEF SpawnScan
    <3> QED  BY <1>g, <3>2, <3>3, <3>4
  <2>2. CASE SpawnFull \/ SpawnSpaceFails \/ SpawnFdtFails \/ SpawnLink
    BY <2>2, <1>r DEF SpawnFull, SpawnSpaceFails, SpawnFdtFails, SpawnLink, At
  <2>3. CASE SpawnClaim \/ SpawnShareSpace \/ \E f \in Slot : SpawnFdt(f)
    <3>1. loc' = loc /\ pc[current] \in SlotPoints
          /\ \E point \in SlotPoints : pc' = [pc EXCEPT ![current] = point]
      BY <2>3 DEF SpawnClaim, SpawnShareSpace, SpawnFdt, At, Goto
    <3>2. loc[current].slot \in Slot  BY <1>0, <3>1 DEF LocalsInRange
    <3> QED  BY <1>g, <3>1, <3>2
  <2>4. CASE \E p \in Pml4s, m \in Slot : SpawnSpace(p, m)
    <3>1. loc' = [loc EXCEPT ![current].pml4 = NoPml4] /\ pc[current] = "mem"
          /\ pc' = [pc EXCEPT ![current] = "fdt"]
      BY <2>4 DEF SpawnSpace, At, Goto
    <3>2. loc'[current].slot = loc[current].slot /\ loc[current].slot \in Slot
      BY <1>0, <3>1 DEF LocalsInRange, Local
    <3>3. \A t \in Slot : t # current => loc'[t].slot = loc[t].slot
      BY <1>0, <3>1
    <3> QED  BY <1>g, <3>1, <3>2, <3>3
  <2>5. CASE SpawnFrame
    <3>1. pc[current] = "frame" /\ T \in Slot
      BY <1>0, <2>5 DEF SpawnFrame, At, LocalsInRange, T, L
    <3>2. pc' = [pc EXCEPT ![T] = "user", ![current] = "link"]
          /\ loc' = [loc EXCEPT ![T] = IF T = current THEN @ ELSE NoLocal]
      BY <2>5 DEF SpawnFrame
    <3>3. \A s \in Slot : pc'[s] # "load"
      BY <1>0, <3>1, <3>2 DEF LoaderIsAlone
    <3>4. loc'[current] = loc[current] /\ loc[current].slot \in Slot
      BY <1>0, <3>1, <3>2 DEF T, L
    <3>5. \A s \in Slot : s # current /\ pc'[s] # "user" => pc'[s] = pc[s] /\ loc'[s] = loc[s]
      BY <1>0, <3>1, <3>2
    <3>6. LocalsInRange'
      BY <1>0, <3>4, <3>5 DEF LocalsInRange
    <3> QED  BY <3>3, <3>6 DEF LoaderIsAlone
  <2> QED  BY <1>1, <2>1, <2>2, <2>3, <2>4, <2>5 DEF Spawn
<1>2. CASE Load
  <2>1. CASE \E p \in Pml4s : LoadBegin(p)
    <3>1. PICK p \in Pml4s : LoadBegin(p)  BY <2>1
    <3>2. pc[current] = "user" /\ pc' = [pc EXCEPT ![current] = "load"]
          /\ loc' = [loc EXCEPT ![current] =
                        [NoLocal EXCEPT !.op = "ring3", !.pml4 = p, !.old = cr3]]
          /\ preempt' = preempt + 1 /\ current' = current /\ live' = live \cup {p}
      BY <3>1 DEF LoadBegin, At, Goto
    <3>3. cr3 \in live  BY DEF IInv, SpaceInv
    <3>4. loc'[current].old = cr3 /\ preempt' > 0  BY <1>0, <3>2 DEF NoLocal
    <3>5. LoaderIsAlone'  BY <1>0, <3>2, <3>3, <3>4 DEF LoaderIsAlone
    <3>6. LocalsInRange'  BY <1>0, <3>2 DEF LocalsInRange
    <3> QED  BY <3>5, <3>6
  <2>2. CASE LoadEnd \/ LoadFails
    <3>1. pc[current] = "load"
          /\ \/ pc' = [pc EXCEPT ![current] = "scan"] /\ loc' = loc
             \/ pc' = [pc EXCEPT ![current] = "user"] /\ loc' = [loc EXCEPT ![current] = NoLocal]
      BY <2>2 DEF LoadEnd, LoadFails, At, Return, Goto
    <3>2. \A s \in Slot : pc'[s] # "load"  BY <1>0, <3>1 DEF LoaderIsAlone
    <3>3. LocalsInRange'  BY <1>0, <3>1 DEF LocalsInRange
    <3> QED  BY <3>2, <3>3 DEF LoaderIsAlone
  <2> QED  BY <1>2, <2>1, <2>2 DEF Load
<1>3. CASE End
  <2>1. CASE ExitRelease
    BY <2>1, <1>g DEF ExitRelease, At, Goto
  <2>2. CASE KillMark
    BY <2>2, <1>r DEF KillMark, At
  <2>3. CASE \E t \in Slot : KillRelease(t)
    <3>1. PICK t \in Slot : KillRelease(t)  BY <2>3
    <3>2. pc[current] = "user" /\ pc' = [pc EXCEPT ![current] = "kill2"]
          /\ loc' = [loc EXCEPT ![current].slot = t]
      BY <3>1 DEF KillRelease, At, Goto
    <3>3. loc'[current].slot = t  BY <1>0, <3>2 DEF Local
    <3>4. \A s \in Slot : s # current => loc'[s].slot = loc[s].slot  BY <1>0, <3>2
    <3> QED  BY <1>g, <3>2, <3>3, <3>4
  <2>4. CASE ExitHalt \/ \E t \in Slot : ExitSwitch(t) \/ Pend(t)
    BY <2>4, <1>u DEF ExitHalt, ExitSwitch, Pend, At
  <2> QED  BY <1>3, <2>1, <2>2, <2>3, <2>4 DEF End
<1>4. CASE Wait
  <2>1. CASE \E i \in 0 .. nextId, s \in Slot : WaitBegin(i, s)
    <3>1. PICK i \in 0 .. nextId, s \in Slot : WaitBegin(i, s)
      BY <2>1
    <3>2. pc[current] = "user" /\ pc' = [pc EXCEPT ![current] = "wait"]
      BY <3>1 DEF WaitBegin, At, Goto
    <3>3. \A t \in Slot : t # current => loc'[t].slot = loc[t].slot
      BY <1>0, <3>1 DEF WaitBegin
    <3> QED  BY <1>g, <3>2, <3>3
  <2>2. CASE WaitReturn  BY <2>2, <1>r DEF WaitReturn, At
  <2> QED  BY <1>4, <2>1, <2>2 DEF Wait
<1>5. CASE Schedule
  <2>1. pc[current] # "load"
    BY <1>0, <1>5 DEF Schedule, Yield, Tick, At, LoaderIsAlone
  <2> QED  BY <1>5, <2>1, <1>u DEF Schedule, Yield, Tick
<1>6. CASE Halted
  <2>1. UNCHANGED <<pc, loc, preempt, current, live>>
    BY <1>6 DEF Halted, vars, cpuVars, memVars
  <2> QED  BY <1>0, <2>1 DEF LoaderIsAlone, LocalsInRange
<1> QED  BY <1>1, <1>2, <1>3, <1>4, <1>5, <1>6 DEF Next

-----------------------------------------------------------------------------
\* The whole invariant is inductive.
LEMMA IInvStep ==
    ASSUME LoadYields = FALSE, IInv, [Next]_vars
    PROVE  IInv'
<1>1. CASE Next
  <2>1. TypeOK /\ RefsCoverHolders /\ LoaderIsAlone /\ LocalsInRange
    BY DEF IInv, SpaceInv
  <2>2. TaskTypes' /\ LocalTypes' /\ CpuTypes'
    BY <1>1, <2>1, TaskTypesStep, LocalTypesStep, CpuTypesStep
  <2>3. TableTypes' /\ RefsCoverHolders'  BY <1>1, <2>1, TablesStep
  <2>4. SpaceTypes' /\ Owned'  BY <1>1, SpacesStep
  <2>5. LoaderIsAlone' /\ LocalsInRange'  BY <1>1, LoaderStep
  <2> QED  BY <2>2, <2>3, <2>4, <2>5 DEF IInv, TypeOK, SpaceInv, Owned
<1>2. CASE UNCHANGED vars
  BY <1>2 DEF IInv, TypeOK, TaskTypes, TableTypes, SpaceTypes, CpuTypes, LocalTypes,
     SpaceInv, RefsCoverHolders, EntriesOwnSpaces, RetiredExist, CarriedAreOwned,
     LoaderIsAlone, LocalsInRange, Used, Carries, Holders,
     vars, slotVars, memVars, cpuVars
<1> QED  BY <1>1, <1>2

LEMMA IInvAlways == ASSUME LoadYields = FALSE PROVE Spec => []IInv
BY InitIInv, IInvStep, PTL DEF Spec

\* Every variable of the task pool and of its tables keeps its type; above all
\* no reference count of task_memory_spaces or task_fd_tables goes below zero.
THEOREM TypeCorrect == ASSUME LoadYields = FALSE PROVE Spec => []TypeOK
<1>1. IInv => TypeOK  BY DEF IInv
<1> QED  BY <1>1, IInvAlways, PTL

\* Whatever the tasks do and wherever the timer interrupts the kernel, the page
\* tables under CR3 and those of every task exist (task_retire_address_space),
\* and the ownership of address spaces is kept across creation, loading, exit
\* and kill.
THEOREM SpacesNeverFreedInUse == ASSUME LoadYields = FALSE PROVE Spec => []SpacesSafe
<1>1. ASSUME IInv PROVE SpacesInUseExist
  <2>1. cr3 \in live  BY <1>1 DEF IInv, SpaceInv
  <2>2. ASSUME NEW s \in Slot, mm[s] # NoRef PROVE mmPml4[mm[s]] \in live
    <3>1. TableTypes /\ RefsCoverHolders /\ EntriesOwnSpaces
      BY <1>1 DEF IInv, TypeOK, SpaceInv
    <3>2. mm[s] \in Slot  BY <2>2, <3>1, SlotFacts DEF TableTypes
    <3>3. Cardinality(Holders(mm, mm[s])) >= 1 /\ Cardinality(Holders(mm, mm[s])) \in Nat
      BY <3>1, HoldersCount DEF TableTypes
    <3>4. Used(mm[s])  BY <3>1, <3>2, <3>3 DEF Used, RefsCoverHolders, TableTypes
    <3> QED  BY <3>1, <3>2, <3>4 DEF EntriesOwnSpaces
  <2> QED  BY <2>1, <2>2 DEF SpacesInUseExist
<1>2. IInv => SpacesSafe  BY <1>1 DEF IInv, SpacesSafe
<1> QED  BY <1>2, IInvAlways, PTL

-----------------------------------------------------------------------------
(* The scheduler and the life of a task: the ring, who runs, exact counts, *)
(* whose address space is in CR3, and that none is lost.                   *)

-----------------------------------------------------------------------------
(* Arithmetic.                                                             *)

\* Induction over the natural numbers, for a set.
LEMMA SetInduction ==
    ASSUME NEW S, 0 \in S, \A k \in Nat : k \in S => k + 1 \in S
    PROVE  Nat \subseteq S
<1> SUFFICES ASSUME Nat \ S # {} PROVE FALSE  OBVIOUS
<1>1. PICK n \in Nat \ S : \A m \in Nat \ S : ~ (<<m, n>> \in OpToRel(<, Nat))
  BY NatLessThanWellFounded, WFMin
<1>2. \A m \in Nat \ S : ~ m < n  BY <1>1 DEF OpToRel
<1>3. n - 1 \in Nat /\ n - 1 < n  OBVIOUS
<1>4. n - 1 \in S  BY <1>2, <1>3
<1> QED  BY <1>3, <1>4

\* The remainder of the successor.
LEMMA ModSuccessor ==
    ASSUME NEW x \in Nat, NEW n \in Nat \ {0}
    PROVE  /\ x % n \in 0 .. n - 1
           /\ (x + 1) % n = IF x % n = n - 1 THEN 0 ELSE (x % n) + 1
<1> DEFINE q == x \div n        r == x % n
           u == (x + 1) \div n  v == (x + 1) % n
<1>1. x = n * q + r /\ q \in Int /\ r \in 0 .. n - 1  OBVIOUS
<1>2. x + 1 = n * u + v /\ u \in Int /\ v \in 0 .. n - 1  OBVIOUS
<1> HIDE DEF q, r, u, v
<1>3. PICK d \in Int : d = u - q  BY <1>1, <1>2
<1>4. n * d = n * u - n * q  BY <1>1, <1>2, <1>3
<1>5. n * d = r + 1 - v  BY <1>1, <1>2, <1>4
<1>6. ~ d >= 2  BY <1>1, <1>2, <1>5
<1>7. ~ d <= -1  BY <1>1, <1>2, <1>5
<1>8. d = 0 \/ d = 1  BY <1>6, <1>7
<1>9. v = IF r = n - 1 THEN 0 ELSE r + 1  BY <1>1, <1>2, <1>5, <1>8
<1> QED  BY <1>1, <1>9 DEF v, r

-----------------------------------------------------------------------------
(* The ring.  New slots are linked after slot 0, so the ring runs from slot *)
(* 0 to the newest slot and then down; a creation is not interrupted, so    *)
(* the slot it chose is still the next one when it is linked.               *)

CreationPoints == {"claim", "mem", "fdt", "frame", "link"}
CreationIsAtomic == LoadYields = FALSE /\ IrqOpen \cap CreationPoints = {}

RingInv ==
    /\ taskCount <= MaxTasks /\ current < taskCount
    /\ next[0] = taskCount - 1
    /\ \A s \in 1 .. taskCount - 1 : next[s] = s - 1
    /\ \A s \in Slot : pc[s] \in CreationPoints =>
          /\ s = current /\ loc[s].slot <= taskCount
          /\ loc[s].reuse = (loc[s].slot < taskCount)

\* The slot k hops from the current one.
RingAt(k) ==
    IF k <= current THEN current - k
    ELSE taskCount - 1 - ((k - current - 1) % taskCount)

\* Following next from the current slot visits the slots in that order.
LEMMA HopFollowsRing ==
    ASSUME TaskTypes, CpuTypes, RingInv
    PROVE  /\ \A k \in Nat : Hop[k] \in 0 .. taskCount - 1
           /\ \A k \in 0 .. taskCount :
                 Hop[k] = IF k <= current THEN current - k ELSE current - k + taskCount
<1>0. /\ taskCount \in Nat \ {0} /\ current \in Nat /\ current < taskCount
      /\ MaxTasks \in Nat \ {0} /\ taskCount <= MaxTasks /\ current \in Slot
      /\ \A s \in 0 .. taskCount - 1 : s \in Slot
  BY TaskAssumption DEF TaskTypes, CpuTypes, RingInv, Slot
<1>1. \A k \in Nat : RingAt(k) \in 0 .. taskCount - 1
  <2> TAKE k \in Nat
  <2>1. CASE k <= current  BY <1>0, <2>1 DEF RingAt
  <2>2. CASE k > current
    <3>1. k - current - 1 \in Nat  BY <1>0, <2>2
    <3>2. (k - current - 1) % taskCount \in 0 .. taskCount - 1
      BY <1>0, <3>1, ModSuccessor
    <3> QED  BY <1>0, <2>2, <3>2 DEF RingAt
  <2> QED  BY <1>0, <2>1, <2>2
<1>2. \A s \in 0 .. taskCount - 1 : Succ(s) = IF s = 0 THEN taskCount - 1 ELSE s - 1
  BY <1>0 DEF RingInv, Succ, NoRef
<1>3. \A k \in Nat : RingAt(k + 1) = Succ(RingAt(k))
  <2> TAKE k \in Nat
  <2>1. CASE k < current
    BY <1>0, <1>2, <2>1 DEF RingAt
  <2>2. CASE k = current
    <3>1. 0 % taskCount = 0  BY <1>0
    <3>2. RingAt(k) = 0 /\ RingAt(k + 1) = taskCount - 1
      BY <1>0, <2>2, <3>1 DEF RingAt
    <3> QED  BY <1>0, <1>2, <3>2
  <2>3. CASE k > current
    <3> DEFINE x == k - current - 1
    <3>1. x \in Nat  BY <1>0, <2>3
    <3>2. k + 1 - current - 1 = x + 1  BY <1>0
    <3> HIDE DEF x
    <3>3. /\ x % taskCount \in 0 .. taskCount - 1
          /\ (x + 1) % taskCount =
                IF x % taskCount = taskCount - 1 THEN 0 ELSE (x % taskCount) + 1
      BY <1>0, <3>1, ModSuccessor
    <3>4. RingAt(k) = taskCount - 1 - (x % taskCount)  BY <1>0, <2>3 DEF RingAt, x
    <3>5. RingAt(k + 1) = taskCount - 1 - ((x + 1) % taskCount)
      BY <1>0, <2>3, <3>2 DEF RingAt
    <3>6. PICK y \in 0 .. taskCount - 1 : y = x % taskCount  BY <3>3
    <3>7. RingAt(k) = taskCount - 1 - y  BY <1>0, <3>1, <3>4, <3>6
    <3>8. RingAt(k + 1) = IF y = taskCount - 1 THEN taskCount - 1 ELSE taskCount - 2 - y
      BY <1>0, <3>1, <3>3, <3>5, <3>6
    <3>9. Succ(taskCount - 1 - y) = IF y = taskCount - 1 THEN taskCount - 1 ELSE taskCount - 2 - y
      BY <1>0, <1>2
    <3> QED  BY <3>7, <3>8, <3>9
  <2> QED  BY <1>0, <2>1, <2>2, <2>3
<1>4. Hop = [k \in Nat |-> IF k = 0 THEN current ELSE Succ(Hop[k - 1])]
  <2>1. RingAt(0) = current  BY <1>0 DEF RingAt
  <2>2. \A k \in Nat \ {0} : RingAt(k) = Succ(RingAt(k - 1))
    <3> TAKE k \in Nat \ {0}
    <3>1. k - 1 \in Nat /\ k = (k - 1) + 1  OBVIOUS
    <3> QED  BY <1>3, <3>1
  <2>3. [k \in Nat |-> RingAt(k)] =
        [k \in Nat |-> IF k = 0 THEN current ELSE Succ([j \in Nat |-> RingAt(j)][k - 1])]
    <3> HIDE DEF RingAt, Succ
    <3>1. \A k \in Nat : k # 0 => k - 1 \in Nat  OBVIOUS
    <3> QED  BY <2>1, <2>2, <3>1
  <2>4. \E f : f = [k \in Nat |-> IF k = 0 THEN current ELSE Succ(f[k - 1])]
    BY <2>3
  <2> QED  BY <2>4 DEF Hop
<1>5. \A k \in Nat : Hop[k] = RingAt(k)
  <2> DEFINE S == {k \in Nat : Hop[k] = RingAt(k)}
  <2>1. 0 \in S  BY <1>0, <1>4 DEF RingAt
  <2>2. ASSUME NEW k \in Nat, k \in S PROVE k + 1 \in S
    <3>1. k + 1 \in Nat /\ k + 1 # 0 /\ (k + 1) - 1 = k  OBVIOUS
    <3>2. Hop[k + 1] = Succ(Hop[k])  BY <1>4, <3>1
    <3> QED  BY <1>3, <2>2, <3>1, <3>2
  <2>3. Nat \subseteq S
    <3> HIDE DEF S
    <3> QED  BY <2>1, <2>2, SetInduction
  <2> QED  BY <2>3
<1>6. ASSUME NEW k \in 0 .. taskCount
      PROVE  RingAt(k) = IF k <= current THEN current - k ELSE current - k + taskCount
  <2>1. CASE k <= current  BY <2>1 DEF RingAt
  <2>2. CASE k > current
    <3>1. k - current - 1 \in 0 .. taskCount - 1  BY <1>0, <2>2
    <3>2. (k - current - 1) % taskCount = k - current - 1  BY <1>0, <3>1
    <3> QED  BY <1>0, <2>2, <3>2 DEF RingAt
  <2> QED  BY <1>0, <2>1, <2>2
<1> QED  BY <1>1, <1>5, <1>6

\* So the ring is complete.
LEMMA RingOfInv ==
    ASSUME TaskTypes, CpuTypes, RingInv
    PROVE  RingIsComplete
<1>0. taskCount \in Nat \ {0} /\ current \in Nat /\ current < taskCount
  BY TaskAssumption DEF TaskTypes, CpuTypes, RingInv, Slot
<1>1. \A k \in 1 .. taskCount : k \in Nat /\ k \in 0 .. taskCount  BY <1>0
<1>2. {Hop[k] : k \in 1 .. taskCount} \subseteq 0 .. taskCount - 1
  BY <1>1, HopFollowsRing
<1>3. ASSUME NEW s \in 0 .. taskCount - 1
      PROVE  \E k \in 1 .. taskCount : s = Hop[k]
  <2>1. CASE s < current
    <3>1. current - s \in 1 .. taskCount /\ current - s <= current
          /\ s = current - (current - s)
      BY <1>0, <2>1
    <3>2. Hop[current - s] = current - (current - s)
      BY <1>1, <3>1, HopFollowsRing
    <3> QED  BY <3>1, <3>2
  <2>2. CASE s >= current
    <3> DEFINE k == current - s + taskCount
    <3>1. k \in 1 .. taskCount /\ ~ k <= current /\ s = current - k + taskCount
      BY <1>0, <2>2
    <3> HIDE DEF k
    <3>2. Hop[k] = current - k + taskCount
      BY <1>1, <3>1, HopFollowsRing
    <3> QED  BY <3>1, <3>2
  <2> QED  BY <1>0, <2>1, <2>2
<1> QED  BY <1>2, <1>3 DEF RingIsComplete

\* A task is switched to along the ring.
LEMMA SwitchStaysInRing ==
    ASSUME TaskTypes, CpuTypes, RingInv, NEW n, NEW ready, FirstInRing(n, ready)
    PROVE  n \in 0 .. taskCount - 1
<1>1. PICK k \in 1 .. taskCount : n = Hop[k]  BY DEF FirstInRing
<1>2. k \in Nat  BY <1>1 DEF TaskTypes
<1> QED  BY <1>1, <1>2, HopFollowsRing

\* Between two creation points no other task runs.
LEMMA LeavesOutsideCreation ==
    ASSUME CreationIsAtomic, NEW n,
           Yield(n) \/ Tick(n) \/ ExitSwitch(n)
    PROVE  pc[current] \notin CreationPoints
BY DEF CreationIsAtomic, CreationPoints, Yield, Tick, ExitSwitch, At

LEMMA RingStep ==
    ASSUME CreationIsAtomic, IInv, RingInv, Next
    PROVE  RingInv'
<1>0. /\ taskCount \in Nat \ {0} /\ current \in Slot /\ taskCount <= MaxTasks
      /\ MaxTasks \in Nat \ {0} /\ 0 \in Slot
      /\ TaskTypes /\ CpuTypes /\ pc \in [Slot -> KernelPoints \cup {"user"}]
      /\ loc \in [Slot -> Local] /\ next \in [Slot -> 0 .. MaxTasks]
      /\ L \in Local /\ LocalsInRange
      /\ \A s \in Slot : s \in Nat
  BY TaskAssumption, SlotFacts
     DEF IInv, TypeOK, SpaceInv, TaskTypes, CpuTypes, LocalTypes, RingInv, L, Slot
<1> DEFINE Chosen == loc'[current].slot <= taskCount
                     /\ loc'[current].reuse = (loc'[current].slot < taskCount)
\* The ring and the CPU stay; the current task may be in a creation.
<1>g. ASSUME UNCHANGED <<next, taskCount, current>>,
             \A s \in Slot : s # current => pc'[s] = pc[s] \/ pc'[s] = "user",
             pc'[current] \in CreationPoints => Chosen
      PROVE  RingInv'
  <2>1. \A s \in Slot : s # current => pc'[s] \notin CreationPoints
    BY <1>g DEF RingInv, CreationPoints
  <2> QED  BY <1>g, <2>1 DEF RingInv
<1>r. ASSUME Return, UNCHANGED <<next, taskCount, current>> PROVE RingInv'
  <2>1. /\ \A s \in Slot : s # current => pc'[s] = pc[s]
        /\ pc'[current] \notin CreationPoints
    BY <1>0, <1>r DEF Return, Goto, CreationPoints
  <2> HIDE DEF Chosen
  <2> QED  BY <1>r, <1>g, <2>1
<1>m. ASSUME NEW point, point \notin CreationPoints, Goto(point),
             UNCHANGED <<next, taskCount, current>>
      PROVE  RingInv'
  <2>1. /\ \A s \in Slot : s # current => pc'[s] = pc[s]
        /\ pc'[current] \notin CreationPoints
    BY <1>0, <1>m DEF Goto
  <2> HIDE DEF Chosen
  <2> QED  BY <1>m, <1>g, <2>1
\* A creation goes on with the slot it chose.
<1>c. ASSUME pc[current] \in CreationPoints,
             \A s \in Slot : s # current => pc'[s] = pc[s] \/ pc'[s] = "user",
             loc'[current].slot = loc[current].slot, loc'[current].reuse = loc[current].reuse,
             UNCHANGED <<next, taskCount, current>>
      PROVE  RingInv'
  <2>1. Chosen  BY <1>0, <1>c DEF RingInv
  <2> HIDE DEF Chosen
  <2> QED  BY <1>c, <1>g, <2>1
<1>s. ASSUME NEW n, Yield(n) \/ Tick(n) \/ ExitSwitch(n)
      PROVE  RingInv'
  <2>1. pc[current] \notin CreationPoints  BY <1>s, LeavesOutsideCreation
  <2>2. n \in 0 .. taskCount - 1
    BY <1>0, <1>s, SwitchStaysInRing DEF Yield, Tick, ExitSwitch, SchedNext, TickNext
  <2>3. UNCHANGED <<next, taskCount, pc>> /\ current' = n
    BY <1>s DEF Yield, Tick, ExitSwitch, SwitchTo
  <2>4. \A s \in Slot : pc'[s] \notin CreationPoints  BY <2>1, <2>3 DEF RingInv
  <2>5. current' < taskCount'  BY <1>0, <2>2, <2>3
  <2> QED  BY <2>3, <2>4, <2>5 DEF RingInv
<1> HIDE DEF Chosen
<1>1. CASE \E op \in Operations, s \in Slot : SpawnScan(op, s)
  <2>1. PICK op \in Operations, s \in Slot : SpawnScan(op, s)  BY <1>1
  <2>2. PickSlot(s) /\ s <= taskCount
    BY <1>0, <2>1 DEF SpawnScan, PickSlot, Recyclable
  <2>3. loc' = [loc EXCEPT ![current] = [L EXCEPT !.op = op, !.slot = s, !.reuse = s < taskCount]]
    BY <2>1 DEF SpawnScan
  <2>4. loc'[current].slot = s /\ loc'[current].reuse = (s < taskCount)
    <3>1. loc'[current] = [L EXCEPT !.op = op, !.slot = s, !.reuse = s < taskCount]
      BY <1>0, <2>3
    <3> QED  BY <1>0, <3>1 DEF Local
  <2>5. Chosen  BY <2>2, <2>4 DEF Chosen
  <2>6. UNCHANGED <<next, taskCount, current>> /\ \A t \in Slot : t # current => pc'[t] = pc[t]
    BY <1>0, <2>1 DEF SpawnScan, Goto, slotVars, cpuVars
  <2> QED  BY <1>g, <2>5, <2>6
<1>2. CASE SpawnFull \/ SpawnSpaceFails \/ SpawnFdtFails
  BY <1>2, <1>r DEF SpawnFull, SpawnSpaceFails, SpawnFdtFails, slotVars, cpuVars
<1>3. CASE SpawnClaim \/ SpawnShareSpace \/ \E f \in Slot : SpawnFdt(f)
  <2>1. /\ pc[current] \in CreationPoints /\ loc' = loc
        /\ \A s \in Slot : s # current => pc'[s] = pc[s]
        /\ UNCHANGED <<next, taskCount, current>>
    BY <1>0, <1>3 DEF SpawnClaim, SpawnShareSpace, SpawnFdt, At, Goto, CreationPoints, cpuVars
  <2> QED  BY <1>c, <2>1
<1>4. CASE \E p \in Pml4s, m \in Slot : SpawnSpace(p, m)
  <2>1. /\ pc[current] \in CreationPoints
        /\ \A s \in Slot : s # current => pc'[s] = pc[s]
        /\ UNCHANGED <<next, taskCount, current>>
        /\ loc' = [loc EXCEPT ![current].pml4 = NoPml4]
    BY <1>0, <1>4 DEF SpawnSpace, At, Goto, CreationPoints, cpuVars
  <2>2. loc'[current].slot = loc[current].slot /\ loc'[current].reuse = loc[current].reuse
    BY <1>0, <2>1 DEF Local
  <2> QED  BY <1>c, <2>1, <2>2
<1>5. CASE SpawnFrame
  <2>1. /\ pc[current] \in CreationPoints /\ T \in Slot
        /\ pc' = [pc EXCEPT ![T] = "user", ![current] = "link"]
        /\ loc' = [loc EXCEPT ![T] = IF T = current THEN @ ELSE NoLocal]
        /\ UNCHANGED <<next, taskCount, current>>
    BY <1>0, <1>5 DEF SpawnFrame, At, CreationPoints, cpuVars, LocalsInRange, T, L
  <2>2. loc'[current] = loc[current]  BY <1>0, <2>1
  <2>3. \A s \in Slot : s # current => pc'[s] = pc[s] \/ pc'[s] = "user"
    BY <1>0, <2>1
  <2> QED  BY <1>c, <2>1, <2>2, <2>3
<1>6. CASE SpawnLink
  <2>1. pc[current] = "link" /\ T \in Slot /\ Return /\ current' = current
    BY <1>0, <1>6 DEF SpawnLink, At, LocalsInRange, T, L, cpuVars
  <2>2. CASE L.reuse
    BY <1>6, <1>r, <2>1, <2>2 DEF SpawnLink
  <2>3. CASE ~ L.reuse
    <3>1. T = taskCount
      BY <1>0, <2>1, <2>3 DEF RingInv, CreationPoints, T, L, Local
    <3>2. next' = [next EXCEPT ![T] = next[0], ![0] = T] /\ taskCount' = taskCount + 1
      BY <1>6, <2>3 DEF SpawnLink
    <3>3. taskCount + 1 <= MaxTasks  BY <1>0, <2>1, <3>1 DEF Slot
    <3>4. next'[0] = taskCount' - 1 /\ next'[T] = T - 1
      BY <1>0, <2>1, <3>1, <3>2 DEF RingInv
    <3>5. \A s \in 1 .. taskCount' - 1 : next'[s] = s - 1
      <4> TAKE s \in 1 .. taskCount' - 1
      <4>1. s = T \/ s \in 1 .. taskCount - 1  BY <1>0, <3>1, <3>2
      <4>2. s \in 1 .. taskCount - 1 => s \in Slot /\ s # T /\ s # 0
        BY <1>0, <3>1 DEF Slot
      <4> QED  BY <1>0, <3>2, <3>4, <4>1, <4>2 DEF RingInv
    <3>6. \A s \in Slot : pc'[s] \notin CreationPoints
      BY <1>0, <2>1 DEF RingInv, Return, Goto, CreationPoints
    <3>7. current' < taskCount'  BY <1>0, <2>1, <3>2 DEF RingInv
    <3>8. taskCount' <= MaxTasks  BY <3>2, <3>3
    <3> QED  BY <3>4, <3>5, <3>6, <3>7, <3>8 DEF RingInv
  <2> QED  BY <2>2, <2>3
<1>7. CASE Load
  <2>1. CASE \E p \in Pml4s : LoadBegin(p)
    BY <2>1, <1>m DEF LoadBegin, slotVars, CreationPoints
  <2>2. CASE LoadEnd
    BY <2>2, <1>m DEF LoadEnd, slotVars, CreationPoints
  <2>3. CASE LoadFails
    BY <2>3, <1>r DEF LoadFails, slotVars
  <2> QED  BY <1>7, <2>1, <2>2, <2>3 DEF Load
<1>8. CASE ExitRelease \/ \E t \in Slot : KillRelease(t)
  BY <1>8, <1>m DEF ExitRelease, KillRelease, CreationPoints, cpuVars
<1>9. CASE KillMark \/ WaitReturn
  BY <1>9, <1>r DEF KillMark, WaitReturn, slotVars, cpuVars
<1>10. CASE ExitHalt \/ (\E t \in Slot : Pend(t)) \/ Halted
  <2>1. UNCHANGED <<next, taskCount, current, pc, loc>>
    BY <1>10 DEF ExitHalt, Pend, Halted, vars, slotVars, cpuVars
  <2> QED  BY <2>1 DEF RingInv
<1>11. CASE \E i \in 0 .. nextId, s \in Slot : WaitBegin(i, s)
  BY <1>11, <1>m DEF WaitBegin, CreationPoints, slotVars, cpuVars
<1>12. CASE Schedule \/ \E n \in Slot : ExitSwitch(n)
  BY <1>12, <1>s DEF Schedule
<1> QED
  BY <1>1, <1>2, <1>3, <1>4, <1>5, <1>6, <1>7, <1>8, <1>9, <1>10, <1>11, <1>12
     DEF Next, Spawn, End, Wait

LEMMA RingInit == Init => RingInv
BY TaskAssumption, SlotFacts DEF Init, RingInv, CreationPoints, Slot

LEMMA RingAlways == ASSUME CreationIsAtomic PROVE Spec => []RingInv
<1>1. IInv /\ RingInv /\ [Next]_vars => RingInv'
  <2> SUFFICES ASSUME IInv, RingInv, [Next]_vars PROVE RingInv'  OBVIOUS
  <2>1. CASE Next  BY <2>1, RingStep
  <2>2. CASE UNCHANGED vars
    BY <2>2 DEF RingInv, vars, slotVars, cpuVars
  <2> QED  BY <2>1, <2>2
<1>2. Spec => []IInv  BY IInvAlways DEF CreationIsAtomic
<1> QED  BY <1>1, <1>2, RingInit, PTL DEF Spec

\* No task is ever lost from the round robin: the ring passes through every
\* slot handed out and through no other, when creations are not interrupted
\* (the syscall entry masks interrupts).
THEOREM RingAlwaysComplete == ASSUME CreationIsAtomic PROVE Spec => []RingIsComplete
<1>1. IInv /\ RingInv => RingIsComplete
  BY RingOfInv DEF IInv, TypeOK
<1>2. Spec => []IInv  BY IInvAlways DEF CreationIsAtomic
<1> QED  BY <1>1, <1>2, RingAlways, PTL

-----------------------------------------------------------------------------
(* Who runs.  Nobody leaves the CPU with a fatal signal delivered, so the  *)
(* current task is the one that is TASK_RUNNING, and a task never creates  *)
(* or kills into its own slot.                                             *)

SlotPoints == CreationPoints \cup {"kill2"}
NoFatalSignals == "pend" \notin Workload

RunInv ==
    /\ \A s \in Slot : ~ pending[s]
    /\ ~ halted => \A s \in Slot : state[s] = "RUNNING" <=> s = current
    /\ \A s \in Slot : pc[s] \in SlotPoints => loc[s].slot # s

LEMMA RunInit == Init => RunInv
BY SlotFacts DEF Init, RunInv, SlotPoints, CreationPoints, NoLocal

LEMMA RunStep ==
    ASSUME NoFatalSignals, IInv, RingInv, RunInv, Next
    PROVE  RunInv'
<1>0. /\ current \in Slot /\ current < taskCount /\ taskCount \in Nat
      /\ state \in [Slot -> {"READY", "RUNNING", "TERMINATED"}]
      /\ pending \in [Slot -> BOOLEAN] /\ LocalsInRange
      /\ pc \in [Slot -> KernelPoints \cup {"user"}] /\ loc \in [Slot -> Local]
      /\ L \in Local /\ \A s \in Slot : s \in Nat
  BY DEF IInv, TypeOK, SpaceInv, TaskTypes, CpuTypes, LocalTypes, RingInv, L, Slot
\* The three parts, for a step that does what most steps do.
<1>p. ASSUME UNCHANGED pending \/ \E n \in Slot : pending' = [pending EXCEPT ![n] = FALSE]
      PROVE  \A s \in Slot : ~ pending'[s]
  BY <1>0, <1>p DEF RunInv
<1>s. ASSUME ~ halted, UNCHANGED <<current, halted>>,
             \/ UNCHANGED state
             \/ \E s \in Slot \ {current}, st \in {"READY", "TERMINATED"} :
                   state' = [state EXCEPT ![s] = st]
      PROVE  ~ halted' => \A s \in Slot : state'[s] = "RUNNING" <=> s = current'
  BY <1>0, <1>s DEF RunInv
<1>l. ASSUME \A s \in Slot : s # current =>
                /\ pc'[s] \in {pc[s], "user"}
                /\ (pc'[s] # "user" => loc'[s].slot = loc[s].slot),
             pc'[current] \in SlotPoints => loc'[current].slot # current
      PROVE  \A s \in Slot : pc'[s] \in SlotPoints => loc'[s].slot # s
  BY <1>0, <1>l DEF RunInv, SlotPoints, CreationPoints
<1>k. ASSUME NEW point, Goto(point), loc' = loc,
             point \in SlotPoints => pc[current] \in SlotPoints
      PROVE  \A s \in Slot : pc'[s] \in SlotPoints => loc'[s].slot # s
  <2>1. \A s \in Slot : s # current => pc'[s] = pc[s]  BY <1>0, <1>k DEF Goto
  <2>2. pc'[current] = point  BY <1>0, <1>k DEF Goto
  <2>3. pc'[current] \in SlotPoints => loc'[current].slot # current
    BY <1>0, <1>k, <2>2 DEF RunInv
  <2> QED  BY <1>k, <1>l, <2>1, <2>3
<1>r. ASSUME Return
      PROVE  \A s \in Slot : pc'[s] \in SlotPoints => loc'[s].slot # s
  <2>1. /\ \A s \in Slot : s # current => pc'[s] = pc[s] /\ loc'[s] = loc[s]
        /\ pc'[current] \notin SlotPoints
    BY <1>0, <1>r DEF Return, Goto, SlotPoints, CreationPoints
  <2> QED  BY <1>l, <2>1
<1>t. ASSUME pc[current] \in SlotPoints
      PROVE  T \in Slot \ {current}
  BY <1>0, <1>t DEF RunInv, SlotPoints, CreationPoints, LocalsInRange, T, L
<1>1. CASE \E op \in Operations, s \in Slot : SpawnScan(op, s)
  <2>1. PICK op \in Operations, s \in Slot : SpawnScan(op, s)  BY <1>1
  <2>2. s # current
    BY <1>0, <2>1 DEF SpawnScan, PickSlot, Recyclable, RunInv, At, Runs
  <2>3. loc'[current] = [L EXCEPT !.op = op, !.slot = s, !.reuse = s < taskCount]
    BY <1>0, <2>1 DEF SpawnScan
  <2>4. loc'[current].slot # current  BY <1>0, <2>2, <2>3 DEF Local
  <2>5. \A t \in Slot : t # current => pc'[t] = pc[t] /\ loc'[t] = loc[t]
    BY <1>0, <2>1 DEF SpawnScan, Goto
  <2>6. UNCHANGED <<state, pending, current, halted>> /\ ~ halted
    BY <2>1 DEF SpawnScan, slotVars, cpuVars, At, Runs
  <2> QED  BY <1>p, <1>s, <1>l, <2>4, <2>5, <2>6 DEF RunInv
<1>2. CASE SpawnFull
  BY <1>2, <1>p, <1>s, <1>r DEF SpawnFull, slotVars, cpuVars, At, Runs, RunInv
<1>3. CASE SpawnClaim
  <2>1. T \in Slot \ {current} /\ ~ halted
    BY <1>3, <1>t DEF SpawnClaim, At, Runs, SlotPoints, CreationPoints
  <2>2. state' = [state EXCEPT ![T] = "READY"] /\ UNCHANGED <<current, halted>>
    BY <1>3 DEF SpawnClaim, cpuVars
  <2>3. UNCHANGED pending \/ pending' = [pending EXCEPT ![T] = FALSE]
    BY <1>3 DEF SpawnClaim
  <2>4. \A s \in Slot : pc'[s] \in SlotPoints => loc'[s].slot # s
    BY <1>3, <1>k DEF SpawnClaim, At, SlotPoints, CreationPoints
  <2> QED  BY <1>p, <1>s, <2>1, <2>2, <2>3, <2>4 DEF RunInv
<1>4. CASE \E p \in Pml4s, m \in Slot : SpawnSpace(p, m)
  <2>1. pc[current] = "mem" /\ loc' = [loc EXCEPT ![current].pml4 = NoPml4] /\ Goto("fdt")
        /\ UNCHANGED <<state, pending, current, halted>> /\ ~ halted
    BY <1>4 DEF SpawnSpace, At, Runs, cpuVars
  <2>2. loc'[current].slot # current
    BY <1>0, <2>1 DEF RunInv, SlotPoints, CreationPoints, Local
  <2>3. \A t \in Slot : t # current => pc'[t] = pc[t] /\ loc'[t] = loc[t]
    BY <1>0, <2>1 DEF Goto
  <2> QED  BY <1>p, <1>s, <1>l, <2>1, <2>2, <2>3 DEF RunInv
<1>5. CASE SpawnShareSpace \/ \E f \in Slot : SpawnFdt(f)
  <2>1. /\ \A s \in Slot : pc'[s] \in SlotPoints => loc'[s].slot # s
        /\ UNCHANGED <<state, pending, current, halted>> /\ ~ halted
    BY <1>5, <1>k DEF SpawnShareSpace, SpawnFdt, At, Runs, cpuVars, SlotPoints, CreationPoints
  <2> QED  BY <1>p, <1>s, <2>1 DEF RunInv
<1>6. CASE SpawnSpaceFails \/ SpawnFdtFails
  <2>1. T \in Slot \ {current} /\ ~ halted
    BY <1>6, <1>t DEF SpawnSpaceFails, SpawnFdtFails, At, Runs, SlotPoints, CreationPoints
  <2>2. UNCHANGED state \/ state' = [state EXCEPT ![T] = "TERMINATED"]
    BY <1>6 DEF SpawnSpaceFails, SpawnFdtFails
  <2>3. UNCHANGED <<pending, current, halted>> /\ Return
    BY <1>6 DEF SpawnSpaceFails, SpawnFdtFails, cpuVars
  <2> QED  BY <1>p, <1>s, <1>r, <2>1, <2>2, <2>3 DEF RunInv
<1>7. CASE SpawnFrame
  <2>1. /\ T \in Slot \ {current} /\ ~ halted
        /\ pc' = [pc EXCEPT ![T] = "user", ![current] = "link"]
        /\ loc' = [loc EXCEPT ![T] = IF T = current THEN @ ELSE NoLocal]
        /\ pending' = [pending EXCEPT ![T] = FALSE] /\ UNCHANGED <<state, current, halted>>
        /\ pc[current] \in SlotPoints
    BY <1>7, <1>t DEF SpawnFrame, At, Runs, cpuVars, SlotPoints, CreationPoints
  <2>2. loc'[current] = loc[current]  BY <1>0, <2>1
  <2>3. \A s \in Slot : s # current =>
           /\ pc'[s] \in {pc[s], "user"}
           /\ (pc'[s] # "user" => loc'[s].slot = loc[s].slot)
    BY <1>0, <2>1
  <2>4. loc'[current].slot # current  BY <1>0, <2>1, <2>2 DEF RunInv
  <2> QED  BY <1>p, <1>s, <1>l, <2>1, <2>3, <2>4 DEF RunInv
<1>8. CASE SpawnLink \/ WaitReturn \/ LoadFails
  <2>1. Return /\ UNCHANGED <<state, pending, current, halted>> /\ ~ halted
    BY <1>8 DEF SpawnLink, WaitReturn, LoadFails, slotVars, cpuVars, At, Runs
  <2> QED  BY <1>p, <1>s, <1>r, <2>1 DEF RunInv
<1>9. CASE \E p \in Pml4s : LoadBegin(p)
  <2>1. /\ pc'[current] \notin SlotPoints
        /\ \A t \in Slot : t # current => pc'[t] = pc[t] /\ loc'[t] = loc[t]
        /\ UNCHANGED <<state, pending, current, halted>> /\ ~ halted
    BY <1>0, <1>9 DEF LoadBegin, slotVars, At, Runs, Goto, SlotPoints, CreationPoints
  <2> QED  BY <1>p, <1>s, <1>l, <2>1 DEF RunInv
<1>10. CASE LoadEnd \/ ExitRelease
  <2>1. /\ \A s \in Slot : pc'[s] \in SlotPoints => loc'[s].slot # s
        /\ UNCHANGED <<state, pending, current, halted>> /\ ~ halted
    BY <1>10, <1>k DEF LoadEnd, ExitRelease, slotVars, cpuVars, At, Runs, SlotPoints, CreationPoints
  <2> QED  BY <1>p, <1>s, <2>1 DEF RunInv
<1>11. CASE ExitHalt
  BY <1>11, <1>p DEF ExitHalt, RunInv
<1>12. CASE \E t \in Slot : KillRelease(t)
  <2>1. PICK t \in Slot : KillRelease(t)  BY <1>12
  <2>2. t # current /\ loc' = [loc EXCEPT ![current].slot = t] /\ Goto("kill2")
        /\ UNCHANGED <<state, pending, current, halted>> /\ ~ halted
    BY <2>1 DEF KillRelease, Killable, cpuVars, At, Runs
  <2>3. loc'[current].slot # current  BY <1>0, <2>2 DEF Local
  <2>4. \A s \in Slot : s # current => pc'[s] = pc[s] /\ loc'[s] = loc[s]
    BY <1>0, <2>2 DEF Goto
  <2> QED  BY <1>p, <1>s, <1>l, <2>2, <2>3, <2>4 DEF RunInv
<1>13. CASE KillMark
  <2>1. T \in Slot \ {current} /\ ~ halted
    BY <1>13, <1>t DEF KillMark, At, Runs, SlotPoints
  <2>2. /\ state' = [state EXCEPT ![T] = "TERMINATED"] /\ Return
        /\ UNCHANGED <<pending, current, halted>>
    BY <1>13 DEF KillMark, cpuVars
  <2> QED  BY <1>p, <1>s, <1>r, <2>1, <2>2 DEF RunInv
<1>14. CASE \E t \in Slot : Pend(t)
  BY <1>14 DEF Pend, NoFatalSignals
<1>15. CASE \E i \in 0 .. nextId, s \in Slot : WaitBegin(i, s)
  <2>1. /\ pc'[current] \notin SlotPoints
        /\ \A t \in Slot : t # current => pc'[t] = pc[t] /\ loc'[t] = loc[t]
        /\ UNCHANGED <<state, pending, current, halted>> /\ ~ halted
    BY <1>0, <1>15 DEF WaitBegin, slotVars, cpuVars, At, Runs, Goto, SlotPoints, CreationPoints
  <2> QED  BY <1>p, <1>s, <1>l, <2>1 DEF RunInv
<1>16. CASE \E n \in Slot : Yield(n) \/ Tick(n)
  <2>1. PICK n \in Slot : Yield(n) \/ Tick(n)  BY <1>16
  <2>2. /\ state' = SwitchStates(n) /\ pending' = [pending EXCEPT ![n] = FALSE]
        /\ current' = n /\ UNCHANGED <<pc, loc, halted>> /\ ~ halted
    BY <2>1 DEF Yield, Tick, SwitchTo, At, Runs
  <2>3. ~ pending[n]  BY DEF RunInv
  <2>4. \A s \in Slot : state'[s] = "RUNNING" <=> s = n
    BY <1>0, <2>2, <2>3 DEF SwitchStates, RunInv
  <2> QED  BY <1>p, <2>2, <2>4 DEF RunInv
<1>17. CASE \E n \in Slot : ExitSwitch(n)
  <2>1. PICK n \in Slot : ExitSwitch(n)  BY <1>17
  <2>2. /\ state' = [state EXCEPT ![current] = "TERMINATED", ![n] = "RUNNING"]
        /\ n # current /\ current' = n /\ UNCHANGED <<pc, loc, halted, pending>> /\ ~ halted
    BY <2>1 DEF ExitSwitch, SwitchTo, SchedNext, OtherReady, At, Runs
  <2>3. \A s \in Slot : state'[s] = "RUNNING" <=> s = n
    BY <1>0, <2>2 DEF RunInv
  <2> QED  BY <1>p, <2>2, <2>3 DEF RunInv
<1>18. CASE Halted
  BY <1>18 DEF Halted, vars, slotVars, cpuVars, RunInv
<1> QED
  BY <1>1, <1>2, <1>3, <1>4, <1>5, <1>6, <1>7, <1>8, <1>9, <1>10, <1>11, <1>12, <1>13,
     <1>14, <1>15, <1>16, <1>17, <1>18 DEF Next, Spawn, Load, End, Wait, Schedule

LEMMA RunAlways ==
    ASSUME CreationIsAtomic, NoFatalSignals
    PROVE  Spec => [](IInv /\ RingInv /\ RunInv)
<1>1. IInv /\ RingInv /\ RunInv /\ [Next]_vars => RunInv'
  <2> SUFFICES ASSUME IInv, RingInv, RunInv, [Next]_vars PROVE RunInv'  OBVIOUS
  <2>1. CASE Next  BY <2>1, RunStep
  <2>2. CASE UNCHANGED vars
    BY <2>2 DEF RunInv, vars, slotVars, cpuVars
  <2> QED  BY <2>1, <2>2
<1>2. Spec => []IInv  BY IInvAlways DEF CreationIsAtomic
<1> QED  BY <1>1, <1>2, RunInit, RingAlways, PTL DEF Spec

\* Exactly the task the CPU executes is TASK_RUNNING, through every switch,
\* exit, kill and recycled slot, as long as no task takes a fatal signal (then
\* the task that was signalled runs on: task_sig_deliver).
THEOREM OneTaskRuns ==
    ASSUME CreationIsAtomic, NoFatalSignals
    PROVE  Spec => []OneRuns
<1>1. ASSUME IInv, RingInv, RunInv PROVE OneRuns
  <2>1. /\ current \in Slot /\ current < taskCount /\ taskCount \in Nat
        /\ taskCount <= MaxTasks /\ MaxTasks \in Nat
    BY <1>1, TaskAssumption DEF IInv, TypeOK, TaskTypes, CpuTypes, RingInv
  <2>2. current \in 0 .. taskCount - 1 /\ 0 .. taskCount - 1 \subseteq Slot
    BY <2>1 DEF Slot
  <2> QED  BY <1>1, <2>2 DEF RunInv, OneRuns
<1> QED  BY <1>1, RunAlways, PTL

-----------------------------------------------------------------------------
(* Exact counts.  A slot without a living task points at no table entry, so *)
(* nothing is overwritten when it is handed out again; a kill is one step   *)
(* for the tasks (interrupts are masked in the syscall entry).              *)

KillIsAtomic == "kill2" \notin IrqOpen
CallsAreAtomic == CreationIsAtomic /\ KillIsAtomic /\ NoFatalSignals

Creating(s) == pc[current] \in CreationPoints /\ s = T
Killing(s)  == pc[current] = "kill2" /\ s = T
Released(s) ==
    /\ \/ state[s] = "TERMINATED" \/ s >= taskCount
       \/ pc[s] = "exit2" \/ Killing(s)
    /\ ~ Creating(s)

PlaceInv ==
    /\ \A s \in Slot : pc[s] = "kill2" => s = current
    /\ \A s \in Slot : Released(s) => mm[s] = NoRef /\ fdt[s] = NoRef
    /\ pc[current] \in {"claim", "mem"} => mm[T] = NoRef
    /\ pc[current] \in {"claim", "mem", "fdt"} => fdt[T] = NoRef
    /\ pc[current] \in {"mem", "fdt", "frame", "link"} => state[T] = "READY"
    /\ pc[current] = "link" => pc[T] = "user"

SchedInv == IInv /\ RingInv /\ RunInv

\* What the proofs below use of the invariants above.
LEMMA SchedFacts ==
    ASSUME SchedInv
    PROVE  /\ current \in Slot /\ current < taskCount /\ taskCount \in Nat
           /\ \A s \in Slot : s \in Nat
           /\ L \in Local /\ loc \in [Slot -> Local]
           /\ pc \in [Slot -> KernelPoints \cup {"user"}]
           /\ state \in [Slot -> {"READY", "RUNNING", "TERMINATED"}]
           /\ mm \in [Slot -> 0 .. MaxTasks] /\ fdt \in [Slot -> 0 .. MaxTasks]
           /\ mmRefs \in [Slot -> Nat] /\ fdRefs \in [Slot -> Nat]
           /\ ctx \in [Slot -> BOOLEAN]
           /\ \A s \in Slot : pc[s] \in CreationPoints => s = current
           /\ \A s \in Slot : pc[s] = "load" => s = current /\ preempt > 0
           /\ \A s \in Slot : ~ pending[s]
           /\ ~ halted => state[current] = "RUNNING"
           /\ pc[current] \in SlotPoints => T \in Slot \ {current}
           /\ pc[current] \in CreationPoints =>
                 T <= taskCount /\ L.reuse = (T < taskCount)
           /\ preempt \in Nat
<1>1. /\ current \in Slot /\ current < taskCount /\ taskCount \in Nat
      /\ \A s \in Slot : s \in Nat
      /\ loc \in [Slot -> Local] /\ preempt \in Nat
      /\ pc \in [Slot -> KernelPoints \cup {"user"}]
      /\ state \in [Slot -> {"READY", "RUNNING", "TERMINATED"}]
      /\ mm \in [Slot -> 0 .. MaxTasks] /\ fdt \in [Slot -> 0 .. MaxTasks]
      /\ mmRefs \in [Slot -> Nat] /\ fdRefs \in [Slot -> Nat]
      /\ ctx \in [Slot -> BOOLEAN]
  BY DEF SchedInv, IInv, TypeOK, TaskTypes, TableTypes, CpuTypes, LocalTypes, RingInv, Slot
<1>2. /\ \A s \in Slot : pc[s] \in CreationPoints => s = current
      /\ \A s \in Slot : pc[s] = "load" => s = current /\ preempt > 0
      /\ \A s \in Slot : ~ pending[s]
      /\ ~ halted => state[current] = "RUNNING"
  BY <1>1 DEF SchedInv, IInv, SpaceInv, LoaderIsAlone, RingInv, RunInv
<1>3. pc[current] \in SlotPoints => T \in Slot \ {current}
  BY <1>1 DEF SchedInv, IInv, SpaceInv, LocalsInRange, RunInv, SlotPoints, CreationPoints, T, L
<1>4. pc[current] \in CreationPoints => T <= taskCount /\ L.reuse = (T < taskCount)
  BY <1>1 DEF SchedInv, RingInv, T, L
<1> QED  BY <1>1, <1>2, <1>3, <1>4 DEF L

LEMMA PlaceInit == Init => PlaceInv
BY SlotFacts, TaskAssumption DEF Init, PlaceInv, Released, Creating, Killing, CreationPoints, Slot

\* A step of the current task that stays out of creations and kills.
LEMMA PlaceQuiet ==
    ASSUME SchedInv, PlaceInv, UNCHANGED <<taskCount, current>>,
           pc[current] \notin SlotPoints, pc'[current] \notin SlotPoints,
           \A s \in Slot : s # current => pc'[s] = pc[s],
           \A s \in Slot : state'[s] = "TERMINATED" => state[s] = "TERMINATED" \/ pc[s] = "exit2",
           \A s \in Slot : mm'[s] \in {mm[s], NoRef} /\ fdt'[s] \in {fdt[s], NoRef},
           pc'[current] = "exit2" =>
               \/ pc[current] = "exit2"
               \/ mm'[current] = NoRef /\ fdt'[current] = NoRef
    PROVE  PlaceInv'
<1>0. current \in Slot  BY SchedFacts
<1>1. \A s \in Slot : ~ Creating(s) /\ ~ Killing(s) /\ ~ Creating(s)' /\ ~ Killing(s)'
  BY DEF Creating, Killing, SlotPoints
<1>2. ASSUME NEW s \in Slot, Released(s)' PROVE mm'[s] = NoRef /\ fdt'[s] = NoRef
  <2>1. \/ state[s] = "TERMINATED" \/ s >= taskCount \/ pc[s] = "exit2"
        \/ mm'[s] = NoRef /\ fdt'[s] = NoRef
    BY <1>0, <1>1, <1>2 DEF Released
  <2> QED  BY <1>1, <2>1 DEF PlaceInv, Released
<1>3. \A s \in Slot : pc'[s] # "kill2"
  BY <1>0 DEF PlaceInv, SlotPoints
<1> QED  BY <1>2, <1>3 DEF PlaceInv, SlotPoints, CreationPoints

\* A switch: whoever leaves or gets the CPU is in no creation and no kill.
LEMMA PlaceSwitch ==
    ASSUME SchedInv, PlaceInv, UNCHANGED <<taskCount, pc, loc, mm, fdt>>,
           pc[current] \notin SlotPoints, current' \in Slot,
           \A s \in Slot : state'[s] = "TERMINATED" => state[s] = "TERMINATED" \/ pc[s] = "exit2"
    PROVE  PlaceInv'
<1>1. \A s \in Slot : pc[s] \notin SlotPoints
  BY SchedFacts DEF PlaceInv, SlotPoints
<1>2. \A s \in Slot : ~ Creating(s) /\ ~ Killing(s) /\ ~ Creating(s)' /\ ~ Killing(s)'
  BY <1>1, SchedFacts DEF Creating, Killing, SlotPoints
<1>3. ASSUME NEW s \in Slot, Released(s)' PROVE Released(s)
  BY <1>2, <1>3 DEF Released
<1> QED  BY <1>1, <1>3 DEF PlaceInv, SlotPoints, CreationPoints

\* A creation that moves on, and may set one more thing of the new slot.
LEMMA PlaceGoesOn ==
    ASSUME SchedInv, PlaceInv, UNCHANGED <<taskCount, current>>,
           pc[current] \in CreationPoints, NEW point \in CreationPoints, Goto(point),
           loc'[current].slot = T,
           \A s \in Slot : s # T => /\ state'[s] = state[s]
                                    /\ mm'[s] = mm[s] /\ fdt'[s] = fdt[s],
           point \in {"claim", "mem"} => mm'[T] = NoRef,
           point \in {"claim", "mem", "fdt"} => fdt'[T] = NoRef,
           point \in {"mem", "fdt", "frame", "link"} => state'[T] = "READY",
           point = "link" => pc[T] = "user"
    PROVE  PlaceInv'
<1>0. current \in Slot /\ T \in Slot \ {current} /\ T' = T
  BY SchedFacts DEF SlotPoints, T, L
<1>1. /\ pc'[current] = point /\ point # "kill2"
      /\ \A s \in Slot : s # current => pc'[s] = pc[s]
  BY <1>0, SchedFacts DEF Goto, CreationPoints
<1>2. ASSUME NEW s \in Slot, Released(s)' PROVE mm'[s] = NoRef /\ fdt'[s] = NoRef
  <2>1. s # T  BY <1>0, <1>1, <1>2 DEF Released, Creating
  <2>2. Released(s)
    BY <1>0, <1>1, <1>2, <2>1 DEF Released, Creating, Killing, CreationPoints
  <2> QED  BY <2>1, <2>2 DEF PlaceInv
<1>3. \A s \in Slot : pc'[s] = "kill2" => s = current'
  BY <1>1 DEF PlaceInv
<1> QED  BY <1>0, <1>1, <1>2, <1>3 DEF PlaceInv

\* A creation that ends, with or without a new task.
LEMMA PlaceEnds ==
    ASSUME SchedInv, PlaceInv, UNCHANGED current, taskCount' >= taskCount,
           pc[current] \in CreationPoints, Goto("user"),
           \A s \in Slot : s # T => /\ state'[s] = state[s]
                                    /\ mm'[s] = mm[s] /\ fdt'[s] = fdt[s],
           \/ mm'[T] = NoRef /\ fdt'[T] = NoRef
           \/ state'[T] # "TERMINATED" /\ T < taskCount' /\ pc[T] # "exit2",
           taskCount' \in Nat
    PROVE  PlaceInv'
<1>0. current \in Slot /\ T \in Slot \ {current}
  BY SchedFacts DEF SlotPoints
<1>1. pc'[current] = "user" /\ \A s \in Slot : s # current => pc'[s] = pc[s]
  BY <1>0, SchedFacts DEF Goto
<1>2. ASSUME NEW s \in Slot, Released(s)' PROVE mm'[s] = NoRef /\ fdt'[s] = NoRef
  <2>1. CASE s # T
    <3>1. Released(s)
      BY <1>0, <1>1, <1>2, <2>1, SchedFacts DEF Released, Creating, Killing
    <3> QED  BY <2>1, <3>1 DEF PlaceInv
  <2>2. CASE s = T
    BY <1>0, <1>1, <1>2, <2>2, SchedFacts DEF Released, Killing
  <2> QED  BY <2>1, <2>2
<1>3. \A s \in Slot : pc'[s] = "kill2" => s = current'
  BY <1>1 DEF PlaceInv
<1> QED  BY <1>1, <1>2, <1>3 DEF PlaceInv

LEMMA PlaceStep ==
    ASSUME CallsAreAtomic, SchedInv, PlaceInv, Next
    PROVE  PlaceInv'
<1>0. current \in Slot  BY SchedFacts
<1>r. ASSUME NEW s \in Slot, ReleaseMm(s)
      PROVE  mm'[s] = NoRef /\ \A t \in Slot : t # s => mm'[t] = mm[t]
  BY <1>r, SchedFacts DEF ReleaseMm
<1>f. ASSUME NEW s \in Slot, ReleaseFdt(s)
      PROVE  fdt'[s] = NoRef /\ \A t \in Slot : t # s => fdt'[t] = fdt[t]
  BY <1>f, SchedFacts DEF ReleaseFdt
<1>g. ASSUME NEW point, Goto(point)
      PROVE  pc'[current] = point /\ \A s \in Slot : s # current => pc'[s] = pc[s]
  BY <1>0, <1>g, SchedFacts DEF Goto
<1>1. CASE \E op \in Operations, s \in Slot : SpawnScan(op, s)
  <2>1. PICK op \in Operations, s \in Slot : SpawnScan(op, s)  BY <1>1
  <2>2. /\ pc[current] \in {"user", "scan"} /\ Goto("claim") /\ PickSlot(s)
        /\ loc' = [loc EXCEPT ![current] =
                      [L EXCEPT !.op = op, !.slot = s, !.reuse = s < taskCount]]
        /\ UNCHANGED <<state, mm, fdt, taskCount, current>>
    BY <2>1 DEF SpawnScan, At, slotVars, cpuVars
  <2>3. loc'[current].slot = s  BY <1>0, <2>2, SchedFacts DEF Local
  <2>4. T' = s  BY <2>2, <2>3 DEF T, L
  <2>5. state[s] = "TERMINATED" \/ s >= taskCount
    BY <2>2, SchedFacts DEF PickSlot, Recyclable
  <2>6. \A t \in Slot : ~ Creating(t) /\ ~ Killing(t)
    BY <2>2 DEF Creating, Killing, CreationPoints
  <2>7. mm[s] = NoRef /\ fdt[s] = NoRef  BY <2>5, <2>6 DEF PlaceInv, Released
  <2>8. ASSUME NEW t \in Slot, Released(t)' PROVE mm'[t] = NoRef /\ fdt'[t] = NoRef
    <3>1. Released(t)  BY <1>g, <2>2, <2>4, <2>6, <2>8 DEF Released, Killing
    <3> QED  BY <2>2, <3>1 DEF PlaceInv
  <2>9. \A t \in Slot : pc'[t] = "kill2" => t = current'
    BY <1>g, <2>2 DEF PlaceInv
  <2> QED  BY <1>g, <2>2, <2>4, <2>7, <2>8, <2>9 DEF PlaceInv
<1>2. CASE \/ SpawnFull \/ LoadEnd \/ LoadFails \/ WaitReturn
           \/ \E p \in Pml4s : LoadBegin(p)
           \/ \E i \in 0 .. nextId, s \in Slot : WaitBegin(i, s)
  <2>1. /\ UNCHANGED <<state, mm, fdt, taskCount, current>>
        /\ pc[current] \notin SlotPoints
        /\ \E point : Goto(point) /\ point \notin SlotPoints /\ point # "exit2"
    BY <1>2 DEF SpawnFull, LoadEnd, LoadFails, WaitReturn, LoadBegin, WaitBegin, Return, At,
       SlotPoints, CreationPoints, slotVars, cpuVars
  <2> QED  BY <1>g, <2>1, PlaceQuiet
<1>3. CASE SpawnClaim
  <2>1. /\ pc[current] = "claim" /\ Goto("mem") /\ UNCHANGED <<taskCount, current, loc>>
        /\ state' = [state EXCEPT ![T] = "READY"]
        /\ mm' = mm \/ mm' = [mm EXCEPT ![T] = NoRef]
        /\ fdt' = fdt \/ fdt' = [fdt EXCEPT ![T] = NoRef]
    BY <1>3 DEF SpawnClaim, At, cpuVars
  <2>2. T \in Slot /\ mm[T] = NoRef /\ fdt[T] = NoRef
    BY <2>1, SchedFacts DEF PlaceInv, SlotPoints, CreationPoints
  <2>3. loc'[current].slot = T  BY <2>1 DEF T, L
  <2> QED  BY <2>1, <2>2, <2>3, SchedFacts, PlaceGoesOn DEF CreationPoints
<1>4. CASE \E p \in Pml4s, m \in Slot : SpawnSpace(p, m)
  <2>1. PICK p \in Pml4s, m \in Slot : SpawnSpace(p, m)  BY <1>4
  <2>2. /\ pc[current] = "mem" /\ Goto("fdt") /\ UNCHANGED <<state, fdt, taskCount, current>>
        /\ mm' = [mm EXCEPT ![T] = m] /\ loc' = [loc EXCEPT ![current].pml4 = NoPml4]
    BY <2>1 DEF SpawnSpace, At, cpuVars
  <2>3. loc'[current].slot = T  BY <1>0, <2>2, SchedFacts DEF T, L, Local
  <2>4. T \in Slot /\ fdt[T] = NoRef /\ state[T] = "READY"
    BY <2>2, SchedFacts DEF PlaceInv, SlotPoints, CreationPoints
  <2> QED  BY <2>2, <2>3, <2>4, SchedFacts, PlaceGoesOn DEF CreationPoints
<1>5. CASE SpawnShareSpace
  <2>1. /\ pc[current] = "mem" /\ Goto("fdt") /\ UNCHANGED <<state, fdt, taskCount, current, loc>>
        /\ mm' = [mm EXCEPT ![T] = mm[current]]
    BY <1>5 DEF SpawnShareSpace, At, cpuVars
  <2>2. T \in Slot /\ fdt[T] = NoRef /\ state[T] = "READY" /\ loc'[current].slot = T
    BY <2>1, SchedFacts DEF PlaceInv, SlotPoints, CreationPoints, T, L
  <2> QED  BY <2>1, <2>2, SchedFacts, PlaceGoesOn DEF CreationPoints
<1>6. CASE \E f \in Slot : SpawnFdt(f)
  <2>1. PICK f \in Slot : SpawnFdt(f)  BY <1>6
  <2>2. /\ pc[current] = "fdt" /\ Goto("frame") /\ UNCHANGED <<state, mm, taskCount, current, loc>>
        /\ fdt' = [fdt EXCEPT ![T] = f]
    BY <2>1 DEF SpawnFdt, At, cpuVars
  <2>3. T \in Slot /\ state[T] = "READY" /\ loc'[current].slot = T
    BY <2>2, SchedFacts DEF PlaceInv, SlotPoints, CreationPoints, T, L
  <2> QED  BY <2>2, <2>3, SchedFacts, PlaceGoesOn DEF CreationPoints
<1>7. CASE SpawnSpaceFails
  <2>1. /\ pc[current] = "mem" /\ Goto("user") /\ UNCHANGED <<fdt, taskCount, current>>
        /\ mm' = mm \/ mm' = [mm EXCEPT ![T] = NoRef]
        /\ state' = state \/ state' = [state EXCEPT ![T] = "TERMINATED"]
    BY <1>7 DEF SpawnSpaceFails, At, cpuVars, Return
  <2>2. T \in Slot /\ mm[T] = NoRef /\ fdt[T] = NoRef
    BY <2>1, SchedFacts DEF PlaceInv, SlotPoints, CreationPoints
  <2> QED  BY <2>1, <2>2, SchedFacts, PlaceEnds DEF CreationPoints
<1>8. CASE SpawnFdtFails
  <2>1. /\ pc[current] = "fdt" /\ Goto("user") /\ UNCHANGED <<taskCount, current>> /\ ReleaseMm(T)
        /\ fdt' = [fdt EXCEPT ![T] = NoRef]
        /\ state' = state \/ state' = [state EXCEPT ![T] = "TERMINATED"]
    BY <1>8 DEF SpawnFdtFails, At, cpuVars, Return
  <2>2. T \in Slot  BY <2>1, SchedFacts DEF SlotPoints, CreationPoints
  <2> QED  BY <1>r, <2>1, <2>2, SchedFacts, PlaceEnds DEF CreationPoints
<1>9. CASE SpawnFrame
  <2>1. /\ pc[current] = "frame" /\ T \in Slot \ {current}
        /\ pc' = [pc EXCEPT ![T] = "user", ![current] = "link"]
        /\ loc'[current] = L /\ UNCHANGED <<state, mm, fdt, taskCount, current>>
    <3>1. pc[current] = "frame"  BY <1>9 DEF SpawnFrame, At
    <3>2. T \in Slot \ {current}  BY <3>1, SchedFacts DEF SlotPoints, CreationPoints
    <3>3. loc'[current] = L  BY <1>0, <1>9, <3>2, SchedFacts DEF SpawnFrame, L
    <3> QED  BY <1>9, <3>1, <3>2, <3>3 DEF SpawnFrame, cpuVars
  <2>2. T' = T /\ state[T] = "READY"  BY <2>1 DEF PlaceInv, T, L
  <2>3. pc'[current] = "link" /\ pc'[T] = "user"
        /\ \A s \in Slot : s # T /\ s # current => pc'[s] = pc[s]
    BY <1>0, <2>1, SchedFacts
  <2>4. ASSUME NEW s \in Slot, Released(s)' PROVE mm'[s] = NoRef /\ fdt'[s] = NoRef
    <3>1. s # T  BY <2>1, <2>2, <2>3, <2>4 DEF Released, Creating, CreationPoints
    <3>2. Released(s)
      BY <2>1, <2>2, <2>3, <2>4, <3>1 DEF Released, Creating, Killing, CreationPoints
    <3> QED  BY <2>1, <3>2 DEF PlaceInv
  <2>5. \A s \in Slot : pc'[s] = "kill2" => s = current'
    BY <2>1, <2>3 DEF PlaceInv
  <2> QED  BY <2>1, <2>2, <2>3, <2>4, <2>5 DEF PlaceInv
<1>10. CASE SpawnLink
  <2>1. /\ pc[current] = "link" /\ Goto("user") /\ UNCHANGED <<state, mm, fdt, current>>
        /\ taskCount' = IF L.reuse THEN taskCount ELSE taskCount + 1
    BY <1>10 DEF SpawnLink, At, cpuVars, Return
  <2>2. T \in Slot /\ state[T] = "READY" /\ pc[T] = "user" /\ T \in Nat
        /\ T <= taskCount /\ L.reuse = (T < taskCount) /\ taskCount \in Nat
    BY <2>1, SchedFacts DEF PlaceInv, SlotPoints, CreationPoints
  <2>3. taskCount' = IF T < taskCount THEN taskCount ELSE taskCount + 1
    BY <2>1, <2>2
  <2>4. PICK t, c, d : t = T /\ c = taskCount /\ d = taskCount'  OBVIOUS
  <2>5. T < taskCount' /\ taskCount' \in Nat /\ taskCount' >= taskCount
    BY <2>2, <2>3, <2>4
  <2> QED  BY <2>1, <2>2, <2>5, PlaceEnds DEF CreationPoints
<1>11. CASE ExitRelease
  <2>1. /\ pc[current] = "user" /\ Goto("exit2") /\ UNCHANGED <<state, taskCount, current>>
        /\ ReleaseMm(current) /\ ReleaseFdt(current)
    BY <1>11 DEF ExitRelease, At, cpuVars
  <2> QED  BY <1>0, <1>r, <1>f, <1>g, <2>1, PlaceQuiet DEF SlotPoints, CreationPoints
<1>12. CASE ExitHalt
  <2>1. /\ pc[current] = "exit2" /\ UNCHANGED <<taskCount, current, pc, mm, fdt>>
        /\ state' = [state EXCEPT ![current] = "TERMINATED"]
    BY <1>12 DEF ExitHalt, At
  <2> QED  BY <1>0, <2>1, SchedFacts, PlaceQuiet DEF SlotPoints, CreationPoints
<1>13. CASE \E t \in Slot : KillRelease(t)
  <2>1. PICK t \in Slot : KillRelease(t)  BY <1>13
  <2>2. /\ pc[current] = "user" /\ Goto("kill2") /\ UNCHANGED <<state, taskCount, current>>
        /\ ReleaseMm(t) /\ ReleaseFdt(t) /\ loc' = [loc EXCEPT ![current].slot = t]
    BY <2>1 DEF KillRelease, At, cpuVars
  <2>3. T' = t  BY <1>0, <2>2, SchedFacts DEF T, L, Local
  <2>4. ASSUME NEW s \in Slot, Released(s)' PROVE mm'[s] = NoRef /\ fdt'[s] = NoRef
    <3>1. CASE s = t  BY <1>r, <1>f, <2>2, <3>1
    <3>2. CASE s # t
      <4>1. Released(s)
        BY <1>g, <2>2, <2>3, <2>4, <3>2 DEF Released, Creating, Killing, CreationPoints
      <4> QED  BY <1>r, <1>f, <2>2, <3>2, <4>1 DEF PlaceInv
    <3> QED  BY <3>1, <3>2
  <2>5. \A s \in Slot : pc'[s] = "kill2" => s = current'
    BY <1>g, <2>2 DEF PlaceInv
  <2> QED  BY <1>g, <2>2, <2>4, <2>5 DEF PlaceInv
<1>14. CASE KillMark
  <2>1. /\ pc[current] = "kill2" /\ Goto("user") /\ UNCHANGED <<mm, fdt, taskCount, current>>
        /\ state' = [state EXCEPT ![T] = "TERMINATED"]
    BY <1>14 DEF KillMark, At, cpuVars, Return
  <2>2. ASSUME NEW s \in Slot, Released(s)' PROVE Released(s)
    BY <1>g, <2>1, <2>2 DEF Released, Creating, Killing, CreationPoints
  <2>3. \A s \in Slot : pc'[s] = "kill2" => s = current'
    BY <1>g, <2>1 DEF PlaceInv
  <2> QED  BY <1>g, <2>1, <2>2, <2>3 DEF PlaceInv
<1>15. CASE \E t \in Slot : Pend(t)
  BY <1>15 DEF Pend, CallsAreAtomic, NoFatalSignals
<1>16. CASE \E n \in Slot : Yield(n) \/ Tick(n)
  <2>1. PICK n \in Slot : Yield(n) \/ Tick(n)  BY <1>16
  <2>2. /\ UNCHANGED <<taskCount, pc, loc, mm, fdt>> /\ current' = n /\ state' = SwitchStates(n)
    BY <2>1 DEF Yield, Tick, SwitchTo
  <2>3. pc[current] \notin SlotPoints
    BY <2>1 DEF Yield, Tick, At, CallsAreAtomic, CreationIsAtomic, KillIsAtomic,
       SlotPoints, CreationPoints
  <2>4. \A s \in Slot : state'[s] = "TERMINATED" => state[s] = "TERMINATED"
    BY <2>2, SchedFacts DEF SwitchStates
  <2> QED  BY <2>2, <2>3, <2>4, PlaceSwitch
<1>17. CASE \E n \in Slot : ExitSwitch(n)
  <2>1. PICK n \in Slot : ExitSwitch(n)  BY <1>17
  <2>2. /\ UNCHANGED <<taskCount, pc, loc, mm, fdt>> /\ current' = n /\ pc[current] = "exit2"
        /\ state' = [state EXCEPT ![current] = "TERMINATED", ![n] = "RUNNING"]
    BY <2>1 DEF ExitSwitch, SwitchTo, At
  <2>3. \A s \in Slot : state'[s] = "TERMINATED" => state[s] = "TERMINATED" \/ pc[s] = "exit2"
    BY <2>2, SchedFacts
  <2> QED  BY <2>2, <2>3, PlaceSwitch DEF SlotPoints, CreationPoints
<1>18. CASE Halted
  BY <1>18 DEF Halted, vars, slotVars, cpuVars, PlaceInv, Released, Creating, Killing, T, L
<1> QED
  BY <1>1, <1>2, <1>3, <1>4, <1>5, <1>6, <1>7, <1>8, <1>9, <1>10, <1>11, <1>12, <1>13,
     <1>14, <1>15, <1>16, <1>17, <1>18 DEF Next, Spawn, Load, End, Wait, Schedule

\* A slot that points nowhere takes a reference; one that points at an entry
\* gives its reference back.
Exact(refs, table) == \A e \in Slot : refs[e] = Cardinality(Holders(table, e))

LEMMA ExactTake ==
    ASSUME NEW f \in [Slot -> 0 .. MaxTasks], NEW refs \in [Slot -> Nat], Exact(refs, f),
           NEW t \in Slot, f[t] = NoRef, NEW v \in Slot
    PROVE  Exact([refs EXCEPT ![v] = @ + 1], [f EXCEPT ![t] = v])
<1> SUFFICES ASSUME NEW e \in Slot
             PROVE  [refs EXCEPT ![v] = @ + 1][e] = Cardinality(Holders([f EXCEPT ![t] = v], e))
  BY DEF Exact
<1>1. refs[e] = Cardinality(Holders(f, e))  BY DEF Exact
<1>2. v \in 0 .. MaxTasks /\ f[t] # e  BY SlotFacts
<1>3. /\ f[t] # e /\ v = e => Cardinality(Holders([f EXCEPT ![t] = v], e))
                               = Cardinality(Holders(f, e)) + 1
      /\ (f[t] = e) = (v = e) => Cardinality(Holders([f EXCEPT ![t] = v], e))
                               = Cardinality(Holders(f, e))
  BY <1>2, HoldersExcept
<1>4. CASE v = e  BY <1>1, <1>2, <1>3, <1>4
<1>5. CASE v # e
  <2>1. (f[t] = e) = (v = e)  BY <1>2, <1>5
  <2> QED  BY <1>1, <1>3, <1>5, <2>1
<1> QED  BY <1>4, <1>5

LEMMA ExactRelease ==
    ASSUME NEW f \in [Slot -> 0 .. MaxTasks], NEW refs \in [Slot -> Nat], Exact(refs, f),
           NEW t \in Slot, f[t] # NoRef
    PROVE  Exact([refs EXCEPT ![f[t]] = @ - 1], [f EXCEPT ![t] = NoRef])
<1> SUFFICES ASSUME NEW e \in Slot
             PROVE  [refs EXCEPT ![f[t]] = @ - 1][e]
                       = Cardinality(Holders([f EXCEPT ![t] = NoRef], e))
  BY DEF Exact
<1>1. refs[e] = Cardinality(Holders(f, e)) /\ f[t] \in Slot  BY SlotFacts DEF Exact
<1>2. NoRef # e /\ NoRef \in 0 .. MaxTasks  BY SlotFacts
<1>3. /\ f[t] = e => Cardinality(Holders([f EXCEPT ![t] = NoRef], e))
                      = Cardinality(Holders(f, e)) - 1
      /\ f[t] # e => Cardinality(Holders([f EXCEPT ![t] = NoRef], e))
                      = Cardinality(Holders(f, e))
  BY <1>2, HoldersExcept
<1> QED  BY <1>1, <1>3

LEMMA ExactDrop ==
    ASSUME NEW f \in [Slot -> 0 .. MaxTasks], NEW t \in Slot, f[t] = NoRef
    PROVE  [f EXCEPT ![t] = NoRef] = f
OBVIOUS

LEMMA ReleaseMmExact ==
    ASSUME SchedInv, Exact(mmRefs, mm), NEW s \in Slot, ReleaseMm(s)
    PROVE  Exact(mmRefs', mm')
<1>1. CASE mm[s] = NoRef
  BY <1>1, SchedFacts, ExactDrop DEF ReleaseMm
<1>2. CASE mm[s] # NoRef
  <2>1. mm' = [mm EXCEPT ![s] = NoRef] /\ mmRefs' = [mmRefs EXCEPT ![mm[s]] = @ - 1]
    BY <1>2 DEF ReleaseMm
  <2> QED  BY <1>2, <2>1, SchedFacts, ExactRelease
<1> QED  BY <1>1, <1>2

LEMMA ReleaseFdtExact ==
    ASSUME SchedInv, Exact(fdRefs, fdt), NEW s \in Slot, ReleaseFdt(s)
    PROVE  Exact(fdRefs', fdt')
<1>1. CASE fdt[s] = NoRef
  BY <1>1, SchedFacts, ExactDrop DEF ReleaseFdt
<1>2. CASE fdt[s] # NoRef
  <2>1. fdt' = [fdt EXCEPT ![s] = NoRef] /\ fdRefs' = [fdRefs EXCEPT ![fdt[s]] = @ - 1]
    BY <1>2 DEF ReleaseFdt
  <2> QED  BY <1>2, <2>1, SchedFacts, ExactRelease
<1> QED  BY <1>1, <1>2

LEMMA ExactInit == Init => RefsMatchHolders
<1> SUFFICES ASSUME Init, NEW e \in Slot
             PROVE  /\ mmRefs[e] = Cardinality(Holders(mm, e))
                    /\ fdRefs[e] = Cardinality(Holders(fdt, e))
  BY DEF RefsMatchHolders
<1>1. /\ Holders(mm, e) = (IF e = 0 THEN {0} ELSE {})
      /\ Holders(fdt, e) = (IF e = 0 THEN {0} ELSE {})
  BY SlotFacts DEF Init, Holders
<1>2. Cardinality({}) = 0 /\ Cardinality({0}) = 1
  BY FS_EmptySet, FS_Singleton
<1> QED  BY <1>1, <1>2 DEF Init

LEMMA ExactStep ==
    ASSUME SchedInv, PlaceInv, RefsMatchHolders, Next
    PROVE  RefsMatchHolders'
<1>0. Exact(mmRefs, mm) /\ Exact(fdRefs, fdt)  BY DEF RefsMatchHolders, Exact
<1> SUFFICES Exact(mmRefs', mm') /\ Exact(fdRefs', fdt')  BY DEF RefsMatchHolders, Exact
<1>c. current \in Slot  BY SchedFacts
<1>t. ASSUME pc[current] \in SlotPoints PROVE T \in Slot  BY <1>t, SchedFacts
<1>1. CASE SpawnClaim
  <2>1. T \in Slot /\ mm[T] = NoRef /\ fdt[T] = NoRef /\ UNCHANGED <<mmRefs, fdRefs>>
    BY <1>t, <1>1 DEF SpawnClaim, At, PlaceInv, SlotPoints, CreationPoints, memVars
  <2>2. mm' = mm /\ fdt' = fdt
    BY <1>1, <2>1, SchedFacts, ExactDrop DEF SpawnClaim
  <2> QED  BY <1>0, <2>1, <2>2
<1>2. CASE \E p \in Pml4s, m \in Slot : SpawnSpace(p, m)
  <2>1. PICK p \in Pml4s, m \in Slot : SpawnSpace(p, m)  BY <1>2
  <2>2. T \in Slot /\ mm[T] = NoRef
    BY <1>t, <2>1 DEF SpawnSpace, At, PlaceInv, SlotPoints, CreationPoints
  <2>3. /\ mm' = [mm EXCEPT ![T] = m] /\ mmRefs' = [mmRefs EXCEPT ![m] = @ + 1]
        /\ UNCHANGED <<fdt, fdRefs>>
    BY <2>1, SchedFacts DEF SpawnSpace, FirstFree
  <2>4. Exact([mmRefs EXCEPT ![m] = @ + 1], [mm EXCEPT ![T] = m])
    BY <1>0, <2>2, SchedFacts, ExactTake
  <2> QED  BY <1>0, <2>3, <2>4
<1>3. CASE SpawnShareSpace
  <2>1. T \in Slot /\ mm[T] = NoRef /\ mm[current] \in Slot
    BY <1>c, <1>t, <1>3, SchedFacts, SlotFacts
       DEF SpawnShareSpace, At, PlaceInv, SlotPoints, CreationPoints
  <2>2. /\ mm' = [mm EXCEPT ![T] = mm[current]]
        /\ mmRefs' = [mmRefs EXCEPT ![mm[current]] = @ + 1] /\ UNCHANGED <<fdt, fdRefs>>
    BY <1>3 DEF SpawnShareSpace
  <2>3. Exact([mmRefs EXCEPT ![mm[current]] = @ + 1], [mm EXCEPT ![T] = mm[current]])
    BY <1>0, <2>1, SchedFacts, ExactTake
  <2> QED  BY <1>0, <2>2, <2>3
<1>4. CASE SpawnSpaceFails
  <2>1. T \in Slot /\ mm[T] = NoRef /\ UNCHANGED <<mmRefs, fdt, fdRefs>>
    BY <1>t, <1>4 DEF SpawnSpaceFails, At, PlaceInv, SlotPoints, CreationPoints
  <2>2. mm' = mm
    BY <1>4, <2>1, SchedFacts, ExactDrop DEF SpawnSpaceFails
  <2> QED  BY <1>0, <2>1, <2>2
<1>5. CASE \E f \in Slot : SpawnFdt(f)
  <2>1. PICK f \in Slot : SpawnFdt(f)  BY <1>5
  <2>2. T \in Slot /\ fdt[T] = NoRef
    BY <1>t, <2>1 DEF SpawnFdt, At, PlaceInv, SlotPoints, CreationPoints
  <2>3. /\ fdt' = [fdt EXCEPT ![T] = f] /\ fdRefs' = [fdRefs EXCEPT ![f] = @ + 1]
        /\ UNCHANGED <<mm, mmRefs>>
    BY <2>1 DEF SpawnFdt
  <2>4. Exact([fdRefs EXCEPT ![f] = @ + 1], [fdt EXCEPT ![T] = f])
    BY <1>0, <2>2, SchedFacts, ExactTake
  <2> QED  BY <1>0, <2>3, <2>4
<1>6. CASE SpawnFdtFails
  <2>1. T \in Slot /\ fdt[T] = NoRef /\ ReleaseMm(T) /\ UNCHANGED fdRefs
    BY <1>t, <1>6 DEF SpawnFdtFails, At, PlaceInv, SlotPoints, CreationPoints
  <2>2. fdt' = fdt
    BY <1>6, <2>1, SchedFacts, ExactDrop DEF SpawnFdtFails
  <2> QED  BY <1>0, <2>1, <2>2, ReleaseMmExact
<1>7. CASE ExitRelease \/ \E t \in Slot : KillRelease(t)
  BY <1>0, <1>c, <1>7, ReleaseMmExact, ReleaseFdtExact DEF ExitRelease, KillRelease
<1>8. CASE UNCHANGED <<mm, mmRefs, fdt, fdRefs>>
  BY <1>0, <1>8
<1>9. CASE \/ SpawnFull \/ SpawnFrame \/ SpawnLink \/ Load \/ ExitHalt \/ KillMark
           \/ Wait \/ Schedule \/ Halted
           \/ \E op \in Operations, s \in Slot : SpawnScan(op, s)
           \/ \E n \in Slot : ExitSwitch(n)
           \/ \E t \in Slot : Pend(t)
  <2>1. UNCHANGED <<mm, mmRefs, fdt, fdRefs>>
    BY <1>9 DEF SpawnFull, SpawnFrame, SpawnLink, Load, LoadBegin, LoadEnd, LoadFails,
       ExitHalt, KillMark, Wait, WaitBegin, WaitReturn, Schedule, Yield, Tick, Halted,
       SpawnScan, ExitSwitch, Pend, vars, slotVars, memVars
  <2> QED  BY <1>8, <2>1
<1> QED  BY <1>1, <1>2, <1>3, <1>4, <1>5, <1>6, <1>7, <1>9 DEF Next, Spawn, End

LEMMA ExactAlways ==
    ASSUME CallsAreAtomic
    PROVE  Spec => [](SchedInv /\ PlaceInv /\ RefsMatchHolders)
<1>1. SchedInv /\ PlaceInv /\ RefsMatchHolders /\ [Next]_vars => PlaceInv' /\ RefsMatchHolders'
  <2> SUFFICES ASSUME SchedInv, PlaceInv, RefsMatchHolders, [Next]_vars
               PROVE  PlaceInv' /\ RefsMatchHolders'
    OBVIOUS
  <2>1. CASE Next  BY <2>1, PlaceStep, ExactStep
  <2>2. CASE UNCHANGED vars
    <3>1. RefsMatchHolders'
      BY <2>2 DEF RefsMatchHolders, Holders, vars, slotVars, memVars
    <3>2. PlaceInv'
      BY <2>2 DEF PlaceInv, Released, Creating, Killing, T, L, vars, slotVars, cpuVars
    <3> QED  BY <3>1, <3>2
  <2> QED  BY <2>1, <2>2
<1>2. Spec => []SchedInv
  <2>1. Spec => [](IInv /\ RingInv /\ RunInv)  BY RunAlways DEF CallsAreAtomic
  <2>2. IInv /\ RingInv /\ RunInv => SchedInv  BY DEF SchedInv
  <2> QED  BY <2>1, <2>2, PTL
<1> QED  BY <1>1, <1>2, PlaceInit, ExactInit, PTL DEF Spec

\* The reference counts of address spaces and descriptor tables are exact,
\* whoever forks, clones, exits, fails to be created or is killed
\* (task_release_mm, task_release_fd_table).
THEOREM CountsAreExact == ASSUME CallsAreAtomic PROVE Spec => []RefsMatchHolders
BY ExactAlways, PTL

-----------------------------------------------------------------------------
(* The loader's CR3.                                                       *)

LEMMA LoaderKeepsStep ==
    ASSUME LoadYields = FALSE, IInv, LoaderKeepsSpace, Next
    PROVE  LoaderKeepsSpace'
<1>0. /\ current \in Slot /\ pc \in [Slot -> KernelPoints \cup {"user"}]
      /\ loc \in [Slot -> Local] /\ preempt \in Nat
      /\ \A s \in Slot : pc[s] = "load" => s = current /\ preempt > 0
      /\ pc[current] = "frame" => T \in Slot
  BY DEF IInv, TypeOK, CpuTypes, LocalTypes, SpaceInv, LoaderIsAlone, LocalsInRange, T, L
<1>g. ASSUME NEW point, Goto(point), point # "load", UNCHANGED current
      PROVE  LoaderKeepsSpace'
  BY <1>0, <1>g DEF Goto, LoaderKeepsSpace
<1>1. CASE \E p \in Pml4s : LoadBegin(p)
  <2>1. PICK p \in Pml4s : LoadBegin(p)  BY <1>1
  <2>2. /\ cr3' = p /\ UNCHANGED current
        /\ loc' = [loc EXCEPT ![current] = [NoLocal EXCEPT !.op = "ring3", !.pml4 = p, !.old = cr3]]
    BY <2>1 DEF LoadBegin
  <2> QED  BY <1>0, <2>2 DEF LoaderKeepsSpace, NoLocal
<1>2. CASE SpawnFrame
  <2>1. pc'[current] = "link" /\ UNCHANGED current
    BY <1>0, <1>2 DEF SpawnFrame, At, cpuVars
  <2> QED  BY <2>1 DEF LoaderKeepsSpace
<1>3. CASE \/ \E op \in Operations, s \in Slot : SpawnScan(op, s)
           \/ \E p \in Pml4s, m \in Slot : SpawnSpace(p, m)
           \/ \E f \in Slot : SpawnFdt(f)
           \/ \E t \in Slot : KillRelease(t)
           \/ \E i \in 0 .. nextId, s \in Slot : WaitBegin(i, s)
           \/ SpawnFull \/ SpawnClaim \/ SpawnShareSpace \/ SpawnSpaceFails
           \/ SpawnFdtFails \/ SpawnLink \/ LoadEnd \/ LoadFails \/ ExitRelease
           \/ KillMark \/ WaitReturn
  <2>1. UNCHANGED current
    BY <1>3 DEF SpawnScan, SpawnSpace, SpawnFdt, KillRelease, WaitBegin, SpawnFull,
       SpawnClaim, SpawnShareSpace, SpawnSpaceFails, SpawnFdtFails, SpawnLink, LoadEnd,
       LoadFails, ExitRelease, KillMark, WaitReturn, cpuVars
  <2>2. \/ Goto("claim") \/ Goto("fdt") \/ Goto("frame") \/ Goto("kill2") \/ Goto("wait")
        \/ Goto("mem") \/ Goto("scan") \/ Goto("exit2") \/ Goto("user")
    BY <1>3 DEF SpawnScan, SpawnSpace, SpawnFdt, KillRelease, WaitBegin, SpawnFull,
       SpawnClaim, SpawnShareSpace, SpawnSpaceFails, SpawnFdtFails, SpawnLink, LoadEnd,
       LoadFails, ExitRelease, KillMark, WaitReturn, Return
  <2> QED  BY <1>g, <2>1, <2>2
<1>4. CASE \/ \E n \in Slot : Yield(n) \/ Tick(n) \/ ExitSwitch(n)
           \/ ExitHalt \/ \E t \in Slot : Pend(t)
  <2>1. pc[current] # "load" /\ UNCHANGED pc /\ current' \in Slot
    BY <1>0, <1>4 DEF Yield, Tick, ExitSwitch, ExitHalt, Pend, SwitchTo, At, cpuVars
  <2>2. \A s \in Slot : pc[s] # "load"  BY <1>0, <2>1
  <2> QED  BY <2>1, <2>2 DEF LoaderKeepsSpace
<1>5. CASE Halted
  BY <1>5 DEF Halted, vars, cpuVars, memVars, LoaderKeepsSpace
<1> QED
  BY <1>1, <1>2, <1>3, <1>4, <1>5 DEF Next, Spawn, Load, End, Wait, Schedule

\* While the ELF loader fills a new image CR3 is that image's address space,
\* wherever the timer strikes: preemption is off (elf.c:596).
THEOREM LoaderWritesItsSpace == ASSUME LoadYields = FALSE PROVE Spec => []LoaderKeepsSpace
<1>1. Init => LoaderKeepsSpace
  BY SlotFacts DEF Init, LoaderKeepsSpace
<1>2. IInv /\ LoaderKeepsSpace /\ [Next]_vars => LoaderKeepsSpace'
  <2>1. CASE UNCHANGED vars
    BY <2>1 DEF LoaderKeepsSpace, vars, cpuVars, memVars
  <2> QED  BY <2>1, LoaderKeepsStep
<1> QED  BY <1>1, <1>2, IInvAlways, PTL DEF Spec

-----------------------------------------------------------------------------
(* Whose address space is in CR3.                                          *)

OwnInv ==
    /\ \A s \in Slot :
          ctx[s] /\ ~ Released(s) /\ ~ Creating(s) => mm[s] # NoRef
    /\ pc[current] \in {"fdt", "frame", "link"} => mm[T] # NoRef
    /\ pc[current] \in {"mem", "fdt", "frame"} => ~ ctx[T]
    /\ mm[current] # NoRef /\ pc[current] # "load" => cr3 = mmPml4[mm[current]]
    /\ pc[current] = "load" =>
          mm[current] # NoRef /\ L.old = mmPml4[mm[current]] /\ retired = {}
    /\ retired \subseteq {cr3}

LifeInv == SchedInv /\ PlaceInv /\ RefsMatchHolders

\* An entry that two slots point at has at least two references.
LEMMA TwoHolders ==
    ASSUME NEW f \in [Slot -> 0 .. MaxTasks], NEW refs \in [Slot -> Nat], Exact(refs, f),
           NEW s \in Slot, NEW t \in Slot, s # t, f[s] = f[t], f[s] # NoRef
    PROVE  refs[f[s]] >= 2
<1> DEFINE g == [f EXCEPT ![t] = NoRef]
<1>1. f[s] \in Slot /\ NoRef # f[s] /\ NoRef \in 0 .. MaxTasks  BY SlotFacts
<1>2. Cardinality(Holders(g, f[s])) = Cardinality(Holders(f, f[s])) - 1
  BY <1>1, HoldersExcept
<1>3. g \in [Slot -> 0 .. MaxTasks] /\ g[s] = f[s]  BY <1>1
<1> HIDE DEF g
<1>4. Cardinality(Holders(g, f[s])) >= 1 /\ Cardinality(Holders(g, f[s])) \in Nat
  BY <1>3, HoldersCount
<1>5. Cardinality(Holders(f, f[s])) \in Nat  BY HoldersCount
<1>6. refs[f[s]] = Cardinality(Holders(f, f[s]))  BY <1>1 DEF Exact
<1> QED  BY <1>2, <1>4, <1>5, <1>6

\* A slot that points at an entry keeps it in use, with an existing space.
LEMMA HeldSpaces ==
    ASSUME LifeInv, NEW s \in Slot, mm[s] # NoRef
    PROVE  /\ mm[s] \in Slot /\ mmRefs[mm[s]] > 0
           /\ mmPml4[mm[s]] \in live \ retired /\ mmPml4[mm[s]] # NoPml4
<1>1. mm[s] \in Slot /\ mm \in [Slot -> 0 .. MaxTasks] /\ mmRefs \in [Slot -> Nat]
  BY SlotFacts, SchedFacts DEF LifeInv
<1>2. Cardinality(Holders(mm, mm[s])) >= 1 /\ Cardinality(Holders(mm, mm[s])) \in Nat
  BY <1>1, HoldersCount
<1>3. mmRefs[mm[s]] > 0  BY <1>1, <1>2 DEF LifeInv, RefsMatchHolders
<1>4. EntriesOwnSpaces /\ SpaceTypes
  BY DEF LifeInv, SchedInv, IInv, TypeOK, SpaceInv
<1>5. mmPml4[mm[s]] \in live \ retired  BY <1>1, <1>3, <1>4 DEF EntriesOwnSpaces, Used
<1> QED  BY <1>1, <1>3, <1>4, <1>5, TaskAssumption DEF SpaceTypes

\* Giving another slot's reference back leaves the current task's space alone.
LEMMA ReleaseMmOther ==
    ASSUME LifeInv, NEW t \in Slot \ {current}, ReleaseMm(t), mm[current] # NoRef
    PROVE  mm'[current] = mm[current] /\ mmPml4'[mm[current]] = mmPml4[mm[current]]
<1>0. /\ current \in Slot /\ mm \in [Slot -> 0 .. MaxTasks] /\ mmRefs \in [Slot -> Nat]
      /\ Exact(mmRefs, mm)
  BY SchedFacts DEF LifeInv, RefsMatchHolders, Exact
<1>1. mm'[current] = mm[current]  BY <1>0 DEF ReleaseMm
<1>2. CASE mm[t] = NoRef \/ mmRefs[mm[t]] # 1
  BY <1>1, <1>2 DEF ReleaseMm
<1>3. CASE mm[t] # NoRef /\ mmRefs[mm[t]] = 1
  <2>1. mm[t] # mm[current]
    <3> SUFFICES ASSUME mm[t] = mm[current] PROVE FALSE  OBVIOUS
    <3>1. mmRefs[mm[t]] >= 2  BY <1>0, <1>3, TwoHolders
    <3> QED  BY <1>3, <3>1
  <2>2. mmPml4' = [mmPml4 EXCEPT ![mm[t]] = NoPml4]  BY <1>3 DEF ReleaseMm
  <2>3. mm[current] \in Slot /\ mmPml4 \in [Slot -> Pml4s \cup {KernelPml4, NoPml4}]
    BY HeldSpaces, <1>0 DEF LifeInv, SchedInv, IInv, TypeOK, SpaceTypes
  <2> QED  BY <1>1, <2>1, <2>2, <2>3
<1> QED  BY <1>2, <1>3

\* Giving a reference back retires at most the space in CR3.
LEMMA ReleaseMmRetires ==
    ASSUME LifeInv, retired \subseteq {cr3}, NEW s \in Slot, ReleaseMm(s)
    PROVE  retired' \subseteq {cr3}
BY DEF ReleaseMm, Retire

LEMMA OwnInit == Init => OwnInv
BY SlotFacts, TaskAssumption DEF Init, OwnInv, Released, Creating, Killing, CreationPoints, T, L, Slot

\* A living task: it has a context, it was not released, nobody is making it.
Living(s) == ctx[s] /\ ~ Released(s) /\ ~ Creating(s)

\* A step that leaves the spaces of the current task alone.
LEMMA OwnKeepsSpace ==
    ASSUME LifeInv, OwnInv, UNCHANGED <<current, cr3>>, retired' \subseteq {cr3},
           pc[current] # "load", pc'[current] # "load",
           mm'[current] \in {mm[current], NoRef},
           mm'[current] # NoRef => mmPml4'[mm[current]] = mmPml4[mm[current]],
           \A s \in Slot : Living(s)' => (Living(s) /\ mm'[s] = mm[s]) \/ mm'[s] # NoRef,
           pc'[current] \in {"fdt", "frame", "link"} => mm'[T'] # NoRef,
           pc'[current] \in {"mem", "fdt", "frame"} => ~ ctx'[T']
    PROVE  OwnInv'
<1>1. \A s \in Slot : Living(s)' => mm'[s] # NoRef
  BY DEF OwnInv, Living
<1>2. mm'[current] # NoRef => cr3' = mmPml4'[mm'[current]]
  BY DEF OwnInv
<1> QED  BY <1>1, <1>2 DEF OwnInv, Living

\* Outside creations and kills a step makes nobody live who did not.
LEMMA OwnQuiet ==
    ASSUME LifeInv, OwnInv, UNCHANGED <<current, taskCount, ctx>>,
           pc[current] \notin SlotPoints \cup {"load", "exit2"},
           pc'[current] \notin SlotPoints \cup {"load"},
           \A s \in Slot : s # current => pc'[s] = pc[s],
           UNCHANGED <<state, cr3, retired, mm, mmPml4>>
    PROVE  OwnInv'
<1>0. current \in Slot  BY SchedFacts DEF LifeInv
<1>1. \A s \in Slot : ~ Creating(s) /\ ~ Killing(s) /\ ~ Creating(s)' /\ ~ Killing(s)'
  BY DEF Creating, Killing, SlotPoints
<1>2. \A s \in Slot : Living(s)' => Living(s)
  BY <1>0, <1>1 DEF Living, Released
<1>3. retired' \subseteq {cr3}  BY DEF OwnInv
<1> QED  BY <1>2, <1>3, OwnKeepsSpace DEF SlotPoints, CreationPoints

LEMMA OwnSwitch ==
    ASSUME LifeInv, OwnInv, UNCHANGED <<taskCount, pc, loc, mm, mmPml4, ctx>>,
           pc[current] \notin SlotPoints \cup {"load"}, NEW n \in Slot, SwitchTo(n),
           \A s \in Slot : state[s] = "TERMINATED" => state'[s] = "TERMINATED"
    PROVE  OwnInv'
<1>0. /\ current \in Slot /\ current' = n
      /\ \A s \in Slot : pc[s] \notin SlotPoints \cup {"load"}
  BY SchedFacts DEF LifeInv, PlaceInv, SlotPoints, SwitchTo
<1>1. \A s \in Slot : ~ Creating(s) /\ ~ Killing(s) /\ ~ Creating(s)' /\ ~ Killing(s)'
  BY <1>0 DEF Creating, Killing, SlotPoints
<1>2. \A s \in Slot : Living(s)' => mm'[s] # NoRef
  <2> SUFFICES ASSUME NEW s \in Slot, Living(s)' PROVE mm[s] # NoRef  OBVIOUS
  <2>1. Living(s)  BY <1>1 DEF Living, Released
  <2> QED  BY <2>1 DEF OwnInv, Living
<1>3. mm[n] # NoRef => cr3' = mmPml4[mm[n]]
  <2> HAVE mm[n] # NoRef
  <2> QED  BY HeldSpaces DEF SwitchTo, Cr3Of, HasSpace
<1>4. retired' \subseteq {cr3'}  BY DEF SwitchTo
<1> QED  BY <1>0, <1>2, <1>3, <1>4 DEF OwnInv, Living, SlotPoints, CreationPoints

LEMMA OwnStep ==
    ASSUME CallsAreAtomic, LifeInv, OwnInv, Next
    PROVE  OwnInv'
<1>s. SchedInv /\ PlaceInv  BY DEF LifeInv
<1>0. current \in Slot /\ L \in Local  BY <1>s, SchedFacts
<1>g. ASSUME NEW point, Goto(point)
      PROVE  pc'[current] = point /\ \A s \in Slot : s # current => pc'[s] = pc[s]
  BY <1>0, <1>s, <1>g, SchedFacts DEF Goto
<1>t. ASSUME pc[current] \in CreationPoints
      PROVE  T \in Slot \ {current} /\ pc[current] # "load"
  BY <1>s, <1>t, SchedFacts DEF SlotPoints, CreationPoints
<1>f. retired \subseteq {cr3}  BY DEF OwnInv
<1>1. CASE \E op \in Operations, s \in Slot : SpawnScan(op, s)
  <2>1. PICK op \in Operations, s \in Slot : SpawnScan(op, s)  BY <1>1
  <2>2. /\ pc[current] \in {"user", "scan"} /\ Goto("claim")
        /\ loc' = [loc EXCEPT ![current] =
                      [L EXCEPT !.op = op, !.slot = s, !.reuse = s < taskCount]]
        /\ UNCHANGED <<state, mm, ctx, mmPml4, retired, cr3, taskCount, current>>
    BY <2>1 DEF SpawnScan, At, slotVars, memVars, cpuVars
  <2>3. \A t \in Slot : ~ Creating(t) /\ ~ Killing(t)
    BY <2>2 DEF Creating, Killing, CreationPoints
  <2>4. \A t \in Slot : Living(t)' => Living(t)
    BY <1>0, <1>g, <2>2, <2>3 DEF Living, Released
  <2> QED  BY <1>f, <1>g, <2>2, <2>4, OwnKeepsSpace
<1>2. CASE SpawnFull \/ WaitReturn \/ \E i \in 0 .. nextId, s \in Slot : WaitBegin(i, s)
  <2>1. /\ UNCHANGED <<current, taskCount, ctx, state, cr3, retired, mm, mmPml4>>
        /\ pc[current] \notin SlotPoints \cup {"load", "exit2"}
        /\ Goto("user") \/ Goto("wait")
    BY <1>2 DEF SpawnFull, WaitReturn, WaitBegin, Return, At, slotVars, memVars, cpuVars,
       SlotPoints, CreationPoints
  <2> QED  BY <1>g, <2>1, OwnQuiet DEF SlotPoints, CreationPoints
<1>3. CASE SpawnClaim
  <2>1. /\ pc[current] = "claim" /\ Goto("mem")
        /\ UNCHANGED <<taskCount, current, loc, mmPml4, retired, cr3>>
        /\ state' = [state EXCEPT ![T] = "READY"] /\ ctx' = [ctx EXCEPT ![T] = T = current]
        /\ mm' = mm \/ mm' = [mm EXCEPT ![T] = NoRef]
    BY <1>3 DEF SpawnClaim, At, cpuVars, memVars
  <2>2. T \in Slot \ {current} /\ T' = T  BY <1>t, <2>1 DEF T, L, CreationPoints
  <2>3. \A s \in Slot : Living(s)' => Living(s) /\ mm'[s] = mm[s]
    BY <1>0, <1>s, <1>g, <2>1, <2>2, SchedFacts DEF Living, Released, Creating, Killing, CreationPoints
  <2>4. ~ ctx'[T'] /\ mm'[current] = mm[current]
    BY <1>0, <1>s, <2>1, <2>2, SchedFacts
  <2> QED  BY <1>f, <1>g, <2>1, <2>3, <2>4, OwnKeepsSpace
<1>4. CASE \E p \in Pml4s, m \in Slot : SpawnSpace(p, m)
  <2>1. PICK p \in Pml4s, m \in Slot : SpawnSpace(p, m)  BY <1>4
  <2>2. /\ pc[current] = "mem" /\ Goto("fdt")
        /\ UNCHANGED <<taskCount, current, ctx, state, retired, cr3>>
        /\ loc' = [loc EXCEPT ![current].pml4 = NoPml4]
        /\ mm' = [mm EXCEPT ![T] = m] /\ mmPml4' = [mmPml4 EXCEPT ![m] = p] /\ mmRefs[m] = 0
    BY <2>1 DEF SpawnSpace, At, cpuVars, FirstFree
  <2>2a. T' = T  BY <1>0, <1>s, <2>2, SchedFacts DEF T, L, Local
  <2>3. T \in Slot \ {current} /\ T' = T /\ ~ ctx[T] /\ m # NoRef
    BY <1>t, <2>2, <2>2a, SlotFacts DEF CreationPoints, OwnInv
  <2>4. \A s \in Slot : Living(s)' => Living(s) /\ mm'[s] = mm[s]
    BY <1>0, <1>s, <1>g, <2>2, <2>3, SchedFacts DEF Living, Released, Creating, Killing, CreationPoints
  <2>5. mm'[T'] # NoRef /\ mm'[current] = mm[current]
    BY <1>0, <1>s, <2>2, <2>3, SchedFacts
  <2>6. mm[current] # NoRef => mmPml4'[mm[current]] = mmPml4[mm[current]]
    <3> HAVE mm[current] # NoRef
    <3>1. mm[current] # m  BY <1>0, <2>2, HeldSpaces
    <3>2. mmPml4 \in [Slot -> Pml4s \cup {KernelPml4, NoPml4}] /\ mm[current] \in Slot
      BY <1>0, HeldSpaces DEF LifeInv, SchedInv, IInv, TypeOK, SpaceTypes
    <3> QED  BY <2>2, <3>1, <3>2
  <2> QED  BY <1>f, <1>g, <1>t, <2>2, <2>3, <2>4, <2>5, <2>6, OwnKeepsSpace DEF CreationPoints
<1>5. CASE SpawnShareSpace
  <2>1. /\ pc[current] = "mem" /\ Goto("fdt") /\ mm[current] # NoRef
        /\ UNCHANGED <<taskCount, current, ctx, loc, state, retired, cr3, mmPml4>>
        /\ mm' = [mm EXCEPT ![T] = mm[current]]
    BY <1>5 DEF SpawnShareSpace, At, cpuVars
  <2>2. T \in Slot \ {current} /\ T' = T /\ ~ ctx[T]
    BY <1>t, <2>1 DEF CreationPoints, OwnInv, T, L
  <2>3. \A s \in Slot : Living(s)' => Living(s) /\ mm'[s] = mm[s]
    BY <1>0, <1>s, <1>g, <2>1, <2>2, SchedFacts DEF Living, Released, Creating, Killing, CreationPoints
  <2>4. mm'[T'] # NoRef /\ mm'[current] = mm[current]
    BY <1>0, <1>s, <2>1, <2>2, SchedFacts
  <2> QED  BY <1>f, <1>g, <1>t, <2>1, <2>2, <2>3, <2>4, OwnKeepsSpace DEF CreationPoints
<1>6. CASE \E f \in Slot : SpawnFdt(f)
  <2>1. /\ pc[current] = "fdt" /\ Goto("frame")
        /\ UNCHANGED <<taskCount, current, ctx, loc, state, retired, cr3, mm, mmPml4>>
    BY <1>6 DEF SpawnFdt, At, cpuVars
  <2>2. T \in Slot \ {current} /\ T' = T /\ ~ ctx[T] /\ mm[T] # NoRef
    BY <1>t, <2>1 DEF CreationPoints, OwnInv, T, L
  <2>3. \A s \in Slot : Living(s)' => Living(s)
    BY <1>0, <1>g, <2>1, <2>2 DEF Living, Released, Creating, Killing, CreationPoints
  <2> QED  BY <1>f, <1>g, <1>t, <2>1, <2>2, <2>3, OwnKeepsSpace DEF CreationPoints
<1>7. CASE SpawnSpaceFails \/ SpawnFdtFails
  <2>1. /\ pc[current] \in {"mem", "fdt"} /\ Goto("user")
        /\ UNCHANGED <<taskCount, current, ctx, cr3>>
        /\ state' = state \/ state' = [state EXCEPT ![T] = "TERMINATED"]
    BY <1>7 DEF SpawnSpaceFails, SpawnFdtFails, Return, At, cpuVars
  <2>2. T \in Slot \ {current} /\ ~ ctx[T]
    BY <1>t, <2>1 DEF CreationPoints, OwnInv
  <2>3. \A s \in Slot : s # T => mm'[s] = mm[s]
    BY <1>7, <1>s, <2>2, SchedFacts DEF SpawnSpaceFails, SpawnFdtFails, ReleaseMm
  <2>4. \A s \in Slot : Living(s)' => Living(s) /\ mm'[s] = mm[s]
    BY <1>0, <1>s, <1>g, <2>1, <2>2, <2>3, SchedFacts
       DEF Living, Released, Creating, Killing, CreationPoints
  <2>5. mm[current] # NoRef => mmPml4'[mm[current]] = mmPml4[mm[current]]
    BY <1>7, <2>2, ReleaseMmOther DEF SpawnSpaceFails, SpawnFdtFails
  <2>6. retired' \subseteq {cr3}
    BY <1>7, <1>f, <2>2, ReleaseMmRetires DEF SpawnSpaceFails, SpawnFdtFails
  <2> QED  BY <1>0, <1>g, <2>1, <2>2, <2>3, <2>4, <2>5, <2>6, OwnKeepsSpace
<1>8. CASE SpawnFrame
  <2>1. pc[current] = "frame"  BY <1>8 DEF SpawnFrame, At
  <2>2. T \in Slot \ {current} /\ mm[T] # NoRef
    BY <1>t, <2>1 DEF CreationPoints, OwnInv
  <2>3. /\ pc' = [pc EXCEPT ![T] = "user", ![current] = "link"]
        /\ loc'[current] = L /\ ctx' = [ctx EXCEPT ![T] = T # current]
        /\ UNCHANGED <<taskCount, current, state, retired, cr3, mm, mmPml4>>
    BY <1>0, <1>s, <1>8, <2>2, SchedFacts DEF SpawnFrame, L, memVars, cpuVars
  <2>4. /\ T' = T /\ pc'[current] = "link" /\ pc'[T] = "user"
        /\ \A s \in Slot : s # T /\ s # current => pc'[s] = pc[s]
    BY <1>0, <1>s, <2>2, <2>3, SchedFacts DEF T, L
  <2>5. \A s \in Slot : Living(s)' => Living(s)
    BY <1>0, <1>s, <2>1, <2>2, <2>3, <2>4, SchedFacts
       DEF Living, Released, Creating, Killing, CreationPoints
  <2> QED  BY <1>f, <1>t, <2>1, <2>2, <2>3, <2>4, <2>5, OwnKeepsSpace DEF CreationPoints
<1>9. CASE SpawnLink
  <2>1. /\ pc[current] = "link" /\ Goto("user")
        /\ UNCHANGED <<state, ctx, current, retired, cr3, mm, mmPml4>>
        /\ taskCount' = IF L.reuse THEN taskCount ELSE taskCount + 1
    BY <1>9 DEF SpawnLink, At, memVars, cpuVars, Return
  <2>2. /\ T \in Slot \ {current} /\ mm[T] # NoRef /\ T \in Nat /\ taskCount \in Nat
        /\ T <= taskCount /\ L.reuse = (T < taskCount)
    BY <1>t, <1>s, <2>1, SchedFacts DEF CreationPoints, OwnInv
  <2>3. \A s \in Slot : s # T => (s < taskCount' => s < taskCount)
    <3>1. taskCount' = IF T < taskCount THEN taskCount ELSE taskCount + 1
      BY <2>1, <2>2
    <3>2. PICK t, c, d : t = T /\ c = taskCount /\ d = taskCount'  OBVIOUS
    <3>3. \A s \in Slot : s \in Nat  BY <1>s, SchedFacts
    <3> QED  BY <2>2, <3>1, <3>2, <3>3
  <2>3a. taskCount' \in Nat /\ taskCount' >= taskCount
    <3>1. PICK b : b = L.reuse  OBVIOUS
    <3> QED  BY <2>1, <2>2, <3>1
  <2>4. \A s \in Slot : Living(s)' => Living(s) \/ mm'[s] # NoRef
    <3> SUFFICES ASSUME NEW s \in Slot, Living(s)', s # T PROVE Living(s)
      BY <2>1, <2>2
    <3>1. s \in Nat  BY <1>s, SchedFacts
    <3> QED  BY <1>0, <1>g, <2>1, <2>2, <2>3, <2>3a, <3>1 DEF Living, Released, Creating, Killing, CreationPoints
  <2> QED  BY <1>f, <1>g, <1>t, <2>1, <2>2, <2>4, OwnKeepsSpace DEF CreationPoints
<1>10. CASE \E p \in Pml4s : LoadBegin(p)
  <2>1. PICK p \in Pml4s : LoadBegin(p)  BY <1>10
  <2>2. /\ pc[current] = "user" /\ Goto("load") /\ cr3' = p /\ p \notin live
        /\ ctx[current] /\ ~ halted
        /\ UNCHANGED <<taskCount, current, ctx, state, retired, mm, mmPml4>>
        /\ loc' = [loc EXCEPT ![current] = [NoLocal EXCEPT !.op = "ring3", !.pml4 = p, !.old = cr3]]
    BY <2>1 DEF LoadBegin, At, Runs, slotVars
  <2>3. \A s \in Slot : ~ Creating(s) /\ ~ Killing(s) /\ ~ Creating(s)' /\ ~ Killing(s)'
    BY <1>g, <2>2 DEF Creating, Killing, CreationPoints
  <2>4. Living(current)
    BY <1>0, <1>s, <2>2, <2>3, SchedFacts DEF Living, Released
  <2>5. mm[current] # NoRef /\ cr3 = mmPml4[mm[current]]
    BY <1>0, <2>2, <2>4 DEF OwnInv, Living
  <2>6. retired = {}
    <3>1. mmPml4[mm[current]] \notin retired  BY <1>0, <2>5, HeldSpaces
    <3> QED  BY <1>f, <2>5, <3>1
  <2>7. \A s \in Slot : Living(s)' => Living(s)
    BY <1>0, <1>g, <2>2, <2>3 DEF Living, Released
  <2>8. L'.old = cr3  BY <1>0, <1>s, <2>2, SchedFacts DEF L, NoLocal
  <2> QED  BY <1>0, <1>g, <2>2, <2>5, <2>6, <2>7, <2>8 DEF OwnInv, Living
<1>11. CASE LoadEnd \/ LoadFails
  <2>1. /\ pc[current] = "load" /\ cr3' = L.old
        /\ Goto("scan") \/ Goto("user")
        /\ UNCHANGED <<taskCount, current, ctx, state, retired, mm, mmPml4>>
    BY <1>11 DEF LoadEnd, LoadFails, At, Return, slotVars
  <2>2. \A s \in Slot : ~ Creating(s) /\ ~ Killing(s) /\ ~ Creating(s)' /\ ~ Killing(s)'
    BY <1>g, <2>1 DEF Creating, Killing, CreationPoints
  <2>3. \A s \in Slot : Living(s)' => Living(s)
    BY <1>0, <1>g, <2>1, <2>2 DEF Living, Released
  <2>4. mm[current] # NoRef /\ L.old = mmPml4[mm[current]]  BY <2>1 DEF OwnInv
  <2>5. retired = {}  BY <2>1 DEF OwnInv
  <2> QED  BY <1>0, <1>g, <2>1, <2>3, <2>4, <2>5 DEF OwnInv, Living
<1>12. CASE ExitRelease
  <2>1. /\ pc[current] = "user" /\ Goto("exit2") /\ ReleaseMm(current)
        /\ UNCHANGED <<state, ctx, taskCount, current, cr3>>
    BY <1>12 DEF ExitRelease, At, cpuVars
  <2>2. mm'[current] = NoRef /\ \A s \in Slot : s # current => mm'[s] = mm[s]
    BY <1>0, <1>s, <2>1, SchedFacts DEF ReleaseMm
  <2>3. \A s \in Slot : Living(s)' => Living(s) /\ mm'[s] = mm[s]
    BY <1>0, <1>g, <2>1, <2>2 DEF Living, Released, Creating, Killing, CreationPoints
  <2>4. retired' \subseteq {cr3}  BY <1>0, <1>f, <2>1, ReleaseMmRetires
  <2> QED  BY <1>g, <2>1, <2>2, <2>3, <2>4, OwnKeepsSpace
<1>13. CASE ExitHalt
  <2>1. /\ pc[current] = "exit2" /\ UNCHANGED <<taskCount, current, pc, loc, ctx, mm, mmPml4, retired, cr3>>
        /\ state' = [state EXCEPT ![current] = "TERMINATED"]
    BY <1>13 DEF ExitHalt, At, memVars
  <2>2. \A s \in Slot : Living(s)' => Living(s)
    BY <1>0, <1>s, <2>1, SchedFacts DEF Living, Released, Creating, Killing, T, L
  <2> QED  BY <1>f, <2>1, <2>2, OwnKeepsSpace
<1>14. CASE \E t \in Slot : KillRelease(t)
  <2>1. PICK t \in Slot : KillRelease(t)  BY <1>14
  <2>2. /\ pc[current] = "user" /\ Goto("kill2") /\ ReleaseMm(t) /\ t # current
        /\ loc' = [loc EXCEPT ![current].slot = t]
        /\ UNCHANGED <<state, ctx, taskCount, current, cr3>>
    BY <2>1 DEF KillRelease, Killable, At, cpuVars
  <2>3. \A s \in Slot : s # t => mm'[s] = mm[s]
    BY <1>s, <2>2, SchedFacts DEF ReleaseMm
  <2>4. T' = t  BY <1>0, <1>s, <2>2, SchedFacts DEF T, L, Local
  <2>5. \A s \in Slot : Living(s)' => Living(s) /\ mm'[s] = mm[s]
    BY <1>0, <1>g, <2>2, <2>3, <2>4 DEF Living, Released, Creating, Killing, CreationPoints
  <2>6. retired' \subseteq {cr3}  BY <1>f, <2>2, ReleaseMmRetires
  <2>7. mm[current] # NoRef => mmPml4'[mm[current]] = mmPml4[mm[current]]
    BY <2>2, ReleaseMmOther
  <2> QED  BY <1>0, <1>g, <2>2, <2>3, <2>5, <2>6, <2>7, OwnKeepsSpace
<1>15. CASE KillMark
  <2>1. /\ pc[current] = "kill2" /\ Goto("user")
        /\ UNCHANGED <<ctx, mm, mmPml4, retired, cr3, taskCount, current>>
        /\ state' = [state EXCEPT ![T] = "TERMINATED"]
    BY <1>15 DEF KillMark, At, memVars, cpuVars, Return
  <2>2. T \in Slot  BY <1>s, <2>1, SchedFacts DEF SlotPoints
  <2>3. \A s \in Slot : Living(s)' => Living(s)
    BY <1>0, <1>s, <1>g, <2>1, <2>2, SchedFacts DEF Living, Released, Creating, Killing, CreationPoints
  <2> QED  BY <1>f, <1>g, <2>1, <2>3, OwnKeepsSpace
<1>16. CASE \E t \in Slot : Pend(t)
  BY <1>16 DEF Pend, CallsAreAtomic, NoFatalSignals
<1>17. CASE \E n \in Slot : Yield(n) \/ Tick(n)
  <2>1. PICK n \in Slot : Yield(n) \/ Tick(n)  BY <1>17
  <2>2. /\ UNCHANGED <<taskCount, pc, loc, mm, mmPml4, ctx>> /\ SwitchTo(n)
        /\ state' = SwitchStates(n)
    BY <2>1 DEF Yield, Tick
  <2>3. pc[current] \notin SlotPoints \cup {"load"}
    BY <1>0, <1>s, <2>1, SchedFacts
       DEF Yield, Tick, At, CallsAreAtomic, CreationIsAtomic, KillIsAtomic, SlotPoints, CreationPoints
  <2>4. state[n] \in {"READY", "RUNNING"}
    BY <2>1 DEF Yield, Tick, SchedNext, OtherReady, TickNext, TickReady, ReadySlots
  <2>5. \A s \in Slot : state[s] = "TERMINATED" => state'[s] = "TERMINATED"
    BY <1>s, <2>2, <2>4, SchedFacts DEF SwitchStates
  <2> QED  BY <2>2, <2>3, <2>4, <2>5, OwnSwitch
<1>18. CASE \E n \in Slot : ExitSwitch(n)
  <2>1. PICK n \in Slot : ExitSwitch(n)  BY <1>18
  <2>2. /\ UNCHANGED <<taskCount, pc, loc, mm, mmPml4, ctx>> /\ SwitchTo(n)
        /\ pc[current] = "exit2" /\ state[n] = "READY" /\ n # current
        /\ state' = [state EXCEPT ![current] = "TERMINATED", ![n] = "RUNNING"]
    BY <2>1 DEF ExitSwitch, At, SchedNext, OtherReady, ReadySlots
  <2>3. \A s \in Slot : state[s] = "TERMINATED" => state'[s] = "TERMINATED"
    BY <1>s, <2>2, SchedFacts
  <2> QED  BY <2>2, <2>3, OwnSwitch DEF SlotPoints, CreationPoints
<1>19. CASE Halted
  BY <1>19 DEF Halted, vars, slotVars, memVars, cpuVars, OwnInv, Released, Creating, Killing, T, L
<1> QED
  BY <1>1, <1>2, <1>3, <1>4, <1>5, <1>6, <1>7, <1>8, <1>9, <1>10, <1>11, <1>12, <1>13,
     <1>14, <1>15, <1>16, <1>17, <1>18, <1>19 DEF Next, Spawn, Load, End, Wait, Schedule

LEMMA OwnAlways == ASSUME CallsAreAtomic PROVE Spec => [](LifeInv /\ OwnInv)
<1>1. LifeInv /\ OwnInv /\ [Next]_vars => OwnInv'
  <2> SUFFICES ASSUME LifeInv, OwnInv, [Next]_vars PROVE OwnInv'  OBVIOUS
  <2>1. CASE Next  BY <2>1, OwnStep
  <2>2. CASE UNCHANGED vars
    BY <2>2 DEF vars, slotVars, memVars, cpuVars, OwnInv, Released, Creating, Killing, T, L
  <2> QED  BY <2>1, <2>2
<1>2. Spec => []LifeInv
  <2>1. SchedInv /\ PlaceInv /\ RefsMatchHolders => LifeInv  BY DEF LifeInv
  <2> QED  BY <2>1, ExactAlways, PTL
<1> QED  BY <1>1, <1>2, OwnInit, PTL DEF Spec

\* A task that executes on a context of its own has an address space, and it is
\* the one in CR3 (task_yield, task_schedule, task_exit, elf_load).
THEOREM ContextRunsInOwnSpace ==
    ASSUME CallsAreAtomic
    PROVE  Spec => [](ctx[current] => RunsInOwnSpace)
<1>1. ASSUME LifeInv, OwnInv, ctx[current] PROVE RunsInOwnSpace
  <2> SUFFICES ASSUME pc[current] = "user", state[current] = "RUNNING"
               PROVE  mm[current] # NoRef /\ cr3 = mmPml4[mm[current]]
    BY DEF RunsInOwnSpace
  <2>1. ~ Released(current) /\ ~ Creating(current)
    BY <1>1, SchedFacts DEF LifeInv, Released, Creating, Killing, CreationPoints
  <2>2. mm[current] # NoRef  BY <1>1, <2>1, SchedFacts DEF LifeInv, OwnInv
  <2> QED  BY <1>1, <2>2 DEF OwnInv
<1> QED  BY <1>1, OwnAlways, PTL

-----------------------------------------------------------------------------
(* Contexts.  A creation other than fork that runs out of frames or of      *)
(* table entries leaves its slot TASK_READY without a context; where that   *)
(* does not happen, every task that can run has one.                        *)

CreationFails == (SpawnSpaceFails \/ SpawnFdtFails) /\ L.op # "fork"

CtxInv ==
    /\ ctx[current]
    /\ \A s \in Slot :
          s < taskCount /\ state[s] # "TERMINATED" /\ ~ Creating(s) => ctx[s]
    /\ pc[current] = "link" => ctx[T]

LEMMA CtxInit == Init => CtxInv
<1>1. \A s \in Slot : s < 1 => s = 0  BY TaskAssumption DEF Slot
<1>2. ASSUME Init PROVE ctx[0] /\ current = 0 /\ taskCount = 1 /\ pc[0] = "user"
  BY <1>2, SlotFacts DEF Init
<1> QED  BY <1>1, <1>2 DEF CtxInv

LEMMA CtxStep ==
    ASSUME CallsAreAtomic, LifeInv, CtxInv, Next, ~ CreationFails
    PROVE  CtxInv'
<1>s. SchedInv /\ PlaceInv  BY DEF LifeInv
<1>0. current \in Slot /\ L \in Local  BY <1>s, SchedFacts
<1>g. ASSUME NEW point, Goto(point)
      PROVE  pc'[current] = point /\ \A s \in Slot : s # current => pc'[s] = pc[s]
  BY <1>0, <1>s, <1>g, SchedFacts DEF Goto
<1>t. ASSUME pc[current] \in SlotPoints PROVE T \in Slot \ {current}
  BY <1>s, <1>t, SchedFacts
\* A step of the current task outside creations.
<1>q. ASSUME UNCHANGED <<ctx, taskCount, current>>,
             pc[current] \notin CreationPoints, pc'[current] # "link",
             \A s \in Slot : state[s] = "TERMINATED" => state'[s] = "TERMINATED"
      PROVE  CtxInv'
  BY <1>q DEF CtxInv, Creating
\* A step inside a creation, which stays at the same slot.
<1>c. ASSUME UNCHANGED <<taskCount, current>>, pc[current] \in CreationPoints,
             pc'[current] \in CreationPoints \ {"link"}, loc'[current].slot = T,
             \A s \in Slot : s # T => ctx'[s] = ctx[s] /\ state'[s] = state[s]
      PROVE  CtxInv'
  <2>1. T' = T /\ T # current  BY <1>c, <1>t DEF T, L, SlotPoints
  <2> QED  BY <1>0, <1>c, <2>1 DEF CtxInv, Creating
<1>1. CASE \E op \in Operations, s \in Slot : SpawnScan(op, s)
  <2>1. PICK op \in Operations, s \in Slot : SpawnScan(op, s)  BY <1>1
  <2>2. /\ pc[current] \in {"user", "scan"} /\ Goto("claim")
        /\ UNCHANGED <<state, ctx, taskCount, current>>
    BY <2>1 DEF SpawnScan, At, slotVars, cpuVars
  <2> QED  BY <1>g, <1>q, <2>2 DEF CreationPoints
<1>2. CASE \/ SpawnFull \/ LoadEnd \/ LoadFails \/ WaitReturn \/ ExitRelease
           \/ \E p \in Pml4s : LoadBegin(p)
           \/ \E t \in Slot : KillRelease(t)
           \/ \E i \in 0 .. nextId, s \in Slot : WaitBegin(i, s)
  <2>1. /\ UNCHANGED <<state, ctx, taskCount, current>> /\ pc[current] \notin CreationPoints
        /\ \/ Goto("user") \/ Goto("scan") \/ Goto("load") \/ Goto("exit2")
           \/ Goto("kill2") \/ Goto("wait")
    BY <1>2 DEF SpawnFull, LoadEnd, LoadFails, WaitReturn, ExitRelease, LoadBegin, KillRelease,
       WaitBegin, Return, At, CreationPoints, slotVars, cpuVars
  <2> QED  BY <1>g, <1>q, <2>1
<1>3. CASE SpawnClaim
  <2>1. /\ pc[current] = "claim" /\ Goto("mem") /\ UNCHANGED <<taskCount, current, loc>>
        /\ state' = [state EXCEPT ![T] = "READY"] /\ ctx' = [ctx EXCEPT ![T] = T = current]
    BY <1>3 DEF SpawnClaim, At, cpuVars
  <2>2. \A s \in Slot : s # T => ctx'[s] = ctx[s] /\ state'[s] = state[s]
    BY <1>s, <2>1, SchedFacts
  <2> QED  BY <1>g, <1>c, <2>1, <2>2 DEF CreationPoints, T, L
<1>4. CASE \E p \in Pml4s, m \in Slot : SpawnSpace(p, m)
  <2>1. /\ pc[current] = "mem" /\ Goto("fdt") /\ loc' = [loc EXCEPT ![current].pml4 = NoPml4]
        /\ UNCHANGED <<taskCount, current, state, ctx>>
    BY <1>4 DEF SpawnSpace, At, cpuVars
  <2>2. loc'[current].slot = T  BY <1>0, <1>s, <2>1, SchedFacts DEF T, L, Local
  <2> QED  BY <1>g, <1>c, <2>1, <2>2 DEF CreationPoints
<1>5. CASE SpawnShareSpace \/ \E f \in Slot : SpawnFdt(f)
  <2>1. /\ pc[current] \in CreationPoints
        /\ Goto("fdt") \/ Goto("frame")
        /\ UNCHANGED <<taskCount, current, state, ctx, loc>>
    BY <1>5 DEF SpawnShareSpace, SpawnFdt, At, cpuVars, CreationPoints
  <2> QED  BY <1>g, <1>c, <2>1 DEF CreationPoints, T, L
<1>6. CASE SpawnSpaceFails \/ SpawnFdtFails
  <2>1. /\ pc[current] \in CreationPoints /\ Goto("user") /\ UNCHANGED <<taskCount, current, ctx>>
        /\ state' = [state EXCEPT ![T] = "TERMINATED"]
    BY <1>6 DEF SpawnSpaceFails, SpawnFdtFails, CreationFails, At, cpuVars, Return, CreationPoints
  <2>2. T \in Slot  BY <1>t, <2>1 DEF SlotPoints
  <2>3. \A s \in Slot : state'[s] # "TERMINATED" => s # T /\ state[s] # "TERMINATED"
    BY <1>s, <2>1, <2>2, SchedFacts
  <2> QED  BY <1>g, <2>1, <2>2, <2>3 DEF CtxInv, Creating
<1>7. CASE SpawnFrame
  <2>1. pc[current] = "frame" /\ T \in Slot \ {current}
    BY <1>t, <1>7 DEF SpawnFrame, At, SlotPoints, CreationPoints
  <2>2. /\ pc' = [pc EXCEPT ![T] = "user", ![current] = "link"]
        /\ loc'[current] = L /\ ctx' = [ctx EXCEPT ![T] = T # current]
        /\ UNCHANGED <<taskCount, current, state>>
    BY <1>0, <1>s, <1>7, <2>1, SchedFacts DEF SpawnFrame, L, cpuVars
  <2>3. T' = T /\ ctx'[T] /\ \A s \in Slot : s # T => ctx'[s] = ctx[s]
    BY <1>0, <1>s, <2>1, <2>2, SchedFacts DEF T, L
  <2> QED  BY <1>0, <2>1, <2>2, <2>3 DEF CtxInv, Creating
<1>8. CASE SpawnLink
  <2>1. /\ pc[current] = "link" /\ Goto("user") /\ UNCHANGED <<state, ctx, current>>
        /\ taskCount' = IF L.reuse THEN taskCount ELSE taskCount + 1
    BY <1>8 DEF SpawnLink, At, cpuVars, Return
  <2>2. /\ T \in Nat /\ taskCount \in Nat
        /\ T <= taskCount /\ L.reuse = (T < taskCount) /\ \A s \in Slot : s \in Nat
    BY <1>s, <1>t, <2>1, SchedFacts DEF CreationPoints, SlotPoints
  <2>3. taskCount' = IF T < taskCount THEN taskCount ELSE taskCount + 1
    BY <2>1, <2>2
  <2>4. PICK t, c, d : t = T /\ c = taskCount /\ d = taskCount'  OBVIOUS
  <2>5. \A s \in Slot : s # T /\ s < taskCount' => s < taskCount
    BY <2>2, <2>3, <2>4
  <2> QED  BY <1>g, <2>1, <2>5 DEF CtxInv, Creating
<1>9. CASE ExitHalt
  <2>1. /\ pc[current] = "exit2" /\ UNCHANGED <<taskCount, current, pc, ctx>>
        /\ state' = [state EXCEPT ![current] = "TERMINATED"]
    BY <1>9 DEF ExitHalt, At
  <2>2. \A s \in Slot : state[s] = "TERMINATED" => state'[s] = "TERMINATED"
    BY <1>s, <2>1, SchedFacts
  <2> QED  BY <1>q, <2>1, <2>2 DEF CreationPoints
<1>10. CASE KillMark
  <2>1. /\ pc[current] = "kill2" /\ Goto("user") /\ UNCHANGED <<ctx, taskCount, current>>
        /\ state' = [state EXCEPT ![T] = "TERMINATED"]
    BY <1>10 DEF KillMark, At, cpuVars, Return
  <2>2. \A s \in Slot : state[s] = "TERMINATED" => state'[s] = "TERMINATED"
    BY <1>s, <2>1, SchedFacts
  <2> QED  BY <1>g, <1>q, <2>1, <2>2 DEF CreationPoints
<1>11. CASE \E t \in Slot : Pend(t)
  BY <1>11 DEF Pend, CallsAreAtomic, NoFatalSignals
<1>12. CASE \E n \in Slot : Yield(n) \/ Tick(n) \/ ExitSwitch(n)
  <2>1. PICK n \in Slot : Yield(n) \/ Tick(n) \/ ExitSwitch(n)  BY <1>12
  <2>2. /\ UNCHANGED <<taskCount, pc, loc, ctx>> /\ current' = n
        /\ state' = SwitchStates(n) \/ state' = [state EXCEPT ![current] = "TERMINATED", ![n] = "RUNNING"]
    BY <2>1 DEF Yield, Tick, ExitSwitch, SwitchTo
  <2>3. pc[current] \notin CreationPoints
    BY <2>1 DEF Yield, Tick, ExitSwitch, At, CallsAreAtomic, CreationIsAtomic, CreationPoints
  <2>4. n < taskCount /\ state[n] \in {"READY", "RUNNING"}
    <3>1. state[n] \in {"READY", "RUNNING"}
      BY <2>1 DEF Yield, Tick, ExitSwitch, SchedNext, OtherReady, TickNext, TickReady, ReadySlots
    <3>2. n < taskCount
      <4>1. FirstInRing(n, OtherReady) \/ FirstInRing(n, TickReady)
        BY <2>1 DEF Yield, Tick, ExitSwitch, SchedNext, TickNext
      <4>2. n \in 0 .. taskCount - 1
        BY <1>s, <4>1, SwitchStaysInRing DEF SchedInv, IInv, TypeOK
      <4> QED  BY <1>s, <4>2, SchedFacts
    <3> QED  BY <3>1, <3>2
  <2>5. ctx[n]  BY <2>3, <2>4 DEF CtxInv, Creating
  <2>6. \A s \in Slot : state[s] = "TERMINATED" => state'[s] = "TERMINATED"
    BY <1>s, <2>2, <2>4, SchedFacts DEF SwitchStates
  <2>7. pc[n] \notin CreationPoints  BY <1>s, <2>3, SchedFacts
  <2> QED  BY <2>2, <2>3, <2>5, <2>6, <2>7 DEF CtxInv, Creating, CreationPoints
<1>13. CASE Halted
  BY <1>13 DEF Halted, vars, slotVars, cpuVars, CtxInv, Creating, T, L
<1> QED
  BY <1>1, <1>2, <1>3, <1>4, <1>5, <1>6, <1>7, <1>8, <1>9, <1>10, <1>11, <1>12, <1>13
     DEF Next, Spawn, Load, End, Wait, Schedule

\* As long as no creation but a fork fails, the CPU only resumes a context that
\* the slot's present task saved or that its creation built (task.c:12, 357).
THEOREM OnlyOwnContexts ==
    ASSUME CallsAreAtomic
    PROVE  Spec /\ [][~ CreationFails]_vars => []ResumesOwnContext
<1>1. LifeInv /\ CtxInv /\ [Next]_vars /\ [~ CreationFails]_vars => CtxInv'
  <2> SUFFICES ASSUME LifeInv, CtxInv, [Next]_vars, [~ CreationFails]_vars PROVE CtxInv'
    OBVIOUS
  <2>1. CASE UNCHANGED vars
    BY <2>1 DEF vars, slotVars, cpuVars, CtxInv, Creating, T, L
  <2> QED  BY <2>1, CtxStep
<1>2. Spec => []LifeInv  BY OwnAlways, PTL
<1>3. CtxInv => ResumesOwnContext  BY DEF CtxInv, ResumesOwnContext
<1> QED  BY <1>1, <1>2, <1>3, CtxInit, PTL DEF Spec

\* Then every task that executes outside the kernel does so in its own space.
THEOREM TasksRunInOwnSpace ==
    ASSUME CallsAreAtomic
    PROVE  Spec /\ [][~ CreationFails]_vars => []RunsInOwnSpace
<1>1. (ctx[current] => RunsInOwnSpace) /\ ResumesOwnContext => RunsInOwnSpace
  BY DEF ResumesOwnContext
<1> QED  BY <1>1, ContextRunsInOwnSpace, OnlyOwnContexts, PTL

-----------------------------------------------------------------------------
(* Nothing is lost.  Only the current task carries an address space, from   *)
(* the loader to the creation that takes it; every other space that exists  *)
(* is of an entry in use or waits in the retired list, which has room.      *)

ScanIsAtomic == "scan" \notin IrqOpen
CarryPoints  == {"load", "scan", "claim", "mem"}
InUse(p)     == \E m \in Slot : Used(m) /\ mmPml4[m] = p

LeakInv ==
    /\ \A s \in Slot : Carries(s) =>
          /\ s = current /\ ~ halted
          /\ pc[s] \in CarryPoints /\ loc[s].op = "ring3"
    /\ \A p \in live \ {KernelPml4} :
          p \in retired \/ InUse(p) \/ loc[current].pml4 = p

LEMMA LeakInit == Init => LeakInv
BY SlotFacts DEF Init, LeakInv, Carries, NoLocal

\* The space a failed load or creation drops is the one it carried.
LEMMA CarriedIsNotCr3 ==
    ASSUME LifeInv, OwnInv, LeakInv, mm[current] # NoRef, pc[current] # "load",
           loc[current].pml4 # NoPml4
    PROVE  loc[current].pml4 # cr3
<1>1. current \in Slot /\ Carries(current)  BY SchedFacts DEF LifeInv, Carries
<1>2. mm[current] \in Slot /\ Used(mm[current])  BY <1>1, HeldSpaces DEF Used
<1>3. CarriedAreOwned  BY DEF LifeInv, SchedInv, IInv, SpaceInv
<1>4. mmPml4[mm[current]] # loc[current].pml4  BY <1>1, <1>2, <1>3 DEF CarriedAreOwned
<1> QED  BY <1>4 DEF OwnInv

\* task_release_mm frees the space of the last reference or retires it: the
\* list has room, for it never holds more than the space in CR3.
LEMMA ReleaseMmLeaks ==
    ASSUME LifeInv, OwnInv, NEW s \in Slot, ReleaseMm(s),
           NEW p \in live', p # KernelPml4,
           p \in retired \/ InUse(p)
    PROVE  p \in retired' \/ InUse(p)'
<1>0. /\ mmRefs \in [Slot -> Nat] /\ mmPml4 \in [Slot -> Pml4s \cup {KernelPml4, NoPml4}]
      /\ retired \subseteq {cr3} /\ EntriesOwnSpaces /\ TaskAssumption
  BY TaskAssumption DEF LifeInv, SchedInv, IInv, TypeOK, TableTypes, SpaceTypes, SpaceInv, OwnInv
<1>r. retired \subseteq retired'  BY DEF ReleaseMm, Retire
<1>1. CASE p \in retired  BY <1>1, <1>r
<1>2. CASE InUse(p)
  <2>1. PICK m \in Slot : Used(m) /\ mmPml4[m] = p  BY <1>2 DEF InUse
  <2>2. CASE mm[s] # m
    <3>1. mmRefs'[m] = mmRefs[m] /\ mmPml4'[m] = mmPml4[m]
      BY <1>0, <2>2 DEF ReleaseMm
    <3> QED  BY <2>1, <3>1 DEF Used, InUse
  <2>3. CASE mm[s] = m /\ mmRefs[m] # 1
    <3>1. mm[s] # NoRef  BY <2>3, SlotFacts
    <3>2. mmRefs'[m] = mmRefs[m] - 1 /\ mmPml4'[m] = mmPml4[m]
      BY <1>0, <2>3, <3>1 DEF ReleaseMm
    <3> QED  BY <1>0, <2>1, <2>3, <3>2 DEF Used, InUse
  <2>4. CASE mm[s] = m /\ mmRefs[m] = 1
    <3>1. mm[s] # NoRef  BY <2>4, SlotFacts
    <3>2. Retire(p)  BY <2>1, <2>4, <3>1 DEF ReleaseMm
    <3>3. p = cr3  BY <3>2 DEF Retire
    <3>4. p \notin retired  BY <1>0, <2>1 DEF EntriesOwnSpaces
    <3>5. retired = {}  BY <1>0, <3>3, <3>4
    <3>6. Cardinality(retired) < MaxTasks  BY <1>0, <3>5, FS_EmptySet, TaskAssumption
    <3> QED  BY <3>2, <3>3, <3>6 DEF Retire
  <2> QED  BY <2>2, <2>3, <2>4
<1> QED  BY <1>1, <1>2

LEMMA LeakStep ==
    ASSUME CallsAreAtomic, ScanIsAtomic, LifeInv, OwnInv, LeakInv, Next
    PROVE  LeakInv'
<1>s. SchedInv /\ PlaceInv  BY DEF LifeInv
<1>0. /\ current \in Slot /\ L \in Local /\ NoPml4 \notin live
      /\ mmRefs \in [Slot -> Nat] /\ mmPml4 \in [Slot -> Pml4s \cup {KernelPml4, NoPml4}]
      /\ CarriedAreOwned /\ EntriesOwnSpaces
  BY <1>s, SchedFacts, TaskAssumption
     DEF SchedInv, IInv, TypeOK, TableTypes, SpaceTypes, SpaceInv
<1>g. ASSUME NEW point, Goto(point)
      PROVE  pc'[current] = point /\ \A s \in Slot : s # current => pc'[s] = pc[s]
  BY <1>0, <1>s, <1>g, SchedFacts DEF Goto
<1>r. ASSUME Return
      PROVE  /\ loc'[current].pml4 = NoPml4
             /\ \A s \in Slot : s # current => loc'[s] = loc[s]
  BY <1>0, <1>s, <1>r, SchedFacts DEF Return, NoLocal
<1>o. \A s \in Slot : s # current => loc[s].pml4 = NoPml4
  BY DEF LeakInv, Carries
\* Nobody carries a space any more.
<1>n. ASSUME pc[current] \notin CarryPoints
             \/ loc'[current].pml4 = NoPml4,
             \A s \in Slot : loc'[s].pml4 \in {loc[s].pml4, NoPml4},
             \A p \in live' \ {KernelPml4} : p \in retired' \/ InUse(p)'
      PROVE  LeakInv'
  <2>1. \A s \in Slot : loc'[s].pml4 = NoPml4
    BY <1>0, <1>o, <1>n DEF LeakInv, Carries
  <2> QED  BY <1>n, <2>1 DEF LeakInv, Carries
\* The carrier moves on with its space.
<1>k. ASSUME UNCHANGED <<current, halted, live, retired, mmRefs, mmPml4>>,
             pc'[current] \in CarryPoints,
             \A s \in Slot : loc'[s].pml4 = loc[s].pml4,
             loc'[current].pml4 # NoPml4 => loc'[current].op = "ring3" /\ ~ halted
      PROVE  LeakInv'
  BY <1>0, <1>o, <1>k DEF LeakInv, Carries, InUse, Used
\* The task that drops its space runs in another one.
<1>d. ASSUME pc[current] \in CarryPoints \ {"load"}, ctx[current], ~ halted
      PROVE  loc[current].pml4 # cr3
  <2>1. ~ Released(current) /\ ~ Creating(current)
    BY <1>s, <1>d, SchedFacts DEF Released, Creating, Killing, CarryPoints, SlotPoints, CreationPoints
  <2>2. mm[current] # NoRef  BY <1>0, <1>d, <2>1 DEF OwnInv
  <2>3. cr3 # NoPml4
    BY <1>s, TaskAssumption DEF SchedInv, IInv, TypeOK, SpaceTypes
  <2> QED  BY <1>d, <2>2, <2>3, CarriedIsNotCr3
<1>1. CASE \E op \in Operations, s \in Slot : SpawnScan(op, s)
  <2>1. PICK op \in Operations, s \in Slot : SpawnScan(op, s)  BY <1>1
  <2>2. /\ pc[current] = "user" \/ (pc[current] = "scan" /\ op = "ring3")
        /\ Goto("claim") /\ ~ halted
        /\ loc' = [loc EXCEPT ![current] =
                      [L EXCEPT !.op = op, !.slot = s, !.reuse = s < taskCount]]
        /\ UNCHANGED <<current, halted, live, retired, mmRefs, mmPml4>>
    BY <2>1 DEF SpawnScan, At, Runs, memVars, cpuVars
  <2>3. /\ loc'[current].pml4 = loc[current].pml4 /\ loc'[current].op = op
        /\ \A t \in Slot : t # current => loc'[t] = loc[t]
    BY <1>0, <1>s, <2>2, SchedFacts DEF L, Local
  <2>4. pc[current] = "user" => loc[current].pml4 = NoPml4
    BY <1>0 DEF LeakInv, Carries, CarryPoints
  <2>5. pc'[current] \in CarryPoints  BY <1>g, <2>2 DEF CarryPoints
  <2>6. loc'[current].pml4 # NoPml4 => loc'[current].op = "ring3" /\ ~ halted
    BY <2>2, <2>3, <2>4
  <2>7. \A t \in Slot : loc'[t].pml4 = loc[t].pml4  BY <2>3
  <2> QED  BY <1>k, <2>2, <2>5, <2>6, <2>7
<1>2. CASE SpawnClaim \/ LoadEnd
  <2>1. /\ UNCHANGED <<current, halted, live, retired, mmRefs, mmPml4, loc>>
        /\ Goto("mem") \/ Goto("scan")
    BY <1>2 DEF SpawnClaim, LoadEnd, memVars, cpuVars
  <2>2. pc'[current] \in CarryPoints  BY <1>g, <2>1 DEF CarryPoints
  <2>3. loc'[current].pml4 # NoPml4 => loc'[current].op = "ring3" /\ ~ halted
    BY <1>0, <2>1 DEF LeakInv, Carries
  <2> QED  BY <1>k, <2>1, <2>2, <2>3
<1>3. CASE \E p \in Pml4s : LoadBegin(p)
  <2>1. PICK p \in Pml4s : LoadBegin(p)  BY <1>3
  <2>2. /\ pc[current] = "user" /\ Goto("load") /\ live' = live \cup {p} /\ ~ halted
        /\ loc' = [loc EXCEPT ![current] = [NoLocal EXCEPT !.op = "ring3", !.pml4 = p, !.old = cr3]]
        /\ UNCHANGED <<current, halted, retired, mmRefs, mmPml4>>
    BY <2>1 DEF LoadBegin, At, Runs
  <2>3. /\ loc'[current].pml4 = p /\ loc'[current].op = "ring3"
        /\ \A t \in Slot : t # current => loc'[t] = loc[t]
    BY <1>0, <1>s, <2>2, SchedFacts DEF NoLocal
  <2>4. loc[current].pml4 = NoPml4
    BY <1>0, <2>2 DEF LeakInv, Carries, CarryPoints
  <2> QED  BY <1>0, <1>g, <1>o, <2>2, <2>3, <2>4
             DEF LeakInv, Carries, InUse, Used, CarryPoints
<1>4. CASE SpawnFull \/ SpawnSpaceFails \/ LoadFails
  <2>1. PICK kept : live' = live \ ({loc[current].pml4} \ {kept})
                    /\ kept = IF LoadFails THEN L.old ELSE cr3
    BY <1>4 DEF SpawnFull, SpawnSpaceFails, LoadFails, L
  <2>2. /\ UNCHANGED <<retired, mmRefs, mmPml4>> /\ Return /\ ctx[current] /\ ~ halted
    BY <1>4 DEF SpawnFull, SpawnSpaceFails, LoadFails, At, Runs
  <2>3. loc[current].pml4 # kept
    <3>1. CASE LoadFails
      <4>1. pc[current] = "load" /\ kept = loc[current].old
        BY <2>1, <3>1 DEF LoadFails, At, L
      <4>2. mm[current] # NoRef /\ kept = mmPml4[mm[current]]
        BY <4>1 DEF OwnInv, L
      <4>3. kept # NoPml4 /\ mm[current] \in Slot /\ Used(mm[current])
        BY <1>0, <4>2, HeldSpaces DEF Used
      <4> QED  BY <1>0, <4>2, <4>3 DEF CarriedAreOwned, Carries
    <3>2. CASE ~ LoadFails
      <4>1. pc[current] \in CarryPoints \ {"load"}
        BY <1>4, <3>2 DEF SpawnFull, SpawnSpaceFails, At, CarryPoints
      <4> QED  BY <1>d, <2>1, <2>2, <3>2, <4>1
    <3> QED  BY <3>1, <3>2
  <2>4. \A p \in live' : p \in live /\ p # loc[current].pml4
    BY <2>1, <2>3
  <2>5. \A p \in live' \ {KernelPml4} : p \in retired' \/ InUse(p)'
    BY <2>2, <2>4 DEF LeakInv, InUse, Used
  <2>6. \A s \in Slot : loc'[s].pml4 \in {loc[s].pml4, NoPml4}
    BY <1>r, <2>2
  <2> QED  BY <1>n, <1>r, <2>2, <2>5, <2>6
<1>5. CASE \E p \in Pml4s, m \in Slot : SpawnSpace(p, m)
  <2>1. PICK p \in Pml4s, m \in Slot : SpawnSpace(p, m)  BY <1>5
  <2>2. /\ live' = live \cup {p} /\ UNCHANGED retired
        /\ mmRefs' = [mmRefs EXCEPT ![m] = 1] /\ mmPml4' = [mmPml4 EXCEPT ![m] = p]
        /\ mmRefs[m] = 0
        /\ L.op = "ring3" => p = loc[current].pml4
        /\ loc' = [loc EXCEPT ![current].pml4 = NoPml4]
    BY <2>1 DEF SpawnSpace, FirstFree, NewSpace, L
  <2>3. /\ loc'[current].pml4 = NoPml4
        /\ \A s \in Slot : loc'[s].pml4 \in {loc[s].pml4, NoPml4}
    BY <1>0, <1>s, <2>2, SchedFacts DEF Local
  <2>4. loc[current].pml4 \in {p, NoPml4}
    BY <1>0, <2>2 DEF LeakInv, Carries, L
  <2>5. InUse(p)' /\ \A q : InUse(q) => InUse(q)'
    <3>1. Used(m)' /\ mmPml4'[m] = p  BY <1>0, <2>2 DEF Used
    <3>2. \A k \in Slot : Used(k) => Used(k)' /\ mmPml4'[k] = mmPml4[k]
      BY <1>0, <2>2 DEF Used
    <3> QED  BY <3>1, <3>2 DEF InUse
  <2>6. \A q \in live' \ {KernelPml4} : q \in retired' \/ InUse(q)'
    BY <1>0, <2>2, <2>4, <2>5 DEF LeakInv
  <2> QED  BY <1>n, <2>3, <2>6
<1>6. CASE SpawnShareSpace
  <2>1. /\ pc[current] = "mem" /\ L.op = "clone" /\ mm[current] # NoRef
        /\ mmRefs' = [mmRefs EXCEPT ![mm[current]] = @ + 1]
        /\ UNCHANGED <<live, retired, mmPml4, loc>>
    BY <1>6 DEF SpawnShareSpace, At
  <2>2. loc[current].pml4 = NoPml4
    BY <1>0, <2>1 DEF LeakInv, Carries, L
  <2>3. \A k \in Slot : Used(k) => Used(k)'
    <3>1. mm[current] \in Slot  BY <1>0, <2>1, HeldSpaces
    <3> QED  BY <1>0, <2>1, <3>1 DEF Used
  <2>4. \A q \in live' \ {KernelPml4} : q \in retired' \/ InUse(q)'
    BY <1>0, <2>1, <2>2, <2>3 DEF LeakInv, InUse
  <2> QED  BY <1>n, <2>1, <2>2, <2>4
<1>q. ASSUME pc[current] \notin CarryPoints
      PROVE  \A p \in live \ {KernelPml4} : p \in retired \/ InUse(p)
  BY <1>0, <1>q DEF LeakInv, Carries
<1>7. CASE \/ SpawnFrame \/ SpawnLink \/ ExitHalt \/ KillMark \/ WaitReturn
           \/ \E f \in Slot : SpawnFdt(f)
           \/ \E i \in 0 .. nextId, s \in Slot : WaitBegin(i, s)
  <2>1. pc[current] \notin CarryPoints /\ UNCHANGED <<live, retired, mmRefs, mmPml4>>
    BY <1>7 DEF SpawnFrame, SpawnLink, ExitHalt, KillMark, WaitReturn, SpawnFdt, WaitBegin,
       At, CarryPoints, memVars
  <2>2. \A s \in Slot : loc'[s].pml4 \in {loc[s].pml4, NoPml4}
    <3>1. CASE SpawnLink \/ KillMark \/ WaitReturn
      BY <1>r, <3>1 DEF SpawnLink, KillMark, WaitReturn
    <3>2. CASE SpawnFrame
      BY <1>0, <1>s, <3>2, SchedFacts DEF SpawnFrame, NoLocal
    <3>3. CASE ExitHalt \/ \E f \in Slot : SpawnFdt(f)
      BY <3>3 DEF ExitHalt, SpawnFdt
    <3>4. CASE \E i \in 0 .. nextId, s \in Slot : WaitBegin(i, s)
      BY <1>0, <1>s, <3>4, SchedFacts DEF WaitBegin, NoLocal
    <3> QED  BY <1>7, <3>1, <3>2, <3>3, <3>4
  <2>3. \A q \in live' \ {KernelPml4} : q \in retired' \/ InUse(q)'
    BY <1>q, <2>1 DEF InUse, Used
  <2> QED  BY <1>n, <2>1, <2>2, <2>3
<1>8. CASE SpawnFdtFails \/ ExitRelease \/ \E t \in Slot : KillRelease(t)
  <2>1. PICK t \in Slot : ReleaseMm(t)
    BY <1>0, <1>8, <1>s, SchedFacts
       DEF SpawnFdtFails, ExitRelease, KillRelease, At, SlotPoints, CreationPoints
  <2>2. pc[current] \notin CarryPoints
    BY <1>8 DEF SpawnFdtFails, ExitRelease, KillRelease, At, CarryPoints
  <2>3. \A s \in Slot : loc'[s].pml4 \in {loc[s].pml4, NoPml4}
    <3>1. CASE SpawnFdtFails \/ ExitRelease
      BY <1>r, <3>1 DEF SpawnFdtFails, ExitRelease
    <3>2. CASE \E u \in Slot : KillRelease(u)
      BY <1>0, <1>s, <3>2, SchedFacts DEF KillRelease, Local
    <3> QED  BY <1>8, <3>1, <3>2
  <2>4. live' \subseteq live  BY <2>1 DEF ReleaseMm, Retire
  <2>5. \A q \in live' \ {KernelPml4} : q \in retired' \/ InUse(q)'
    BY <1>q, <2>1, <2>2, <2>4, ReleaseMmLeaks
  <2> QED  BY <1>n, <2>2, <2>3, <2>5
<1>9. CASE \E t \in Slot : Pend(t)
  BY <1>9 DEF Pend, CallsAreAtomic, NoFatalSignals
<1>10. CASE \E n \in Slot : Yield(n) \/ Tick(n) \/ ExitSwitch(n)
  <2>1. PICK n \in Slot : Yield(n) \/ Tick(n) \/ ExitSwitch(n)  BY <1>10
  <2>2. SwitchTo(n) /\ UNCHANGED <<mmRefs, mmPml4, loc>>
    BY <2>1 DEF Yield, Tick, ExitSwitch
  <2>3. pc[current] \notin CarryPoints
    BY <1>0, <1>s, <2>1, SchedFacts
       DEF Yield, Tick, ExitSwitch, At, CallsAreAtomic, CreationIsAtomic, ScanIsAtomic,
           CreationPoints, CarryPoints
  <2>4. \A q \in live' \ {KernelPml4} : q \in retired' \/ InUse(q)'
    BY <1>q, <2>2, <2>3 DEF SwitchTo, InUse, Used
  <2> QED  BY <1>n, <2>2, <2>3, <2>4
<1>11. CASE Halted
  BY <1>11 DEF Halted, vars, slotVars, memVars, cpuVars, LeakInv, Carries, InUse, Used
<1> QED
  BY <1>1, <1>2, <1>3, <1>4, <1>5, <1>6, <1>7, <1>8, <1>9, <1>10, <1>11
     DEF Next, Spawn, Load, End, Wait, Schedule

\* Every address space that exists has someone who will free it, wherever a
\* load, a creation, an exit or a kill stops: no frame of page tables is lost
\* (task_release_mm, task_retire_address_space, ELF_NEW_IMAGE_FAIL).
THEOREM SpacesAreNotLost ==
    ASSUME CallsAreAtomic, ScanIsAtomic
    PROVE  Spec => []NoSpaceLeaks
<1>1. LifeInv /\ OwnInv /\ LeakInv /\ [Next]_vars => LeakInv'
  <2> SUFFICES ASSUME LifeInv, OwnInv, LeakInv, [Next]_vars PROVE LeakInv'  OBVIOUS
  <2>1. CASE Next  BY <2>1, LeakStep
  <2>2. CASE UNCHANGED vars
    BY <2>2 DEF vars, slotVars, memVars, cpuVars, LeakInv, Carries, InUse, Used
  <2> QED  BY <2>1, <2>2
<1>2. ASSUME LifeInv, LeakInv PROVE NoSpaceLeaks
  <2> SUFFICES ASSUME NEW p \in live \ {KernelPml4}
               PROVE  p \in retired \/ InUse(p) \/ \E s \in Slot : OwnsSpace(s, p)
    BY DEF NoSpaceLeaks, InUse, Used
  <2>1. CASE loc[current].pml4 = p
    <3>1. p # NoPml4
      BY <1>2, TaskAssumption DEF LifeInv, SchedInv, IInv, TypeOK, SpaceTypes
    <3>2. current \in Slot /\ Carries(current)
      BY <1>2, <2>1, <3>1, SchedFacts DEF LifeInv, Carries
    <3>3. ~ halted /\ pc[current] \in CarryPoints  BY <1>2, <3>2 DEF LeakInv
    <3>4. state[current] = "RUNNING"  BY <1>2, <3>3, SchedFacts DEF LifeInv
    <3> QED  BY <2>1, <3>2, <3>3, <3>4 DEF OwnsSpace, CarryPoints
  <2> QED  BY <1>2, <2>1 DEF LeakInv
<1> QED  BY <1>1, <1>2, LeakInit, OwnAlways, PTL DEF Spec
=============================================================================
