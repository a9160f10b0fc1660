----------------------------- MODULE FutexProofs -----------------------------
(***************************************************************************)
(* Type correctness and the safety of Futex, for any number of tasks,      *)
(* addresses and slots, with one process or two, whoever is killed when.   *)
(***************************************************************************)
EXTENDS Futex, FunctionTheorems, FiniteSetTheorems, NaturalsInduction, WellFoundedInduction, TLAPS

USE FutexAssumption

IInv == TypeOK /\ TableMatchesWaiters

-----------------------------------------------------------------------------
(* The operators.                                                          *)

LEMMA FoundIs ==
    ASSUME NEW a \in Addrs, NEW i, Found(a, i)
    PROVE  /\ i \in Slots
           /\ slot[i] = a \/ (slot[i] = NoAddr /\ \A j \in Slots : slot[j] # a)
BY DEF Found, IsFirst, With

LEMMA NoWaiterType == NoWaiter \in Waiter /\ ~ NoWaiter.used
BY DEF NoWaiter, Waiter

\* Waking sets woken and nothing else.
LEMMA AwakenedIs ==
    ASSUME TypeOK, NEW asking, NEW mask
    PROVE  /\ Awakened(asking, mask) \in [Slots -> [Entries -> Waiter]]
           /\ \A i \in Slots, k \in Entries :
                 /\ Awakened(asking, mask)[i][k].used = waiters[i][k].used
                 /\ Awakened(asking, mask)[i][k].task = waiters[i][k].task
<1> DEFINE A == Awakened(asking, mask)
           R(i) == Reached(i, asking, mask)
<1>1. ASSUME NEW i \in Slots, NEW k \in Entries
      PROVE  /\ A[i][k] \in Waiter
             /\ A[i][k].used = waiters[i][k].used /\ A[i][k].task = waiters[i][k].task
  <2>1. waiters[i][k] \in Waiter  BY DEF TypeOK
  <2>2. A[i][k] = IF k \in R(i) THEN [waiters[i][k] EXCEPT !.woken = TRUE] ELSE waiters[i][k]
    BY DEF Awakened, Woken
  <2> HIDE DEF A, R
  <2> QED  BY <2>1, <2>2 DEF Waiter
<1>2. A = [i \in Slots |-> [k \in Entries |-> A[i][k]]]
  BY DEF Awakened, Woken
<1>3. A \in [Slots -> [Entries -> Waiter]]  BY <1>1, <1>2
<1> QED  BY <1>1, <1>3

LEMMA WordsType ==
    ASSUME TypeOK, NEW t \in Tasks, NEW q \in Processes, NEW robust \in BOOLEAN
    PROVE  WordsAfter(t, q, robust) \in [Processes -> [Addrs -> Word]]
<1>1. Process(t) \in Processes  BY DEF Process, Processes
<1>2. Free \in Word  BY DEF Free, Owned, Word
<1>3. \A w \in Word : OwnerDied(w) \in Word  BY DEF OwnerDied, Word
<1>4. RobustAfter(t, robust) \in [Processes -> [Addrs -> Word]]
  BY <1>1, <1>3 DEF RobustAfter, TypeOK
<1> QED  BY <1>2, <1>4 DEF WordsAfter, Addrs

-----------------------------------------------------------------------------
(* The table.                                                              *)

\* Steps that leave the slots, the pointers and the owners of entries alone.
LEMMA SameTable ==
    ASSUME IInv, slot' = slot,
           \A t \in Tasks : /\ at'[t].slot = at[t].slot /\ at'[t].entry = at[t].entry
                            /\ at'[t].addr = at[t].addr,
           \A i \in Slots, k \in Entries : /\ waiters'[i][k].used = waiters[i][k].used
                                           /\ waiters'[i][k].task = waiters[i][k].task
    PROVE  TableMatchesWaiters'
<1>1. \A t \in Tasks : at[t].slot # 0 => at[t].slot \in Slots /\ at[t].entry \in Entries
  BY DEF IInv, TypeOK, At, Slots, Entries
<1>2. OneSlot'  BY DEF IInv, TableMatchesWaiters, OneSlot
<1>3. EntryIsMine'  BY <1>1 DEF IInv, TableMatchesWaiters, EntryIsMine, Mine
<1>4. EntryIsSomebodys'  BY DEF IInv, TableMatchesWaiters, EntryIsSomebodys
<1>5. SlotIsUsed'  BY DEF IInv, TableMatchesWaiters, SlotIsUsed
<1> QED  BY <1>2, <1>3, <1>4, <1>5 DEF TableMatchesWaiters

LEMMA InitIInv == Init => IInv
<1> SUFFICES ASSUME Init PROVE IInv
  OBVIOUS
<1>1. \A t \in Tasks : at[t] = Idle(FALSE)  BY DEF Init
<1>2. Free \in Word /\ \A t \in Tasks : Owned(t, FALSE) \in Word  BY DEF Free, Owned, Word
<1>3. Idle(FALSE) \in At  BY <1>2 DEF Idle, At
<1>4. TypeOK
  <2>1. word \in [Processes -> [Addrs -> Word]]  BY <1>2 DEF Init, Addrs
  <2>2. waiters \in [Slots -> [Entries -> Waiter]]  BY NoWaiterType DEF Init
  <2>3. at \in [Tasks -> At]  BY <1>3 DEF Init
  <2>4. slot \in [Slots -> Addrs \cup {NoAddr}]  BY DEF Init
  <2>5. \A t \in Tasks : at[t].slot = 0 /\ ~ Waits(t)  BY <1>1 DEF Idle, Waits
  <2> QED  BY <2>1, <2>2, <2>3, <2>4, <2>5 DEF TypeOK
<1>5. \A t \in Tasks : at[t].slot = 0  BY <1>1 DEF Idle
<1>6. /\ \A i \in Slots : slot[i] = NoAddr
      /\ \A i \in Slots, k \in Entries : ~ waiters[i][k].used
  BY NoWaiterType DEF Init
<1>7. OneSlot /\ EntryIsSomebodys /\ SlotIsUsed
  <2>1. OneSlot  BY <1>6 DEF OneSlot
  <2>2. EntryIsSomebodys  BY <1>6 DEF EntryIsSomebodys
  <2>3. SlotIsUsed  BY <1>6 DEF SlotIsUsed
  <2> QED  BY <2>1, <2>2, <2>3
<1>8. EntryIsMine  BY <1>5 DEF EntryIsMine
<1> QED  BY <1>4, <1>7, <1>8 DEF IInv, TableMatchesWaiters

LEMMA WaitKeeps == ASSUME IInv, NEW t \in Tasks, NEW a \in Addrs, Wait(t, a) PROVE IInv'
<1>1. PICK i \in Slots, k \in Entries :
          /\ Found(a, i)
          /\ IsFirst(k, FreeEntries(Opened(a, i)))
          /\ slot' = [slot EXCEPT ![i] = a]
          /\ waiters' = [waiters EXCEPT ![i] = [Opened(a, i) EXCEPT ![k] =
                           [used |-> TRUE, woken |-> FALSE, task |-> t, mask |-> WaitArgs[t].mask]]]
          /\ at' = [at EXCEPT ![t] =
                      [pc |-> "wait", addr |-> a, value |-> word[Process(t)][a],
                       timed |-> WaitArgs[t].timed, slot |-> i, entry |-> k, late |-> FALSE]]
  BY DEF Wait
<1> DEFINE new == [used |-> TRUE, woken |-> FALSE, task |-> t, mask |-> WaitArgs[t].mask]
           me == [pc |-> "wait", addr |-> a, value |-> word[Process(t)][a],
                  timed |-> WaitArgs[t].timed, slot |-> i, entry |-> k, late |-> FALSE]
<1>2. TypeOK /\ OneSlot /\ EntryIsMine /\ EntryIsSomebodys /\ SlotIsUsed
  BY DEF IInv, TableMatchesWaiters
<1>3. slot[i] = a \/ (slot[i] = NoAddr /\ \A j \in Slots : slot[j] # a)
  BY <1>1, FoundIs
<1>4. a # NoAddr /\ WaitArgs[t].mask \in Masks /\ WaitArgs[t].timed \in BOOLEAN
  OBVIOUS
\* The entries of the slot that were used are there still, the others free.
<1>5. /\ Opened(a, i) \in [Entries -> Waiter]
      /\ \A m \in Entries : /\ Opened(a, i)[m].used <=> waiters[i][m].used
                            /\ waiters[i][m].used => Opened(a, i)[m] = waiters[i][m]
  <2>1. CASE slot[i] = a  BY <2>1, <1>2 DEF Opened, TypeOK
  <2>2. CASE slot[i] # a
    <3>1. slot[i] = NoAddr  BY <1>3, <2>2
    <3>2. \A m \in Entries : ~ waiters[i][m].used  BY <1>2, <3>1 DEF SlotIsUsed
    <3> QED  BY <2>2, <3>2, NoWaiterType DEF Opened
  <2> QED  BY <2>1, <2>2
<1>6. ~ Opened(a, i)[k].used  BY <1>1 DEF IsFirst, FreeEntries
<1>7. new \in Waiter  BY <1>4 DEF Waiter, AnyMask
<1>8. /\ waiters' \in [Slots -> [Entries -> Waiter]]
      /\ waiters'[i][k] = new
      /\ \A m \in Entries \ {k} : waiters'[i][m] = Opened(a, i)[m]
      /\ \A j \in Slots \ {i} : waiters'[j] = waiters[j]
  BY <1>1, <1>2, <1>5, <1>7 DEF TypeOK
<1>9. me \in At
  <2>1. Process(t) \in Processes  BY DEF Process, Processes
  <2>2. word[Process(t)][a] \in Word  BY <1>2, <2>1 DEF TypeOK
  <2>3. i \in 0 .. MaxTasks /\ k \in 0 .. MaxTasks  BY DEF Slots, Entries
  <2> QED  BY <1>4, <2>2, <2>3 DEF At
<1>10. /\ at'[t] = me /\ at' \in [Tasks -> At]
       /\ \A u \in Tasks \ {t} : at'[u] = at[u]
  BY <1>1, <1>2, <1>9 DEF TypeOK
<1>11. /\ slot' \in [Slots -> Addrs \cup {NoAddr}] /\ slot'[i] = a
       /\ \A j \in Slots \ {i} : slot'[j] = slot[j]
  BY <1>1, <1>2 DEF TypeOK
<1>12. i # 0 /\ k # 0  BY DEF Slots, Entries
<1> HIDE DEF me, new
<1>13. TypeOK'
  <2>1. word' = word  BY DEF Wait
  <2>2. at'[t].pc = "wait" /\ at'[t].slot = i /\ at'[t].entry = k /\ at'[t].addr = a
    BY <1>10 DEF me
  <2>3. \A u \in Tasks : /\ Runs(u)' => at'[u].slot = 0
                         /\ Waits(u)' => at'[u].slot # 0
                         /\ at'[u].slot # 0 => at'[u].entry # 0 /\ at'[u].addr \in Addrs
    BY <1>2, <1>10, <1>12, <2>2 DEF TypeOK, Runs, Waits
  <2> QED  BY <1>2, <1>8, <1>10, <1>11, <2>1, <2>3 DEF TypeOK
<1>14. OneSlot'  BY <1>2, <1>3, <1>4, <1>11 DEF OneSlot
<1>15. EntryIsMine'
  <2> SUFFICES ASSUME NEW u \in Tasks, at'[u].slot # 0
               PROVE  /\ waiters'[at'[u].slot][at'[u].entry].used
                      /\ waiters'[at'[u].slot][at'[u].entry].task = u
                      /\ slot'[at'[u].slot] = at'[u].addr
    BY DEF EntryIsMine, Mine
  <2>1. CASE u = t  BY <1>8, <1>10, <1>11, <2>1 DEF me, new
  <2>2. CASE u # t
    <3>1. at'[u] = at[u] /\ at[u].slot # 0  BY <1>10, <2>2
    <3>2. at[u].slot \in Slots /\ at[u].entry \in Entries
      BY <1>2, <3>1 DEF TypeOK, At, Slots, Entries
    <3>3. /\ waiters[at[u].slot][at[u].entry].used
          /\ waiters[at[u].slot][at[u].entry].task = u
          /\ slot[at[u].slot] = at[u].addr
      BY <1>2, <3>1 DEF EntryIsMine, Mine
    <3>4. CASE at[u].slot # i  BY <1>8, <1>11, <3>1, <3>2, <3>3, <3>4
    <3>5. CASE at[u].slot = i
      <4>1. at[u].entry # k  BY <1>5, <1>6, <3>2, <3>3, <3>5
      <4>2. waiters'[i][at[u].entry] = waiters[i][at[u].entry]
        BY <1>5, <1>8, <3>2, <3>3, <3>5, <4>1
      <4>3. slot[i] = a  BY <1>2, <1>3, <3>2, <3>3, <3>5 DEF SlotIsUsed
      <4> QED  BY <1>11, <3>1, <3>3, <3>5, <4>2, <4>3
    <3> QED  BY <3>4, <3>5
  <2> QED  BY <2>1, <2>2
<1>16. EntryIsSomebodys'
  <2> SUFFICES ASSUME NEW j \in Slots, NEW m \in Entries, waiters'[j][m].used
               PROVE  \E u \in Tasks : at'[u].slot = j /\ at'[u].entry = m
    BY DEF EntryIsSomebodys
  <2>1. CASE j = i /\ m = k  BY <1>10, <2>1 DEF me
  <2>2. CASE ~ (j = i /\ m = k)
    <3>1. waiters[j][m].used  BY <1>5, <1>8, <2>2
    <3>2. PICK u \in Tasks : at[u].slot = j /\ at[u].entry = m
      BY <1>2, <3>1 DEF EntryIsSomebodys
    <3>3. u # t
      <4>1. at[t].slot = 0  BY <1>2 DEF Wait, TypeOK
      <4> QED  BY <3>2, <4>1 DEF Slots
    <3> QED  BY <1>10, <3>2, <3>3
  <2> QED  BY <2>1, <2>2
<1>17. SlotIsUsed'
  <2> SUFFICES ASSUME NEW j \in Slots
               PROVE  slot'[j] # NoAddr <=> \E m \in Entries : waiters'[j][m].used
    BY DEF SlotIsUsed
  <2>1. CASE j = i  BY <1>4, <1>8, <1>11, <2>1 DEF new
  <2>2. CASE j # i  BY <1>2, <1>8, <1>11, <2>2 DEF SlotIsUsed
  <2> QED  BY <2>1, <2>2
<1> QED  BY <1>13, <1>14, <1>15, <1>16, <1>17 DEF IInv, TableMatchesWaiters

LEMMA ReturnKeeps == ASSUME IInv, NEW t \in Tasks, Return(t) PROVE IInv'
<1> DEFINE i == at[t].slot
           k == at[t].entry
<1>1. TypeOK /\ OneSlot /\ EntryIsMine /\ EntryIsSomebodys /\ SlotIsUsed
  BY DEF IInv, TableMatchesWaiters
<1>2. i # 0 /\ i \in Slots /\ k \in Entries
  BY <1>1 DEF Return, TypeOK, At, Slots, Entries
<1>3. waiters[i][k].used /\ waiters[i][k].task = t
  BY <1>1, <1>2 DEF EntryIsMine, Mine
<1>4. /\ waiters' = [waiters EXCEPT ![i][k] = NoWaiter]
      /\ slot' = IF Emptied(i, waiters'[i]) THEN [slot EXCEPT ![i] = NoAddr] ELSE slot
      /\ at' = [at EXCEPT ![t] = Idle(~ Answered(t))]
      /\ word' = word
  BY DEF Return, Cleared
<1>5. /\ waiters' \in [Slots -> [Entries -> Waiter]]
      /\ waiters'[i][k] = NoWaiter
      /\ \A m \in Entries \ {k} : waiters'[i][m] = waiters[i][m]
      /\ \A j \in Slots \ {i} : waiters'[j] = waiters[j]
  BY <1>1, <1>2, <1>4, NoWaiterType DEF TypeOK
<1>6. Idle(~ Answered(t)) \in At
  <2>1. Free \in Word /\ (~ Answered(t)) \in BOOLEAN  BY DEF Free, Owned, Word
  <2> QED  BY <2>1 DEF Idle, At
<1>7. /\ at' \in [Tasks -> At] /\ at'[t].slot = 0 /\ at'[t].pc = "run"
      /\ \A u \in Tasks \ {t} : at'[u] = at[u]
  BY <1>1, <1>4, <1>6 DEF TypeOK, Idle
<1> DEFINE empty == Emptied(i, waiters'[i])
<1>8. /\ slot' \in [Slots -> Addrs \cup {NoAddr}]
      /\ slot'[i] = IF empty THEN NoAddr ELSE slot[i]
      /\ \A j \in Slots \ {i} : slot'[j] = slot[j]
  BY <1>1, <1>2, <1>4 DEF TypeOK
<1>9. empty <=> \A m \in Entries : ~ waiters'[i][m].used  BY DEF Emptied
<1> HIDE DEF i, k, empty
<1>10. TypeOK'
  <2>1. \A u \in Tasks : /\ Runs(u)' => at'[u].slot = 0
                         /\ Waits(u)' => at'[u].slot # 0
                         /\ at'[u].slot # 0 => at'[u].entry # 0 /\ at'[u].addr \in Addrs
    BY <1>1, <1>7 DEF TypeOK, Runs, Waits
  <2> QED  BY <1>1, <1>4, <1>5, <1>7, <1>8, <2>1 DEF TypeOK
<1>11. OneSlot'  BY <1>1, <1>8 DEF OneSlot
<1>12. EntryIsMine'
  <2> SUFFICES ASSUME NEW u \in Tasks, at'[u].slot # 0
               PROVE  /\ waiters'[at'[u].slot][at'[u].entry].used
                      /\ waiters'[at'[u].slot][at'[u].entry].task = u
                      /\ slot'[at'[u].slot] = at'[u].addr
    BY DEF EntryIsMine, Mine
  <2>1. u # t /\ at'[u] = at[u] /\ at[u].slot # 0  BY <1>7
  <2>2. at[u].slot \in Slots /\ at[u].entry \in Entries
    BY <1>1, <2>1 DEF TypeOK, At, Slots, Entries
  <2>3. /\ waiters[at[u].slot][at[u].entry].used
        /\ waiters[at[u].slot][at[u].entry].task = u
        /\ slot[at[u].slot] = at[u].addr
    BY <1>1, <2>1 DEF EntryIsMine, Mine
  <2>4. ~ (at[u].slot = i /\ at[u].entry = k)  BY <1>3, <2>1, <2>3
  <2>5. waiters'[at[u].slot][at[u].entry] = waiters[at[u].slot][at[u].entry]
    BY <1>5, <2>2, <2>4
  <2>6. slot'[at[u].slot] = slot[at[u].slot]  BY <1>8, <1>9, <2>2, <2>3, <2>5
  <2> QED  BY <2>1, <2>3, <2>5, <2>6
<1>13. EntryIsSomebodys'
  <2> SUFFICES ASSUME NEW j \in Slots, NEW m \in Entries, waiters'[j][m].used
               PROVE  \E u \in Tasks : at'[u].slot = j /\ at'[u].entry = m
    BY DEF EntryIsSomebodys
  <2>1. ~ (j = i /\ m = k)  BY <1>5, NoWaiterType
  <2>2. waiters[j][m].used  BY <1>5, <2>1
  <2>3. PICK u \in Tasks : at[u].slot = j /\ at[u].entry = m
    BY <1>1, <2>2 DEF EntryIsSomebodys
  <2>4. u # t  BY <2>1, <2>3 DEF i, k
  <2> QED  BY <1>7, <2>3, <2>4
<1>14. SlotIsUsed'
  <2> SUFFICES ASSUME NEW j \in Slots
               PROVE  slot'[j] # NoAddr <=> \E m \in Entries : waiters'[j][m].used
    BY DEF SlotIsUsed
  <2>1. CASE j = i
    <3>1. slot[i] # NoAddr  BY <1>1, <1>2, <1>3 DEF SlotIsUsed
    <3> QED  BY <1>8, <1>9, <2>1, <3>1
  <2>2. CASE j # i  BY <1>1, <1>5, <1>8, <2>2 DEF SlotIsUsed
  <2> QED  BY <2>1, <2>2
<1> QED  BY <1>10, <1>11, <1>12, <1>13, <1>14 DEF IInv, TableMatchesWaiters

LEMMA StoreKeeps == ASSUME IInv, NEW t \in Tasks, NEW a \in Locks, Store(t, a) PROVE IInv'
<1>1. PICK v \in Stores(t, word[Process(t)][a]) : word' = [word EXCEPT ![Process(t)][a] = v]
  BY DEF Store
<1>2. slot' = slot /\ waiters' = waiters /\ at' = at  BY DEF Store
<1>3. Process(t) \in Processes /\ a \in Addrs  BY DEF Process, Processes, Addrs
<1>4. word[Process(t)][a] \in Word  BY <1>3 DEF IInv, TypeOK
<1>5. v \in Word
  <2> DEFINE w == word[Process(t)][a]
  <2>1. v = Free \/ v = Owned(t, FALSE) \/ v = [w EXCEPT !.waiters = TRUE]
    BY DEF Stores
  <2>2. Free \in Word /\ Owned(t, FALSE) \in Word  BY DEF Free, Owned, Word
  <2>3. [w EXCEPT !.waiters = TRUE] \in Word  BY <1>4 DEF Word
  <2> QED  BY <2>1, <2>2, <2>3
<1>6. word' \in [Processes -> [Addrs -> Word]]  BY <1>1, <1>3, <1>5 DEF IInv, TypeOK
<1>7. TypeOK'  BY <1>2, <1>6 DEF IInv, TypeOK, Runs, Waits
<1>8. TableMatchesWaiters'  BY <1>2, SameTable
<1> QED  BY <1>7, <1>8 DEF IInv

LEMMA WakeKeeps ==
    ASSUME IInv, NEW t \in Tasks, NEW a, NEW n, NEW mask, Wake(t, a, n, mask) PROVE IInv'
<1> DEFINE asking == [b \in Addrs |-> IF b = a THEN n ELSE 0]
<1>1. waiters' = Awakened(asking, mask) /\ word' = word /\ slot' = slot /\ at' = at
  BY DEF Wake
<1> HIDE DEF asking
<1>2. TypeOK'  BY <1>1, AwakenedIs DEF IInv, TypeOK, Runs, Waits
<1>3. TableMatchesWaiters'
  <2>1. \A i \in Slots, k \in Entries : /\ waiters'[i][k].used = waiters[i][k].used
                                        /\ waiters'[i][k].task = waiters[i][k].task
    BY <1>1, AwakenedIs DEF IInv
  <2> QED  BY <1>1, <2>1, SameTable
<1> QED  BY <1>2, <1>3 DEF IInv

LEMMA CleanupKeeps ==
    ASSUME IInv, NEW t \in Tasks, NEW q \in Processes, NEW robust \in BOOLEAN,
           Cleanup(t, q, robust)
    PROVE  IInv'
<1> DEFINE asking == WakesAfter(t, robust)
<1>1. /\ word' = WordsAfter(t, q, robust) /\ waiters' = Awakened(asking, AnyMask)
      /\ at' = [at EXCEPT ![t].pc = "dead"] /\ slot' = slot
  BY DEF Cleanup
<1> HIDE DEF asking
<1>2. /\ waiters' \in [Slots -> [Entries -> Waiter]]
      /\ \A i \in Slots, k \in Entries : /\ waiters'[i][k].used = waiters[i][k].used
                                         /\ waiters'[i][k].task = waiters[i][k].task
  BY <1>1, AwakenedIs DEF IInv
<1>3. /\ at' \in [Tasks -> At]
      /\ \A u \in Tasks : /\ at'[u].slot = at[u].slot /\ at'[u].entry = at[u].entry
                          /\ at'[u].addr = at[u].addr
                          /\ at'[u].pc = IF u = t THEN "dead" ELSE at[u].pc
  <2>1. at \in [Tasks -> At]  BY DEF IInv, TypeOK
  <2>2. at[t] \in At  BY <2>1
  <2>3. /\ [at[t] EXCEPT !.pc = "dead"] \in At
        /\ [at[t] EXCEPT !.pc = "dead"].slot = at[t].slot
        /\ [at[t] EXCEPT !.pc = "dead"].entry = at[t].entry
        /\ [at[t] EXCEPT !.pc = "dead"].addr = at[t].addr
        /\ [at[t] EXCEPT !.pc = "dead"].pc = "dead"
    BY <2>2 DEF At
  <2>4. at' = [at EXCEPT ![t] = [at[t] EXCEPT !.pc = "dead"]]  BY <1>1
  <2> QED  BY <2>1, <2>3, <2>4
<1>4. word' \in [Processes -> [Addrs -> Word]]  BY <1>1, WordsType DEF IInv
<1>5. TypeOK'
  BY <1>1, <1>2, <1>3, <1>4 DEF IInv, TypeOK, Runs, Waits
<1>6. TableMatchesWaiters'  BY <1>1, <1>2, <1>3, SameTable
<1> QED  BY <1>5, <1>6 DEF IInv

LEMMA NextKeeps == ASSUME IInv, [Next]_vars PROVE IInv'
<1>1. CASE Next
  <2>1. PICK t \in Tasks :
          \/ Return(t) \/ Exit(t)
          \/ \E k \in Tasks : Kill(k, t)
          \/ \E a \in Locks : Store(t, a)
          \/ \E a \in Addrs :
              \/ Wait(t, a)
              \/ \E n \in {1, Cardinality(Tasks)}, mask \in Masks : Wake(t, a, n, mask)
    BY <1>1 DEF Next
  <2>2. \A u \in Tasks : Process(u) \in Processes  BY DEF Process, Processes
  <2>3. CASE Return(t)  BY <2>3, ReturnKeeps
  <2>4. CASE Exit(t)  BY <2>2, <2>4, CleanupKeeps DEF Exit
  <2>5. CASE \E k \in Tasks : Kill(k, t)
    <3>1. PICK k \in Tasks : Kill(k, t)  BY <2>5
    <3>2. (Process(k) = Process(t)) \in BOOLEAN  OBVIOUS
    <3>3. Cleanup(t, Process(k), Process(k) = Process(t))  BY <3>1 DEF Kill
    <3> QED  BY <2>2, <3>2, <3>3, CleanupKeeps
  <2>6. CASE \E a \in Locks : Store(t, a)  BY <2>6, StoreKeeps
  <2>7. CASE \E a \in Addrs : Wait(t, a)  BY <2>7, WaitKeeps
  <2>8. CASE \E a \in Addrs, n \in {1, Cardinality(Tasks)}, mask \in Masks : Wake(t, a, n, mask)
    BY <2>8, WakeKeeps
  <2> QED  BY <2>1, <2>3, <2>4, <2>5, <2>6, <2>7, <2>8
<1>2. CASE UNCHANGED vars
  <2>1. word' = word /\ slot' = slot /\ waiters' = waiters /\ at' = at
    BY <1>2 DEF vars
  <2>2. TypeOK'  BY <2>1 DEF IInv, TypeOK, Runs, Waits
  <2>3. TableMatchesWaiters'  BY <2>1, SameTable
  <2> QED  BY <2>2, <2>3 DEF IInv
<1> QED  BY <1>1, <1>2

\* Everything keeps its type, and the table and the blocked tasks agree: the
\* entry a task left in the table before it yielded is its own when it comes
\* back, whoever was killed.
THEOREM TableCorrect == Spec => []FutexSafe
<1>1. IInv => FutexSafe  BY DEF IInv, FutexSafe
<1> QED  BY <1>1, InitIInv, NextKeeps, PTL DEF Spec

-----------------------------------------------------------------------------
(* Room for every task.  Only a task that waits has an entry, so a task    *)
(* that runs meets at most MaxTasks - 1 of them: by the pigeonhole         *)
(* principle they cannot fill the slots, nor the entries of one slot.      *)

\* The search for the first of some slots or entries finds one.
LEMMA FirstExists ==
    ASSUME NEW S \in SUBSET Nat, S # {}
    PROVE  \E i \in S : IsFirst(i, S)
<1>1. PICK n \in S : \A m \in S : ~ (<<m, n>> \in OpToRel(<, Nat))
  BY NatLessThanWellFounded, WFMin
<1>2. \A m \in S : ~ m < n  BY <1>1 DEF OpToRel
<1> QED  BY <1>2 DEF IsFirst

\* Fewer tasks than places cannot be in all of them, one place each.
LEMMA TooFewTasks ==
    ASSUME NEW t \in Tasks, NEW f \in [1 .. MaxTasks -> Tasks \ {t}]
    PROVE  \E x, y \in 1 .. MaxTasks : x # y /\ f[x] = f[y]
<1>1. /\ IsFiniteSet(1 .. MaxTasks) /\ Cardinality(1 .. MaxTasks) = MaxTasks
  BY FS_Interval
<1>2. /\ IsFiniteSet(Tasks \ {t})
      /\ Cardinality(Tasks \ {t}) = Cardinality(Tasks) - 1
  BY FS_RemoveElement
<1>3. Cardinality(Tasks) \in Nat  BY FS_CardinalityType
<1>4. Cardinality(Tasks \ {t}) < Cardinality(1 .. MaxTasks)  BY <1>1, <1>2, <1>3
<1> QED  BY <1>1, <1>2, <1>4, FS_PigeonHole

LEMMA SlotIsLeft ==
    ASSUME IInv, NEW t \in Tasks, Runs(t)
    PROVE  With(NoAddr) # {}
<1> SUFFICES ASSUME \A i \in Slots : slot[i] # NoAddr PROVE FALSE
  BY DEF With
<1> DEFINE Has(i, u) == at[u].slot = i
           f == [i \in Slots |-> CHOOSE u \in Tasks \ {t} : Has(i, u)]
<1>1. at[t].slot = 0  BY DEF IInv, TypeOK
<1>2. \A i \in Slots : \E u \in Tasks \ {t} : Has(i, u)
  BY <1>1 DEF IInv, TableMatchesWaiters, SlotIsUsed, EntryIsSomebodys, Slots
<1>3. \A i \in Slots : f[i] \in Tasks \ {t} /\ Has(i, f[i])  BY <1>2
<1>4. f \in [1 .. MaxTasks -> Tasks \ {t}]  BY <1>3 DEF Slots
<1>5. \A i \in 1 .. MaxTasks : at[f[i]].slot = i  BY <1>3 DEF Slots
<1> HIDE DEF f, Has
<1> QED  BY <1>4, <1>5, TooFewTasks

LEMMA EntryIsLeft ==
    ASSUME IInv, NEW t \in Tasks, Runs(t), NEW i \in Slots
    PROVE  \E k \in Entries : ~ waiters[i][k].used
<1> SUFFICES ASSUME \A k \in Entries : waiters[i][k].used PROVE FALSE
  OBVIOUS
<1> DEFINE Has(k, u) == at[u].slot = i /\ at[u].entry = k
           f == [k \in Entries |-> CHOOSE u \in Tasks \ {t} : Has(k, u)]
<1>1. at[t].slot = 0  BY DEF IInv, TypeOK
<1>2. \A k \in Entries : \E u \in Tasks \ {t} : Has(k, u)
  BY <1>1 DEF IInv, TableMatchesWaiters, EntryIsSomebodys, Slots
<1>3. \A k \in Entries : f[k] \in Tasks \ {t} /\ Has(k, f[k])  BY <1>2
<1>4. f \in [1 .. MaxTasks -> Tasks \ {t}]  BY <1>3 DEF Entries
<1>5. \A k \in 1 .. MaxTasks : at[f[k]].entry = k  BY <1>3 DEF Entries
<1> HIDE DEF f, Has
<1> QED  BY <1>4, <1>5, TooFewTasks

\* FUTEX_WAIT never fails for want of a slot or an entry (the -ENOMEM returns
\* of linux_compat_futex6 are dead code while a task waits once): what a
\* return or a death leaves behind is bounded by the tasks there are.
THEOREM RoomAlways == Spec => []RoomForAll
<1>1. ASSUME IInv PROVE RoomForAll
  <2> SUFFICES ASSUME NEW t \in Tasks, NEW a \in Addrs, Runs(t)
               PROVE  \E i \in Slots : Found(a, i) /\ FreeEntries(Opened(a, i)) # {}
    BY DEF RoomForAll
  <2> DEFINE S == IF With(a) # {} THEN With(a) ELSE With(NoAddr)
  <2>1. S # {} /\ S \in SUBSET Nat /\ S \subseteq Slots
    BY <1>1, SlotIsLeft DEF With, Slots
  <2>2. PICK i \in S : IsFirst(i, S)  BY <2>1, FirstExists
  <2>3. i \in Slots /\ Found(a, i)  BY <2>1, <2>2 DEF Found
  <2>4. FreeEntries(Opened(a, i)) # {}
    <3>1. CASE slot[i] = a  BY <1>1, <2>3, <3>1, EntryIsLeft DEF Opened, FreeEntries
    <3>2. CASE slot[i] # a
      <4>1. 1 \in Entries  BY DEF Entries
      <4> QED  BY <3>2, <4>1, NoWaiterType DEF Opened, FreeEntries
    <3> QED  BY <3>1, <3>2
  <2> QED  BY <2>3, <2>4
<1> QED  BY <1>1, InitIInv, NextKeeps, PTL DEF Spec

-----------------------------------------------------------------------------
(* What the dead leave behind.                                             *)

NoForeignKills == "foreign" \notin Deaths

DInv == IInv /\ DeadLeaveNothing

LEMMA DeadInit == Init => DeadLeaveNothing
<1> SUFFICES ASSUME Init, NEW t \in Tasks PROVE at[t].pc # "dead"
  BY DEF DeadLeaveNothing
<1> QED  BY DEF Init, Idle

LEMMA StorePreservesDead ==
    ASSUME DInv, NEW t \in Tasks, NEW a \in Locks, Store(t, a) PROVE DeadLeaveNothing'
<1>1. PICK v \in Stores(t, word[Process(t)][a]) : word' = [word EXCEPT ![Process(t)][a] = v]
  BY DEF Store
<1>2. at' = at /\ at[t].pc = "run"  BY DEF Store, Runs
<1>3. Process(t) \in Processes /\ a \in Addrs  BY DEF Process, Processes, Addrs
<1>4. word[Process(t)][a] \in Word  BY <1>3 DEF DInv, IInv, TypeOK
<1>5. v.owner \in {Nobody, t, word[Process(t)][a].owner}
  <2> DEFINE w == word[Process(t)][a]
  <2>1. v = Free \/ v = Owned(t, FALSE) \/ v = [w EXCEPT !.waiters = TRUE]
    BY DEF Stores
  <2>2. [w EXCEPT !.waiters = TRUE].owner = w.owner  BY <1>4 DEF Word
  <2>3. Free.owner = Nobody /\ Owned(t, FALSE).owner = t  BY DEF Free, Owned
  <2> QED  BY <2>1, <2>2, <2>3
<1> SUFFICES ASSUME NEW u \in Tasks, at[u].pc = "dead"
             PROVE  /\ u \in Joinable => word'[Process(u)][u] = Free
                    /\ \A b \in Locks : word'[Process(u)][b].owner # u
  BY <1>2 DEF DeadLeaveNothing
<1>6. u # t /\ u # Nobody /\ u # a  BY <1>2
<1>7. Process(u) \in Processes  BY DEF Process, Processes
<1>8. /\ u \in Joinable => word[Process(u)][u] = Free
      /\ \A b \in Locks : word[Process(u)][b].owner # u
  BY DEF DInv, DeadLeaveNothing
<1>9. \A p \in Processes, b \in Addrs :
         word'[p][b] = IF p = Process(t) /\ b = a THEN v ELSE word[p][b]
  BY <1>1, <1>3 DEF DInv, IInv, TypeOK
<1>10. ASSUME u \in Joinable PROVE word'[Process(u)][u] = Free
  BY <1>6, <1>7, <1>8, <1>9, <1>10 DEF Addrs
<1>11. ASSUME NEW b \in Locks PROVE word'[Process(u)][b].owner # u
  <2>1. b \in Addrs  BY DEF Addrs
  <2>2. CASE Process(u) = Process(t) /\ b = a
    BY <1>5, <1>6, <1>7, <1>8, <1>9, <2>1, <2>2
  <2>3. CASE ~ (Process(u) = Process(t) /\ b = a)
    BY <1>7, <1>8, <1>9, <2>1, <2>3
  <2> QED  BY <2>2, <2>3
<1> QED  BY <1>10, <1>11

LEMMA CleanupPreservesDead ==
    ASSUME DInv, NEW t \in Tasks, Cleanup(t, Process(t), TRUE) PROVE DeadLeaveNothing'
<1> DEFINE p == Process(t)
<1>1. word' = WordsAfter(t, p, TRUE) /\ at' = [at EXCEPT ![t].pc = "dead"]
  BY DEF Cleanup
<1>2. p \in Processes /\ word \in [Processes -> [Addrs -> Word]] /\ at \in [Tasks -> At]
  BY DEF DInv, IInv, TypeOK, Process, Processes
<1>3. ASSUME NEW r \in Processes, NEW b \in Addrs
      PROVE  word'[r][b] = IF r # p THEN word[r][b]
                           ELSE IF b = t /\ t \in Joinable THEN Free
                           ELSE IF b \in Held(t) THEN OwnerDied(word[r][b])
                           ELSE word[r][b]
  <2>1. RobustAfter(t, TRUE)[r][b] =
           IF r = p /\ b \in Held(t) THEN OwnerDied(word[r][b]) ELSE word[r][b]
    BY <1>2 DEF RobustAfter
  <2>2. WordsAfter(t, p, TRUE)[r][b] =
           IF r = p /\ b = t /\ t \in Joinable THEN Free ELSE RobustAfter(t, TRUE)[r][b]
    BY <1>2 DEF WordsAfter, RobustAfter, Addrs
  <2> QED  BY <1>1, <2>1, <2>2
<1>4. \A w \in Word : OwnerDied(w).owner = Nobody  BY DEF OwnerDied, Word
<1>5. Free.owner = Nobody  BY DEF Free, Owned
<1> HIDE DEF p
<1> SUFFICES ASSUME NEW u \in Tasks, at'[u].pc = "dead"
             PROVE  /\ u \in Joinable => word'[Process(u)][u] = Free
                    /\ \A b \in Locks : word'[Process(u)][b].owner # u
  BY DEF DeadLeaveNothing
<1>6. Process(u) \in Processes /\ u # Nobody  BY DEF Process, Processes
<1>7. CASE u = t
  <2>1. u \in Joinable => word'[Process(u)][u] = Free
    BY <1>2, <1>3, <1>7 DEF p, Addrs
  <2>2. ASSUME NEW b \in Locks PROVE word'[Process(u)][b].owner # u
    <3>1. b \in Addrs /\ b # t  BY DEF Addrs
    <3>2. word[p][b] \in Word  BY <1>2, <3>1
    <3>3. CASE b \in Held(t)  BY <1>2, <1>3, <1>4, <1>6, <1>7, <3>1, <3>2, <3>3 DEF p
    <3>4. CASE b \notin Held(t)
      <4>1. word'[p][b] = word[p][b]  BY <1>2, <1>3, <3>1, <3>4
      <4>2. word[p][b].owner # t  BY <3>4 DEF Held, p
      <4> QED  BY <1>7, <4>1, <4>2 DEF p
    <3> QED  BY <3>3, <3>4
  <2> QED  BY <2>1, <2>2
<1>8. CASE u # t
  <2>1. at[u].pc = "dead"  BY <1>1, <1>2, <1>8
  <2>2. /\ u \in Joinable => word[Process(u)][u] = Free
        /\ \A b \in Locks : word[Process(u)][b].owner # u
    BY <2>1 DEF DInv, DeadLeaveNothing
  <2>3. ASSUME u \in Joinable PROVE word'[Process(u)][u] = Free
    <3>1. u \in Addrs /\ u \notin Held(t)  BY <2>3 DEF Addrs, Held
    <3> QED  BY <1>3, <1>6, <1>8, <2>2, <2>3, <3>1
  <2>4. ASSUME NEW b \in Locks PROVE word'[Process(u)][b].owner # u
    <3>1. b \in Addrs  BY DEF Addrs
    <3>2. word[Process(u)][b] \in Word  BY <1>2, <1>6, <3>1
    <3> QED  BY <1>3, <1>4, <1>5, <1>6, <2>2, <3>1, <3>2
  <2> QED  BY <2>3, <2>4
<1> QED  BY <1>7, <1>8

LEMMA DeadKept == ASSUME NoForeignKills, DInv, [Next]_vars PROVE DeadLeaveNothing'
<1>1. CASE Next
  <2>1. PICK t \in Tasks :
          \/ Return(t) \/ Exit(t)
          \/ \E k \in Tasks : Kill(k, t)
          \/ \E a \in Locks : Store(t, a)
          \/ \E a \in Addrs :
              \/ Wait(t, a)
              \/ \E n \in {1, Cardinality(Tasks)}, mask \in Masks : Wake(t, a, n, mask)
    BY <1>1 DEF Next
  <2>2. ASSUME word' = word, \A u \in Tasks : at'[u].pc = "dead" => at[u].pc = "dead"
        PROVE  DeadLeaveNothing'
    BY <2>2 DEF DInv, DeadLeaveNothing
  <2>3. at \in [Tasks -> At]  BY DEF DInv, IInv, TypeOK
  <2>4. CASE Return(t)
    <3>1. word' = word /\ at' = [at EXCEPT ![t] = Idle(~ Answered(t))]  BY <2>4 DEF Return
    <3>2. \A u \in Tasks : at'[u].pc = "dead" => at[u].pc = "dead"
      BY <2>3, <3>1 DEF Idle
    <3> QED  BY <2>2, <3>1, <3>2
  <2>5. CASE Exit(t)  BY <2>5, CleanupPreservesDead DEF Exit
  <2>6. CASE \E k \in Tasks : Kill(k, t)
    <3>1. PICK k \in Tasks : Kill(k, t)  BY <2>6
    <3>2. Process(k) = Process(t)  BY <3>1 DEF Kill, NoForeignKills
    <3>3. Cleanup(t, Process(t), TRUE)  BY <3>1, <3>2 DEF Kill
    <3> QED  BY <3>3, CleanupPreservesDead
  <2>7. CASE \E a \in Locks : Store(t, a)  BY <2>7, StorePreservesDead
  <2>8. CASE \E a \in Addrs : Wait(t, a)
    <3>1. PICK a \in Addrs, i \in Slots, k \in Entries :
             at' = [at EXCEPT ![t] =
                      [pc |-> "wait", addr |-> a, value |-> word[Process(t)][a],
                       timed |-> WaitArgs[t].timed, slot |-> i, entry |-> k, late |-> FALSE]]
      BY <2>8 DEF Wait
    <3>2. word' = word  BY <2>8 DEF Wait
    <3>3. \A u \in Tasks : at'[u].pc = "dead" => at[u].pc = "dead"  BY <2>3, <3>1
    <3> QED  BY <2>2, <3>2, <3>3
  <2>9. CASE \E a \in Addrs, n \in {1, Cardinality(Tasks)}, mask \in Masks : Wake(t, a, n, mask)
    BY <2>2, <2>9 DEF Wake
  <2> QED  BY <2>1, <2>4, <2>5, <2>6, <2>7, <2>8, <2>9
<1>2. CASE UNCHANGED vars  BY <1>2 DEF vars, DInv, DeadLeaveNothing
<1> QED  BY <1>1, <1>2

\* When threads are killed by threads of their own process only, a dead one has
\* left a zero tid word and no lock in its name.
THEOREM DeadThreadsCleanUp == NoForeignKills => (Spec => []DeadLeaveNothing)
<1> SUFFICES ASSUME NoForeignKills PROVE Spec => []DeadLeaveNothing
  OBVIOUS
<1>1. Init => DInv  BY InitIInv, DeadInit DEF DInv
<1>2. DInv /\ [Next]_vars => DInv'
  <2>1. DInv /\ [Next]_vars => IInv'  BY NextKeeps DEF DInv
  <2>2. DInv /\ [Next]_vars => DeadLeaveNothing'  BY DeadKept
  <2> QED  BY <2>1, <2>2 DEF DInv
<1>3. DInv => DeadLeaveNothing  BY DEF DInv
<1> QED  BY <1>1, <1>2, <1>3, PTL DEF Spec

-----------------------------------------------------------------------------
(* The table of waiters of Futex implements FutexPromise, for any number   *)
(* of threads, addresses and slots of one process.                         *)

\* The table is keyed by virtual address, so it serves one address space.
OneProcess == Abroad = {}

\* A thread in a wait is not late: its last wait is the one it is in.
NotLate == \A t \in Tasks : at[t].slot # 0 => ~ at[t].late
RInv == IInv /\ NotLate

-----------------------------------------------------------------------------
(* Counting.                                                               *)

LEMMA SameCount ==
    ASSUME NEW S, NEW T, IsFiniteSet(S), NEW f \in Bijection(S, T)
    PROVE  IsFiniteSet(T) /\ Cardinality(T) = Cardinality(S)
<1>1. ExistsBijection(S, T)  BY Fun_ExistsBij
<1> QED  BY <1>1, FS_Bijection

LEMMA OneToOne ==
    ASSUME NEW S, NEW T, NEW f \in [S -> T],
           \A x, y \in S : f[x] = f[y] => x = y,
           \A z \in T : \E x \in S : f[x] = z
    PROVE  f \in Bijection(S, T)
BY Fun_IsBij

\* The first n of a set of entries are n of them, or all.
LEMMA FirstOfCount ==
    ASSUME NEW S \in SUBSET Nat, IsFiniteSet(S), NEW n \in Nat
    PROVE  /\ FirstOf(S, n) \in SUBSET S
           /\ Cardinality(FirstOf(S, n)) = IF n < Cardinality(S) THEN n ELSE Cardinality(S)
<1> DEFINE N == Cardinality(S)
           below(s) == {j \in S : j < s}
           rank == [s \in S |-> Cardinality(below(s)) + 1]
           least == IF n < N THEN n ELSE N
           F == FirstOf(S, n)
<1>1. N \in Nat  BY FS_CardinalityType
<1>2. ASSUME NEW s \in S
      PROVE  Cardinality(below(s)) \in Nat /\ Cardinality(below(s)) < N
  <2>1. below(s) \in SUBSET S /\ s \notin below(s)  OBVIOUS
  <2>2. /\ Cardinality(below(s)) <= N
        /\ N = Cardinality(below(s)) => S = below(s)
    BY <2>1, FS_Subset
  <2>3. IsFiniteSet(below(s))  BY <2>1, FS_Subset
  <2>4. Cardinality(below(s)) \in Nat  BY <2>3, FS_CardinalityType
  <2>5. N # Cardinality(below(s))  BY <2>1, <2>2
  <2> QED  BY <1>1, <2>2, <2>4, <2>5
<1>3. ASSUME NEW s \in S, NEW t \in S, s < t
      PROVE  Cardinality(below(s)) < Cardinality(below(t))
  <2>1. below(s) \in SUBSET below(t) /\ s \in below(t) /\ s \notin below(s)
    <3>1. \A u \in S : u \in Nat  OBVIOUS
    <3>2. s \in below(t) /\ s \notin below(s)  BY <1>3, <3>1
    <3>3. \A u \in S : u < s => u < t  BY <1>3, <3>1
    <3> QED  BY <3>2, <3>3
  <2>2. IsFiniteSet(below(t))  BY FS_Subset
  <2>3. /\ Cardinality(below(s)) <= Cardinality(below(t))
        /\ Cardinality(below(t)) = Cardinality(below(s)) => below(t) = below(s)
    BY <2>1, <2>2, FS_Subset
  <2>4. Cardinality(below(t)) # Cardinality(below(s))  BY <2>1, <2>3
  <2> QED  BY <1>2, <2>3, <2>4
<1>4. rank \in [S -> 1 .. N]
  <2>1. \A s \in S : Cardinality(below(s)) + 1 \in 1 .. N  BY <1>1, <1>2
  <2> QED  BY <2>1
<1>5. F = {k \in S : Cardinality(below(k)) < n}  BY DEF FirstOf
<1> HIDE DEF below
<1>6. ASSUME NEW s \in S, NEW t \in S, Cardinality(below(s)) = Cardinality(below(t))
      PROVE  s = t
  <2>1. Cardinality(below(s)) \in Nat /\ Cardinality(below(t)) \in Nat  BY <1>2
  <2>2. ~ s < t  BY <1>3, <1>6, <2>1
  <2>3. ~ t < s  BY <1>3, <1>6, <2>1
  <2> QED  BY <2>2, <2>3
<1>7. rank \in Injection(S, 1 .. N)
  <2>1. \A s, t \in S : rank[s] = rank[t] => s = t  BY <1>2, <1>6
  <2> QED  BY <1>4, <2>1 DEF Injection, IsInjective
<1>8. IsFiniteSet(1 .. N) /\ Cardinality(1 .. N) = N  BY <1>1, FS_Interval
<1>9. rank \in Surjection(S, 1 .. N)  BY <1>7, <1>8, FS_Injection
<1>10. \A k \in 1 .. N : \E s \in S : rank[s] = k  BY <1>9 DEF Surjection
<1>11. IsFiniteSet(F) /\ F \in SUBSET S  BY <1>5, FS_Subset
<1>11a. \A s \in F : s \in S /\ Cardinality(below(s)) < n  BY <1>5
<1>11b. \A s \in S : Cardinality(below(s)) < n => s \in F  BY <1>5
<1> HIDE DEF F
<1> DEFINE f == [s \in F |-> Cardinality(below(s)) + 1]
<1>12. f \in [F -> 1 .. least]
  <2>1. ASSUME NEW s \in F PROVE Cardinality(below(s)) + 1 \in 1 .. least
    <3> DEFINE c == Cardinality(below(s))
    <3>1. c \in Nat /\ c < N /\ c < n  BY <1>2, <1>11a
    <3> HIDE DEF c, N
    <3>2. c + 1 \in 1 .. least  BY <1>1, <3>1
    <3> QED  BY <3>2 DEF c
  <2> QED  BY <2>1
<1>13. ASSUME NEW x \in F, NEW y \in F, f[x] = f[y] PROVE x = y
  <2>1. x \in S /\ y \in S  BY <1>11a
  <2>2. Cardinality(below(x)) \in Nat /\ Cardinality(below(y)) \in Nat  BY <1>2, <2>1
  <2>3. Cardinality(below(x)) + 1 = Cardinality(below(y)) + 1  BY <1>13
  <2>4. Cardinality(below(x)) = Cardinality(below(y))  BY <2>2, <2>3
  <2> QED  BY <1>6, <2>1, <2>4
<1>14. ASSUME NEW k \in 1 .. least PROVE \E x \in F : f[x] = k
  <2>1. k \in 1 .. N /\ k <= n  BY <1>1
  <2>2. PICK s \in S : rank[s] = k  BY <1>10, <2>1
  <2>3. Cardinality(below(s)) + 1 = k  BY <2>2
  <2>4. Cardinality(below(s)) < n  BY <1>2, <2>1, <2>3
  <2>5. s \in F  BY <1>11b, <2>4
  <2> QED  BY <2>3, <2>5
<1> HIDE DEF f, least
<1>15. Cardinality(1 .. least) = Cardinality(F)
  <2>1. f \in Bijection(F, 1 .. least)  BY <1>12, <1>13, <1>14, OneToOne
  <2> QED  BY <1>11, <2>1, SameCount
<1>16. least \in Nat  BY <1>1 DEF least
<1>17. Cardinality(1 .. least) = least  BY <1>16, FS_Interval
<1> QED  BY <1>11, <1>15, <1>17 DEF F, least

\* FutexPromise counts with the same operator.
LEMMA CardinalityThere == \A S : Promise!Cardinality(S) = Cardinality(S)
BY DEF Promise!Cardinality, Cardinality

-----------------------------------------------------------------------------
(* Wakes.                                                                  *)

LEMMA ReachedIs ==
    ASSUME IInv, NEW i \in Slots, NEW asking, NEW mask
    PROVE  Reached(i, asking, mask) =
             IF slot[i] = NoAddr THEN {} ELSE FirstOf(Matching(i, mask), asking[slot[i]])
<1>1. CASE slot[i] # NoAddr
  <2>1. \A j \in With(slot[i]) : j = i
    BY <1>1 DEF IInv, TableMatchesWaiters, OneSlot, With
  <2>2. i \in With(slot[i]) /\ i <= i  BY DEF With, Slots
  <2>3. IsFirst(i, With(slot[i]))  BY <2>1, <2>2 DEF IsFirst
  <2> QED  BY <1>1, <2>3 DEF Reached
<1> QED  BY <1>1 DEF Reached

\* The tasks whose entries a wake marks.
Marked(asking, mask) ==
    {u \in Tasks : at[u].slot # 0 /\ at[u].entry \in Reached(at[u].slot, asking, mask)}

LEMMA PlaceOf ==
    ASSUME IInv, NEW u \in Tasks, at[u].slot # 0
    PROVE  /\ at[u].slot \in Slots /\ at[u].entry \in Entries /\ at[u].addr \in Addrs
           /\ Mine(u).used /\ Mine(u).task = u /\ Mine(u) \in Waiter
           /\ slot[at[u].slot] = at[u].addr
<1>1. at[u].slot \in Slots /\ at[u].entry \in Entries /\ at[u].addr \in Addrs
  BY DEF IInv, TypeOK, At, Slots, Entries
<1>2. Mine(u) \in Waiter  BY <1>1 DEF IInv, TypeOK, Mine
<1> QED  BY <1>1, <1>2 DEF IInv, TableMatchesWaiters, EntryIsMine

\* The waits of an address, read off the table.
LEMMA SleepersAre ==
    ASSUME OneProcess, NEW a \in Addrs, NEW mask
    PROVE  Promise!Sleepers(1, a, mask) =
             {u \in Tasks : /\ at[u].slot # 0 /\ at[u].addr = a
                            /\ ~ Mine(u).woken /\ Mine(u).mask \cap mask # {}}
<1>1. \A u \in Tasks : Promise!Process(u) = 1  BY DEF OneProcess, Promise!Process
<1>2. ASSUME NEW u \in Tasks
      PROVE  u \in Promise!Sleepers(1, a, mask)
               <=> /\ at[u].slot # 0 /\ at[u].addr = a
                   /\ ~ Mine(u).woken /\ Mine(u).mask \cap mask # {}
  <2>1. CASE at[u].slot = 0
    <3>1. wait[u] = [waiting |-> FALSE]  BY <2>1 DEF wait
    <3> QED  BY <2>1, <3>1 DEF Promise!Sleepers
  <2>2. CASE at[u].slot # 0
    <3>1. /\ wait[u].waiting /\ wait[u].addr = at[u].addr
          /\ wait[u].woken = Mine(u).woken /\ wait[u].mask = Mine(u).mask
      BY <2>2 DEF wait
    <3> QED  BY <1>1, <2>2, <3>1 DEF Promise!Sleepers
  <2> QED  BY <2>1, <2>2
<1>3. Promise!Sleepers(1, a, mask) \subseteq Tasks  BY DEF Promise!Sleepers
<1> QED  BY <1>2, <1>3

\* A wake marks as many of the waiters of each address as it was asked for.
LEMMA MarkedArePicked ==
    ASSUME IInv, OneProcess, NEW mask, NEW asking, \A a \in Addrs : asking[a] \in Nat
    PROVE  Promise!Picked(Marked(asking, mask), 1, asking, mask)
<1> DEFINE W == Marked(asking, mask)
           S(a) == Promise!Sleepers(1, a, mask)
<1>1. ASSUME NEW u \in W
      PROVE  u \in Tasks /\ at[u].addr \in Addrs /\ u \in S(at[u].addr)
  <2>1. u \in Tasks /\ at[u].slot # 0 /\ at[u].entry \in Reached(at[u].slot, asking, mask)
    BY DEF Marked
  <2>2. /\ at[u].slot \in Slots /\ at[u].entry \in Entries /\ at[u].addr \in Addrs
        /\ slot[at[u].slot] = at[u].addr
    BY <2>1, PlaceOf
  <2>3. at[u].entry \in FirstOf(Matching(at[u].slot, mask), asking[at[u].addr])
    BY <2>1, <2>2, ReachedIs
  <2>4. at[u].entry \in Matching(at[u].slot, mask)  BY <2>3 DEF FirstOf
  <2>5. ~ Mine(u).woken /\ Mine(u).mask \cap mask # {}  BY <2>4 DEF Matching, Mine
  <2> QED  BY <2>1, <2>2, <2>5, SleepersAre
<1>2. W \subseteq UNION {S(a) : a \in Addrs}  BY <1>1
<1>3. ASSUME NEW a \in Addrs
      PROVE  Cardinality(W \cap S(a)) =
               IF asking[a] < Cardinality(S(a)) THEN asking[a] ELSE Cardinality(S(a))
  <2>1. S(a) \in SUBSET Tasks  BY SleepersAre
  <2>2. IsFiniteSet(S(a)) /\ IsFiniteSet(W \cap S(a))  BY <2>1, FS_Subset
  <2>3. \A u \in S(a) : /\ u \in Tasks /\ at[u].slot # 0 /\ at[u].addr = a
                        /\ ~ Mine(u).woken /\ Mine(u).mask \cap mask # {}
    BY SleepersAre
  <2>4. a # NoAddr  OBVIOUS
  <2>5. CASE With(a) = {}
    <3>1. S(a) = {}
      <4> SUFFICES ASSUME NEW u \in S(a) PROVE FALSE  OBVIOUS
      <4>1. at[u].slot \in Slots /\ slot[at[u].slot] = a  BY <2>3, PlaceOf
      <4> QED  BY <2>5, <4>1 DEF With
    <3>2. W \cap S(a) = {} /\ Cardinality({}) = 0  BY <3>1, FS_EmptySet
    <3>3. asking[a] \in Nat  OBVIOUS
    <3>4. Cardinality(W \cap S(a)) = 0 /\ Cardinality(S(a)) = 0  BY <3>1, <3>2
    <3> QED  BY <3>3, <3>4
  <2>6. CASE With(a) # {}
    <3>1. PICK i \in Slots : slot[i] = a  BY <2>6 DEF With
    <3> DEFINE M == Matching(i, mask)
               F == FirstOf(M, asking[a])
               all == [u \in S(a) |-> at[u].entry]
               some == [u \in W \cap S(a) |-> at[u].entry]
    <3>2. Reached(i, asking, mask) = F  BY <2>4, <3>1, ReachedIs
    <3>3. \A u \in S(a) : at[u].slot = i
      <4>1. \A u \in S(a) : at[u].slot \in Slots /\ slot[at[u].slot] = a  BY <2>3, PlaceOf
      <4> QED  BY <2>4, <3>1, <4>1 DEF IInv, TableMatchesWaiters, OneSlot
    <3>4. ASSUME NEW u \in S(a) PROVE at[u].entry \in M
      <4>1. at[u].entry \in Entries /\ Mine(u).used  BY <2>3, PlaceOf
      <4> QED  BY <2>3, <3>3, <4>1 DEF Matching, Mine
    <3>5. \A u, v \in S(a) : at[u].entry = at[v].entry => u = v
      <4>1. \A u \in S(a) : waiters[i][at[u].entry].task = u  BY <2>3, <3>3, PlaceOf DEF Mine
      <4> QED  BY <4>1
    <3>6. ASSUME NEW k \in M PROVE \E u \in S(a) : at[u].entry = k
      <4>1. k \in Entries /\ waiters[i][k].used /\ ~ waiters[i][k].woken
            /\ waiters[i][k].mask \cap mask # {}
        BY DEF Matching
      <4>2. PICK u \in Tasks : at[u].slot = i /\ at[u].entry = k
        BY <3>1, <4>1 DEF IInv, TableMatchesWaiters, EntryIsSomebodys
      <4>3. at[u].slot # 0  BY <4>2 DEF Slots
      <4>4. at[u].addr = a  BY <3>1, <4>2, <4>3, PlaceOf
      <4>5. Mine(u) = waiters[i][k]  BY <4>2 DEF Mine
      <4>6. u \in S(a)  BY <4>1, <4>3, <4>4, <4>5, SleepersAre
      <4> QED  BY <4>2, <4>6
    <3>7. \A u \in S(a) : u \in W <=> at[u].entry \in F
      BY <2>3, <3>2, <3>3 DEF Marked
    <3>8. IsFiniteSet(M) /\ Cardinality(M) = Cardinality(S(a))
      <4>1. all \in [S(a) -> M]  BY <3>4
      <4>2. \A x, y \in S(a) : all[x] = all[y] => x = y  BY <3>5
      <4>3. \A z \in M : \E x \in S(a) : all[x] = z  BY <3>6
      <4> HIDE DEF all, M, S
      <4>4. all \in Bijection(S(a), M)  BY <4>1, <4>2, <4>3, OneToOne
      <4> QED  BY <2>2, <4>4, SameCount
    <3>9. M \in SUBSET Nat  BY DEF Matching, Entries
    <3>10. /\ F \in SUBSET M
           /\ Cardinality(F) = IF asking[a] < Cardinality(M) THEN asking[a] ELSE Cardinality(M)
      <4>1. asking[a] \in Nat  OBVIOUS
      <4> HIDE DEF M
      <4> QED  BY <3>8, <3>9, <4>1, FirstOfCount
    <3> HIDE DEF M, F, S, W
    <3>11. Cardinality(F) = Cardinality(W \cap S(a))
      <4>1. some \in [W \cap S(a) -> F]  BY <3>7
      <4>2. \A x, y \in W \cap S(a) : some[x] = some[y] => x = y  BY <3>5
      <4>3. \A z \in F : \E x \in W \cap S(a) : some[x] = z  BY <3>6, <3>7, <3>10
      <4> HIDE DEF some
      <4>4. some \in Bijection(W \cap S(a), F)  BY <4>1, <4>2, <4>3, OneToOne
      <4> QED  BY <2>2, <4>4, SameCount
    <3> QED  BY <3>8, <3>10, <3>11
  <2> QED  BY <2>5, <2>6
<1> QED  BY <1>2, <1>3, CardinalityThere DEF Promise!Picked, Promise!Addrs, Addrs

LEMMA WokenRecord ==
    ASSUME NEW w, NEW a, NEW v, NEW m, NEW d, NEW b,
           w = [waiting |-> TRUE, addr |-> a, value |-> v, mask |-> m, timed |-> d, woken |-> b]
    PROVE  [w EXCEPT !.woken = TRUE]
             = [waiting |-> TRUE, addr |-> a, value |-> v, mask |-> m, timed |-> d, woken |-> TRUE]
<1> DEFINE x == [w EXCEPT !.woken = TRUE]
           fields == {"waiting", "addr", "value", "mask", "timed", "woken"}
<1>1. DOMAIN w = fields  OBVIOUS
<1>2. x = [f \in DOMAIN w |-> x[f]]  OBVIOUS
<1>3. x = [f \in fields |-> x[f]]  BY <1>1, <1>2
<1>4. /\ x.waiting = TRUE /\ x.addr = a /\ x.value = v /\ x.mask = m
      /\ x.timed = d /\ x.woken = TRUE
  BY <1>1
<1> HIDE DEF x
<1>5. x = [waiting |-> x.waiting, addr |-> x.addr, value |-> x.value, mask |-> x.mask,
           timed |-> x.timed, woken |-> x.woken]
  BY <1>3
<1> QED  BY <1>4, <1>5 DEF x

\* Marking an entry rouses the thread that waits on it.
LEMMA WaitsAfterWake ==
    ASSUME IInv, NEW asking, NEW mask, waiters' = Awakened(asking, mask),
           \A u \in Tasks : /\ at'[u].slot = at[u].slot /\ at'[u].entry = at[u].entry
                            /\ at'[u].addr = at[u].addr /\ at'[u].value = at[u].value
                            /\ at'[u].timed = at[u].timed
    PROVE  wait' = Promise!Roused(Marked(asking, mask))
<1> DEFINE W == Marked(asking, mask)
<1>1. ASSUME NEW u \in Tasks
      PROVE  wait'[u] = IF u \in W THEN [wait[u] EXCEPT !.woken = TRUE] ELSE wait[u]
  <2>1. CASE at[u].slot = 0
    <3>1. u \notin W  BY <2>1 DEF Marked
    <3> QED  BY <2>1, <3>1 DEF wait
  <2>2. CASE at[u].slot # 0
    <3>1. at[u].slot \in Slots /\ at[u].entry \in Entries /\ Mine(u) \in Waiter
      BY <2>2, PlaceOf
    <3>2. u \in W <=> at[u].entry \in Reached(at[u].slot, asking, mask)  BY <2>2 DEF Marked
    <3>3. Mine(u)' = IF u \in W THEN [Mine(u) EXCEPT !.woken = TRUE] ELSE Mine(u)
      BY <3>1, <3>2 DEF Awakened, Woken, Mine
    <3>4. /\ wait[u] = [waiting |-> TRUE, addr |-> at[u].addr, value |-> at[u].value,
                        mask |-> Mine(u).mask, timed |-> at[u].timed, woken |-> Mine(u).woken]
          /\ wait'[u] = [waiting |-> TRUE, addr |-> at[u].addr, value |-> at[u].value,
                         mask |-> (Mine(u)').mask, timed |-> at[u].timed,
                         woken |-> (Mine(u)').woken]
      BY <2>2 DEF wait
    <3> HIDE DEF W
    <3>5. CASE u \in W
      <4>1. (Mine(u)').mask = Mine(u).mask /\ (Mine(u)').woken = TRUE
        BY <3>1, <3>3, <3>5 DEF Waiter
      <4>2. [wait[u] EXCEPT !.woken = TRUE]
              = [waiting |-> TRUE, addr |-> at[u].addr, value |-> at[u].value,
                 mask |-> Mine(u).mask, timed |-> at[u].timed, woken |-> TRUE]
        BY <3>4, WokenRecord
      <4> QED  BY <3>4, <3>5, <4>1, <4>2
    <3>6. CASE u \notin W  BY <3>3, <3>4, <3>6
    <3> QED  BY <3>5, <3>6
  <2> QED  BY <2>1, <2>2
<1>2. wait' = [u \in Tasks |-> wait'[u]]  BY DEF wait
<1> QED  BY <1>1, <1>2 DEF Promise!Roused

-----------------------------------------------------------------------------
(* Steps.                                                                  *)

LEMMA AwakeThere ==
    ASSUME IInv, NEW t \in Tasks, Runs(t) PROVE Promise!Awake(t) /\ t \notin dead
<1>1. at[t].slot = 0 /\ at[t].pc = "run"  BY DEF IInv, TypeOK, Runs
<1>2. wait[t] = [waiting |-> FALSE]  BY <1>1 DEF wait
<1>3. t \notin dead  BY <1>1 DEF dead
<1> QED  BY <1>2, <1>3 DEF Promise!Awake

LEMMA InitPromised == Init => Promise!Init
<1> SUFFICES ASSUME Init PROVE Promise!Init  OBVIOUS
<1>1. \A t \in Tasks : at[t].slot = 0 /\ at[t].pc = "run" /\ ~ at[t].late
  BY DEF Init, Idle
<1>2. wait = [t \in Tasks |-> Promise!NoWait]  BY <1>1 DEF wait, Promise!NoWait
<1>3. dead = {} /\ late = {}  BY <1>1 DEF dead, late
<1>4. word = [p \in 1 .. 2 |-> [a \in Promise!Addrs |->
                IF a \in Joinable /\ Promise!Process(a) = p THEN Promise!Owned(a, FALSE)
                ELSE Promise!Free]]
  BY DEF Init, Processes, Addrs, Process, Owned, Free, Nobody,
         Promise!Addrs, Promise!Process, Promise!Owned, Promise!Free, Promise!Nobody
<1> QED  BY <1>2, <1>3, <1>4 DEF Promise!Init

LEMMA StorePromised ==
    ASSUME IInv, NEW t \in Tasks, NEW a \in Locks, Store(t, a)
    PROVE  Promise!Next
<1>1. PICK v \in Stores(t, word[Process(t)][a]) : word' = [word EXCEPT ![Process(t)][a] = v]
  BY DEF Store
<1>2. slot' = slot /\ waiters' = waiters /\ at' = at /\ Runs(t)  BY DEF Store
<1>3. word[Process(t)][a] \in Word
  BY DEF IInv, TypeOK, Process, Processes, Addrs
<1>4. v \in Word
  <2> DEFINE w == word[Process(t)][a]
  <2>1. v = Free \/ v = Owned(t, FALSE) \/ v = [w EXCEPT !.waiters = TRUE]  BY DEF Stores
  <2>2. Free \in Word /\ Owned(t, FALSE) \in Word  BY DEF Free, Owned, Word
  <2>3. [w EXCEPT !.waiters = TRUE] \in Word  BY <1>3 DEF Word
  <2> QED  BY <2>1, <2>2, <2>3
<1>5. PICK o \in Tasks \cup {Nobody}, w \in BOOLEAN, d \in BOOLEAN :
        v = [owner |-> o, waiters |-> w, died |-> d]
  BY <1>4 DEF Word
<1>6. wait' = wait /\ dead' = dead /\ late' = late  BY <1>2 DEF wait, dead, late, Mine
<1>7. Promise!Store(t, a, [owner |-> o, waiters |-> w, died |-> d])
  BY <1>1, <1>2, <1>5, <1>6, AwakeThere DEF Promise!Store, Promise!Process, Process
<1>8. o \in Tasks \cup {Promise!Nobody}  BY DEF Nobody, Promise!Nobody
<1> QED  BY <1>7, <1>8 DEF Promise!Next

LEMMA WakePromised ==
    ASSUME IInv, OneProcess, NEW t \in Tasks, NEW a \in Addrs,
           NEW n \in {1, Cardinality(Tasks)}, NEW mask \in Masks, Wake(t, a, n, mask)
    PROVE  Promise!Next
<1> DEFINE asking == [b \in Addrs |-> IF b = a THEN n ELSE 0]
           W == Marked(asking, mask)
<1>1. /\ Runs(t) /\ waiters' = Awakened(asking, mask)
      /\ word' = word /\ slot' = slot /\ at' = at
  BY DEF Wake
<1>2. n \in Nat  BY FS_CardinalityType
<1>3. \A b \in Addrs : asking[b] \in Nat  BY <1>2
<1> HIDE DEF asking
<1>4. wait' = Promise!Roused(W)  BY <1>1, WaitsAfterWake
<1>5. Promise!Picked(W, 1, asking, mask)  BY <1>3, MarkedArePicked
<1>6. dead' = dead /\ late' = late  BY <1>1 DEF dead, late
<1>7. W \in SUBSET Tasks  BY DEF Marked
<1>8. Promise!Process(t) = 1  BY DEF OneProcess, Promise!Process
<1>9. asking = [b \in Promise!Addrs |-> IF b = a THEN n ELSE 0]
  BY DEF asking, Promise!Addrs, Addrs
<1> HIDE DEF W
<1>10. Promise!Wake(t, a, n, mask)
  BY <1>1, <1>4, <1>5, <1>6, <1>7, <1>8, <1>9, AwakeThere DEF Promise!Wake
<1>11. n \in {1, Promise!Cardinality(Tasks)} /\ a \in Promise!Addrs
  BY CardinalityThere DEF Promise!Addrs, Addrs
<1> QED  BY <1>10, <1>11 DEF Promise!Next

LEMMA DiePromised ==
    ASSUME IInv, OneProcess, NEW t \in Tasks, at[t].pc # "dead", Cleanup(t, 1, TRUE)
    PROVE  Promise!Next
<1> DEFINE asking == WakesAfter(t, TRUE)
           W == Marked(asking, AnyMask)
           held == {a \in Locks : word[1][a].owner = t}
<1>1. /\ word' = WordsAfter(t, 1, TRUE) /\ waiters' = Awakened(asking, AnyMask)
      /\ at' = [at EXCEPT ![t].pc = "dead"] /\ slot' = slot
  BY DEF Cleanup
<1>2. Process(t) = 1 /\ Promise!Process(t) = 1
  BY DEF OneProcess, Process, Promise!Process
<1>3. Held(t) = held  BY <1>2 DEF Held
<1>4. Cardinality(Tasks) \in Nat  BY FS_CardinalityType
<1>5. asking = [a \in Addrs |->
                  IF a = t THEN Cardinality(Tasks)
                  ELSE IF a \in held /\ word[1][a].waiters THEN 1 ELSE 0]
  BY <1>2, <1>3 DEF WakesAfter
<1> HIDE DEF asking, held
<1>6. \A a \in Addrs : asking[a] \in Nat
  <2> SUFFICES ASSUME NEW a \in Addrs PROVE asking[a] \in Nat  OBVIOUS
  <2>1. asking[a] \in {Cardinality(Tasks), 1, 0}  BY <1>5
  <2> QED  BY <1>4, <2>1
<1> USE DEF held
<1>7. at \in [Tasks -> At] /\ at[t] \in At  BY DEF IInv, TypeOK
<1>8. \A u \in Tasks : /\ at'[u].slot = at[u].slot /\ at'[u].entry = at[u].entry
                       /\ at'[u].addr = at[u].addr /\ at'[u].value = at[u].value
                       /\ at'[u].timed = at[u].timed /\ at'[u].late = at[u].late
                       /\ at'[u].pc = IF u = t THEN "dead" ELSE at[u].pc
  <2>1. at' = [at EXCEPT ![t] = [at[t] EXCEPT !.pc = "dead"]]  BY <1>1
  <2>2. LET a == [at[t] EXCEPT !.pc = "dead"]
        IN  /\ a.slot = at[t].slot /\ a.entry = at[t].entry /\ a.addr = at[t].addr
            /\ a.value = at[t].value /\ a.timed = at[t].timed /\ a.late = at[t].late
            /\ a.pc = "dead"
    BY <1>7 DEF At
  <2> QED  BY <1>7, <2>1, <2>2
<1>9. wait' = Promise!Roused(W)  BY <1>1, <1>8, WaitsAfterWake
<1>10. Promise!Picked(W, 1, asking, AnyMask)  BY <1>6, MarkedArePicked
<1>11. dead' = dead \cup {t} /\ t \notin dead /\ late' = late  BY <1>8 DEF dead, late
<1>12. W \in SUBSET Tasks  BY DEF Marked
<1>13. word' = [word EXCEPT ![1] = [a \in Promise!Addrs |->
                  IF a = t THEN Promise!Free
                  ELSE IF a \in held THEN [@[a] EXCEPT !.owner = Promise!Nobody, !.died = TRUE]
                  ELSE @[a]]]
  <2> DEFINE after == [a \in Addrs |-> IF a = t THEN Free
                         ELSE IF a \in held THEN OwnerDied(word[1][a]) ELSE word[1][a]]
             robust == [a \in Addrs |-> IF a \in held THEN OwnerDied(word[1][a]) ELSE word[1][a]]
  <2>1. word \in [Processes -> [Addrs -> Word]] /\ 1 \in Processes
    BY DEF IInv, TypeOK, Processes
  <2>2. RobustAfter(t, TRUE) = [word EXCEPT ![1] = robust]
    BY <1>2, <1>3 DEF RobustAfter
  <2>3. word' = [word EXCEPT ![1] = after]
    <3>1. CASE t \in Joinable
      <4>1. word' = [word EXCEPT ![1] = [robust EXCEPT ![t] = Free]]
        <5> HIDE DEF robust
        <5> QED  BY <1>1, <2>1, <2>2, <3>1 DEF WordsAfter
      <4>2. [robust EXCEPT ![t] = Free] = after  OBVIOUS
      <4> QED  BY <4>1, <4>2
    <3>2. CASE t \notin Joinable
      <4>1. \A a \in Addrs : a # t  BY <3>2 DEF Addrs
      <4>2. robust = after  BY <4>1
      <4> QED  BY <1>1, <2>2, <3>2, <4>2 DEF WordsAfter
    <3> QED  BY <3>1, <3>2
  <2>4. after = [a \in Promise!Addrs |->
                   IF a = t THEN Promise!Free
                   ELSE IF a \in held
                        THEN [word[1][a] EXCEPT !.owner = Promise!Nobody, !.died = TRUE]
                   ELSE word[1][a]]
    BY DEF OwnerDied, Addrs, Free, Owned, Nobody,
           Promise!Addrs, Promise!Free, Promise!Owned, Promise!Nobody
  <2> HIDE DEF after
  <2> QED  BY <2>3, <2>4
<1>14. asking = [a \in Promise!Addrs |->
                   IF a = t THEN Promise!Cardinality(Tasks)
                   ELSE IF a \in held /\ word[1][a].waiters THEN 1 ELSE 0]
  BY <1>5, CardinalityThere DEF Promise!Addrs, Addrs
<1> HIDE DEF W
<1>15. Promise!Die(t)
  BY <1>2, <1>9, <1>10, <1>11, <1>12, <1>13, <1>14 DEF Promise!Die, AnyMask
<1> QED  BY <1>15 DEF Promise!Next

\* Entries of other tasks are not touched by a wait or a return.
LEMMA OtherWaits ==
    ASSUME IInv, NEW t \in Tasks,
           \A u \in Tasks \ {t} : at'[u] = at[u],
           \A u \in Tasks \ {t} : at[u].slot # 0 =>
               waiters'[at[u].slot][at[u].entry] = waiters[at[u].slot][at[u].entry]
    PROVE  \A u \in Tasks \ {t} : wait'[u] = wait[u]
<1> SUFFICES ASSUME NEW u \in Tasks \ {t} PROVE wait'[u] = wait[u]  OBVIOUS
<1>1. CASE at[u].slot = 0  BY <1>1 DEF wait
<1>2. CASE at[u].slot # 0
  <2>1. Mine(u)' = Mine(u)  BY <1>2 DEF Mine
  <2> QED  BY <1>2, <2>1 DEF wait
<1> QED  BY <1>1, <1>2

LEMMA WaitPromised ==
    ASSUME IInv, NEW t \in Tasks, NEW a \in Addrs, Wait(t, a)
    PROVE  Promise!Next /\ \A u \in Tasks : at'[u].late => at[u].late /\ at'[u] = at[u]
<1>1. PICK i \in Slots, k \in Entries :
          /\ Found(a, i)
          /\ IsFirst(k, FreeEntries(Opened(a, i)))
          /\ waiters' = [waiters EXCEPT ![i] = [Opened(a, i) EXCEPT ![k] =
                           [used |-> TRUE, woken |-> FALSE, task |-> t, mask |-> WaitArgs[t].mask]]]
          /\ at' = [at EXCEPT ![t] =
                      [pc |-> "wait", addr |-> a, value |-> word[Process(t)][a],
                       timed |-> WaitArgs[t].timed, slot |-> i, entry |-> k, late |-> FALSE]]
  BY DEF Wait
<1>2. TypeOK /\ SlotIsUsed /\ word' = word /\ Runs(t)
  BY DEF IInv, TableMatchesWaiters, Wait
<1> DEFINE me == [pc |-> "wait", addr |-> a, value |-> word[Process(t)][a],
                  timed |-> WaitArgs[t].timed, slot |-> i, entry |-> k, late |-> FALSE]
           new == [used |-> TRUE, woken |-> FALSE, task |-> t, mask |-> WaitArgs[t].mask]
<1>3. at'[t] = me /\ \A u \in Tasks \ {t} : at'[u] = at[u]
  BY <1>1, <1>2 DEF TypeOK
<1>4. ~ Opened(a, i)[k].used /\ k \in Entries  BY <1>1 DEF IsFirst, FreeEntries
<1>5. slot[i] = a \/ slot[i] = NoAddr  BY <1>1, FoundIs
<1>6. Opened(a, i) \in [Entries -> Waiter]
  BY <1>2, NoWaiterType DEF Opened, TypeOK
<1> HIDE DEF new
<1>7. /\ waiters'[i][k] = new
      /\ \A m \in Entries \ {k} : waiters'[i][m] = Opened(a, i)[m]
      /\ \A j \in Slots \ {i} : waiters'[j] = waiters[j]
  BY <1>1, <1>2, <1>6 DEF TypeOK, new
<1>8. \A u \in Tasks \ {t} : at[u].slot # 0 =>
         waiters'[at[u].slot][at[u].entry] = waiters[at[u].slot][at[u].entry]
  <2> SUFFICES ASSUME NEW u \in Tasks \ {t}, at[u].slot # 0
               PROVE  waiters'[at[u].slot][at[u].entry] = waiters[at[u].slot][at[u].entry]
    OBVIOUS
  <2>1. /\ at[u].slot \in Slots /\ at[u].entry \in Entries
        /\ waiters[at[u].slot][at[u].entry].used
    BY PlaceOf DEF Mine
  <2>2. CASE at[u].slot # i  BY <1>7, <2>1, <2>2
  <2>3. CASE at[u].slot = i
    <3>1. slot[i] = a  BY <1>2, <1>5, <2>1, <2>3 DEF SlotIsUsed
    <3>2. Opened(a, i) = waiters[i]  BY <3>1 DEF Opened
    <3>3. at[u].entry # k  BY <1>4, <2>1, <2>3, <3>2
    <3> QED  BY <1>7, <2>1, <2>3, <3>2, <3>3
  <2> QED  BY <2>2, <2>3
<1>9. \A u \in Tasks \ {t} : wait'[u] = wait[u]
  BY <1>3, <1>8, OtherWaits
<1>10. wait'[t] = [waiting |-> TRUE, addr |-> a, value |-> word[Process(t)][a],
                   mask |-> WaitArgs[t].mask, timed |-> WaitArgs[t].timed, woken |-> FALSE]
  <2>1. at'[t].slot = i /\ i # 0 /\ at'[t].entry = k /\ at'[t].addr = a
        /\ at'[t].value = word[Process(t)][a] /\ at'[t].timed = WaitArgs[t].timed
    BY <1>3 DEF Slots
  <2>2. Mine(t)' = new  BY <1>7, <2>1 DEF Mine
  <2>3. (Mine(t)').mask = WaitArgs[t].mask /\ (Mine(t)').woken = FALSE  BY <2>2 DEF new
  <2> QED  BY <2>1, <2>3 DEF wait
<1>11. wait' = [wait EXCEPT ![t] =
                  [waiting |-> TRUE, addr |-> a, value |-> word[Promise!Process(t)][a],
                   mask |-> WaitArgs[t].mask, timed |-> WaitArgs[t].timed, woken |-> FALSE]]
  <2>1. wait \in [Tasks -> {wait[u] : u \in Tasks}] /\ wait' = [u \in Tasks |-> wait'[u]]
    BY DEF wait
  <2>2. Promise!Process(t) = Process(t)  BY DEF Process, Promise!Process
  <2> QED  BY <1>9, <1>10, <2>1, <2>2
<1>12. /\ at'[t].pc = "wait" /\ ~ at'[t].late  BY <1>3
<1> HIDE DEF me
<1>13. dead' = dead /\ late' = late \ {t}
  BY <1>2, <1>3, <1>12 DEF dead, late, Runs
<1>14. Promise!Wait(t, a, WaitArgs[t].mask, WaitArgs[t].timed)
  BY <1>2, <1>11, <1>13, AwakeThere DEF Promise!Wait
<1>15. /\ WaitArgs[t].mask \in Masks /\ WaitArgs[t].timed \in BOOLEAN
       /\ a \in Promise!Addrs
  BY DEF Promise!Addrs, Addrs
<1>16. Promise!Next  BY <1>14, <1>15 DEF Promise!Next
<1> QED  BY <1>3, <1>12, <1>16

LEMMA ReturnPromised ==
    ASSUME RInv, NEW t \in Tasks, Return(t) PROVE Promise!Next
<1> DEFINE i == at[t].slot
           k == at[t].entry
<1>1. IInv /\ TypeOK /\ Waits(t) /\ word' = word
  BY DEF RInv, IInv, Return
<1>2. i # 0 /\ i \in Slots /\ k \in Entries /\ Mine(t).used /\ Mine(t).task = t
  BY <1>1, PlaceOf DEF TypeOK
<1>3. /\ Answered(t) \/ at[t].timed
      /\ waiters' = [waiters EXCEPT ![i][k] = NoWaiter]
      /\ at' = [at EXCEPT ![t] = Idle(~ Answered(t))]
  BY DEF Return, Cleared
<1>4. /\ at'[t] = Idle(~ Answered(t)) /\ \A u \in Tasks \ {t} : at'[u] = at[u]
  BY <1>1, <1>3 DEF TypeOK
<1>5. \A u \in Tasks \ {t} : at[u].slot # 0 =>
         waiters'[at[u].slot][at[u].entry] = waiters[at[u].slot][at[u].entry]
  <2> SUFFICES ASSUME NEW u \in Tasks \ {t}, at[u].slot # 0
               PROVE  waiters'[at[u].slot][at[u].entry] = waiters[at[u].slot][at[u].entry]
    OBVIOUS
  <2>1. at[u].slot \in Slots /\ at[u].entry \in Entries /\ Mine(u).task = u
    BY <1>1, PlaceOf
  <2>2. ~ (at[u].slot = i /\ at[u].entry = k)  BY <1>2, <2>1 DEF Mine
  <2> QED  BY <1>1, <1>2, <1>3, <2>1, <2>2 DEF TypeOK
<1>6. \A u \in Tasks \ {t} : wait'[u] = wait[u]  BY <1>1, <1>4, <1>5, OtherWaits
<1>7. wait'[t] = [waiting |-> FALSE]
  <2>1. at'[t].slot = 0  BY <1>4 DEF Idle
  <2> QED  BY <2>1 DEF wait
<1>8. wait' = [wait EXCEPT ![t] = Promise!NoWait]
  <2>1. wait \in [Tasks -> {wait[u] : u \in Tasks}] /\ wait' = [u \in Tasks |-> wait'[u]]
    BY DEF wait
  <2> QED  BY <1>6, <1>7, <2>1 DEF Promise!NoWait
<1>9. /\ wait[t].waiting /\ wait[t].addr = at[t].addr /\ wait[t].value = at[t].value
      /\ wait[t].timed = at[t].timed /\ wait[t].woken = Mine(t).woken
  BY <1>2 DEF wait
<1>10. Answered(t) <=>
         word[Promise!Process(t)][wait[t].addr] # wait[t].value \/ wait[t].woken
  BY <1>9 DEF Answered, Process, Promise!Process
<1>11. ~ at[t].late  BY <1>2 DEF RInv, NotLate
<1>12. at'[t].pc = "run" /\ at'[t].late = ~ Answered(t)  BY <1>4 DEF Idle
<1>13. at[t].pc = "wait"  BY <1>1 DEF Waits
<1>14. dead' = dead /\ t \notin dead  BY <1>4, <1>12, <1>13 DEF dead
<1>15. late' = IF Answered(t) THEN late ELSE late \cup {t}
  BY <1>4, <1>11, <1>12 DEF late
<1>16. Promise!Return(t)
  BY <1>1, <1>3, <1>8, <1>9, <1>10, <1>14, <1>15 DEF Promise!Return
<1> QED  BY <1>16 DEF Promise!Next

LEMMA NotLateKept == ASSUME RInv, [Next]_vars PROVE NotLate'
<1>1. at \in [Tasks -> At]  BY DEF RInv, IInv, TypeOK
<1>2. ASSUME NEW t \in Tasks, NEW m, at' = [at EXCEPT ![t] = m], m.slot # 0 => ~ m.late
      PROVE  NotLate'
  BY <1>1, <1>2 DEF RInv, NotLate
<1>3. CASE at' = at  BY <1>3 DEF RInv, NotLate
<1>4. ASSUME NEW t \in Tasks, NEW a \in Addrs, Wait(t, a) PROVE NotLate'
  <2>1. \A u \in Tasks : at'[u].late => at[u].late /\ at'[u] = at[u]
    BY <1>4, WaitPromised DEF RInv
  <2> QED  BY <2>1 DEF RInv, NotLate
<1>5. ASSUME NEW t \in Tasks, Return(t) PROVE NotLate'
  <2>1. at' = [at EXCEPT ![t] = Idle(~ Answered(t))]  BY <1>5 DEF Return
  <2>2. Idle(~ Answered(t)).slot = 0  BY DEF Idle
  <2> QED  BY <1>2, <2>1, <2>2
<1>6. ASSUME NEW t \in Tasks, NEW q, NEW robust, Cleanup(t, q, robust) PROVE NotLate'
  <2>1. at' = [at EXCEPT ![t] = [at[t] EXCEPT !.pc = "dead"]]  BY <1>6 DEF Cleanup
  <2>2. at[t] \in At  BY <1>1
  <2>3. [at[t] EXCEPT !.pc = "dead"].slot = at[t].slot
        /\ [at[t] EXCEPT !.pc = "dead"].late = at[t].late
    BY <2>2 DEF At
  <2> QED  BY <1>2, <2>1, <2>3 DEF RInv, NotLate
<1> QED
  BY <1>3, <1>4, <1>5, <1>6 DEF Next, vars, Store, Wake, Exit, Kill

LEMMA StepPromised ==
    ASSUME RInv, OneProcess, [Next]_vars
    PROVE  [Promise!Next]_<<word, wait, dead, late>>
<1>1. CASE Next
  <2>1. PICK t \in Tasks :
          \/ Return(t) \/ Exit(t)
          \/ \E k \in Tasks : Kill(k, t)
          \/ \E a \in Locks : Store(t, a)
          \/ \E a \in Addrs :
              \/ Wait(t, a)
              \/ \E n \in {1, Cardinality(Tasks)}, mask \in Masks : Wake(t, a, n, mask)
    BY <1>1 DEF Next
  <2>2. IInv  BY DEF RInv
  <2>3. \A u \in Tasks : Process(u) = 1  BY DEF OneProcess, Process
  <2>4. CASE Return(t)  BY <2>4, ReturnPromised
  <2>5. CASE Exit(t)
    <3>1. at[t].pc # "dead" /\ Cleanup(t, 1, TRUE)  BY <2>3, <2>5 DEF Exit, Runs
    <3> QED  BY <2>2, <3>1, DiePromised
  <2>6. CASE \E k \in Tasks : Kill(k, t)
    <3>1. PICK k \in Tasks : Kill(k, t)  BY <2>6
    <3>2. (Process(k) = Process(t)) = TRUE  BY <2>3
    <3>3. at[t].pc # "dead" /\ Cleanup(t, 1, TRUE)
      BY <2>3, <3>1, <3>2 DEF Kill, Runs, Waits
    <3> QED  BY <2>2, <3>3, DiePromised
  <2>7. CASE \E a \in Locks : Store(t, a)  BY <2>2, <2>7, StorePromised
  <2>8. CASE \E a \in Addrs : Wait(t, a)  BY <2>2, <2>8, WaitPromised
  <2>9. CASE \E a \in Addrs, n \in {1, Cardinality(Tasks)}, mask \in Masks : Wake(t, a, n, mask)
    BY <2>2, <2>9, WakePromised
  <2> QED  BY <2>1, <2>4, <2>5, <2>6, <2>7, <2>8, <2>9
<1>2. CASE UNCHANGED vars
  <2>1. word' = word /\ waiters' = waiters /\ at' = at  BY <1>2 DEF vars
  <2> QED  BY <2>1 DEF wait, dead, late, Mine
<1> QED  BY <1>1, <1>2

(* What the threads of a process see of linux_compat_futex6, task_exit and *)
(* task_kill is FutexPromise: a wait ends only for a reason, a wake picks  *)
(* as many of the waiters on its word as it was asked for, whatever slot   *)
(* and entries the table has given them, and the dead hand over what they  *)
(* held.                                                                   *)
THEOREM TableKeepsPromise == OneProcess => (Spec => PromiseKept)
<1> SUFFICES ASSUME OneProcess PROVE Spec => PromiseKept
  OBVIOUS
<1>1. Init => RInv /\ Promise!Init
  <2>1. Init => NotLate  BY DEF Init, NotLate, Idle
  <2> QED  BY <2>1, InitIInv, InitPromised DEF RInv
<1>2. RInv /\ [Next]_vars => RInv'  BY NextKeeps, NotLateKept DEF RInv
<1>3. RInv /\ [Next]_vars => [Promise!Next]_<<word, wait, dead, late>>
  BY StepPromised
<1> QED  BY <1>1, <1>2, <1>3, PTL DEF Spec, PromiseKept, Promise!Spec
=============================================================================
