----------------------------- MODULE FutexPromise -----------------------------
(***************************************************************************)
(* What futexes promise to the threads of a process, without the table     *)
(* that keeps the waiters: a waiter returns only with a reason (its word   *)
(* changed, it was woken, or its time is up), a wake picks as many of the  *)
(* waiters on its word as it was asked for, and a thread that dies hands   *)
(* over its locks and its tid word.  A wake may be spent on a thread that  *)
(* was killed while it waited.                                             *)
(***************************************************************************)
EXTENDS Naturals, FiniteSets

CONSTANTS Tasks, Abroad, Locks, Joinable, Masks

Addrs == Locks \cup Joinable
Process(t) == IF t \in Abroad THEN 2 ELSE 1
Nobody == "nobody"
Owned(o, w) == [owner |-> o, waiters |-> w, died |-> FALSE]
Free == Owned(Nobody, FALSE)
NoWait == [waiting |-> FALSE]

VARIABLES
    word,     \* word[p][a], the user word at address a of process p
    wait,     \* what each thread waits for, a killed one's wait included
    dead,
    late      \* whose last wait returned ETIMEDOUT

Init ==
    /\ word = [p \in 1..2 |-> [a \in Addrs |->
                  IF a \in Joinable /\ Process(a) = p THEN Owned(a, FALSE) ELSE Free]]
    /\ wait = [t \in Tasks |-> NoWait]
    /\ dead = {}
    /\ late = {}

Awake(t) == t \notin dead /\ ~ wait[t].waiting
Sleepers(p, a, mask) ==
    {t \in Tasks : /\ wait[t].waiting /\ ~ wait[t].woken
                   /\ Process(t) = p /\ wait[t].addr = a
                   /\ wait[t].mask \cap mask # {}}

Store(t, a, v) ==
    /\ Awake(t)
    /\ word' = [word EXCEPT ![Process(t)][a] = v]
    /\ UNCHANGED <<wait, dead, late>>

Wait(t, a, mask, timed) ==
    /\ Awake(t)
    /\ wait' = [wait EXCEPT ![t] =
                  [waiting |-> TRUE, addr |-> a, value |-> word[Process(t)][a],
                   mask |-> mask, timed |-> timed, woken |-> FALSE]]
    /\ late' = late \ {t}
    /\ UNCHANGED <<word, dead>>

Return(t) ==
    LET w == wait[t]
        answered == word[Process(t)][w.addr] # w.value \/ w.woken
    IN  /\ t \notin dead /\ w.waiting
        /\ answered \/ w.timed
        /\ wait' = [wait EXCEPT ![t] = NoWait]
        /\ late' = IF answered THEN late ELSE late \cup {t}
        /\ UNCHANGED <<word, dead>>

\* W are the threads that asking[a] wakes on each word a of process p reach.
Picked(W, p, asking, mask) ==
    /\ W \subseteq UNION {Sleepers(p, a, mask) : a \in Addrs}
    /\ \A a \in Addrs :
          LET all == Cardinality(Sleepers(p, a, mask))
          IN  Cardinality(W \cap Sleepers(p, a, mask)) =
                  IF asking[a] < all THEN asking[a] ELSE all
Roused(W) == [t \in Tasks |-> IF t \in W THEN [wait[t] EXCEPT !.woken = TRUE] ELSE wait[t]]

Wake(t, a, n, mask) ==
    /\ Awake(t)
    /\ UNCHANGED <<word, dead, late>>
    /\ \E W \in SUBSET Tasks :
          /\ wait' = Roused(W)
          /\ Picked(W, Process(t), [b \in Addrs |-> IF b = a THEN n ELSE 0], mask)

\* A dead thread's tid word is zero and its waiters are woken; the locks it
\* held are marked, and one waiter of each is woken if it said there are any.
Die(t) ==
    LET p == Process(t)
        held == {a \in Locks : word[p][a].owner = t}
        asking == [a \in Addrs |->
                     IF a = t THEN Cardinality(Tasks)
                     ELSE IF a \in held /\ word[p][a].waiters THEN 1 ELSE 0]
    IN  /\ t \notin dead
        /\ dead' = dead \cup {t}
        /\ word' = [word EXCEPT ![p] = [a \in Addrs |->
                      IF a = t THEN Free
                      ELSE IF a \in held THEN [@[a] EXCEPT !.owner = Nobody, !.died = TRUE]
                      ELSE @[a]]]
        /\ UNCHANGED late
        /\ \E W \in SUBSET Tasks : wait' = Roused(W) /\ Picked(W, p, asking, UNION Masks)

Next ==
    \E t \in Tasks :
        \/ Return(t) \/ Die(t)
        \/ \E a \in Addrs, mask \in Masks :
            \/ \E timed \in BOOLEAN : Wait(t, a, mask, timed)
            \/ \E n \in {1, Cardinality(Tasks)} : Wake(t, a, n, mask)
        \/ \E a \in Locks, o \in Tasks \cup {Nobody}, w \in BOOLEAN, d \in BOOLEAN :
            Store(t, a, [owner |-> o, waiters |-> w, died |-> d])

Spec == Init /\ [][Next]_<<word, wait, dead, late>>
=============================================================================
