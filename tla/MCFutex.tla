------------------------------- MODULE MCFutex -------------------------------
(* The instances of Futex that TLC checks.                                 *)
EXTENDS Futex

CONSTANTS t1, t2, t3, lock, bit1, bit2

\* t2 waits for any bit, with a timeout.
MCWaitArgs ==
    [t \in {t1, t2, t3} |->
        CASE t = t1 -> [mask |-> {bit1}, timed |-> FALSE]
          [] t = t2 -> [mask |-> {bit1, bit2}, timed |-> TRUE]
          [] t = t3 -> [mask |-> {bit2}, timed |-> FALSE]]
=============================================================================
