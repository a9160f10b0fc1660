------------------------------- MODULE TimerFd -------------------------------
(***************************************************************************)
(* One timerfd (linux_compat.c:226-352): armed with a first expiry and an  *)
(* interval, read for the number of expirations.  Program times come in    *)
(* units of which TickUnits make a tick of the timer interrupt.            *)
(***************************************************************************)
EXTENDS Integers

CONSTANTS TickUnits,   \* 1000000000 / pit_get_frequency_hz(), in program units
          LastTick,    \* bound: the clock stops here
          TimerValues, \* the times that programs ask for, in program units
          Reboot       \* the ticks at which the timer may be created

ASSUME TimerAssumption ==
    /\ TickUnits \in Nat \ {0} /\ LastTick \in Nat
    /\ TimerValues \subseteq Nat /\ Reboot \subseteq 0 .. LastTick

VARIABLES tick,      \* pit_get_ticks()
          timer,     \* deadline_ticks (0: not armed) and interval_ticks
          asked,     \* what settime was last asked for, and when
          expired,   \* expirations read since then
          reading    \* yields left to a blocking read, 0 when none waits

timerVars == <<tick, timer, asked, expired, reading>>

Disarmed == [deadline |-> 0, interval |-> 0]
Settings == [value : TimerValues, interval : TimerValues, at : 0 .. LastTick,
             absolute : BOOLEAN]
NotAsked == [value |-> 0]

TimerTypeOK ==
    /\ tick \in 0 .. LastTick
    /\ timer \in [deadline : Nat, interval : Nat]
    /\ asked \in Settings \cup {NotAsked}
    /\ expired \in Nat
    /\ reading \in 0 .. 4

TimerInit ==
    /\ tick \in Reboot
    /\ timer = Disarmed
    /\ asked = NotAsked
    /\ expired = 0
    /\ reading = 0

timerfd_timespec_to_ticks(units) == units \div TickUnits

linux_compat_timerfd_settime(value, interval, absolute) ==
    LET ticks == timerfd_timespec_to_ticks(value) IN
    /\ timer' = [deadline |-> IF ticks = 0 THEN 0
                              ELSE IF absolute THEN ticks ELSE tick + ticks,
                 interval |-> timerfd_timespec_to_ticks(interval)]
    /\ asked' = [value |-> value, interval |-> interval, at |-> tick,
                 absolute |-> absolute]
    /\ expired' = 0
    /\ UNCHANGED <<tick, reading>>

timerfd_ready == timer.deadline # 0 /\ tick >= timer.deadline

(* mutant: the next deadline counts from now *)
AdvancedFromNow ==
    IF ~timerfd_ready THEN timer
    ELSE IF timer.interval = 0 THEN [timer EXCEPT !.deadline = 0]
    ELSE [timer EXCEPT !.deadline = tick + timer.interval]

Expirations ==
    IF ~timerfd_ready THEN 0
    ELSE IF timer.interval = 0 THEN 1
    ELSE 1 + (tick - timer.deadline) \div timer.interval

(* The loop of timerfd_tick_expired, which moves the deadline on. *)
Advanced ==
    IF ~timerfd_ready THEN timer
    ELSE IF timer.interval = 0 THEN [timer EXCEPT !.deadline = 0]
    ELSE [timer EXCEPT !.deadline = @ + Expirations * timer.interval]

(* read: at once, or after some of at most four yields, or EAGAIN. *)
TimerRead ==
    /\ timer' = Advanced
    /\ expired' = expired + Expirations
    /\ reading' = IF Expirations > 0 THEN 0 ELSE IF reading = 0 THEN 4 ELSE reading - 1
    /\ UNCHANGED <<tick, asked>>

TimerTick ==
    /\ tick < LastTick
    /\ tick' = tick + 1
    /\ UNCHANGED <<timer, asked, expired, reading>>

TimerNext ==
    \/ \E value, interval \in TimerValues, absolute \in BOOLEAN :
          linux_compat_timerfd_settime(value, interval, absolute)
    \/ TimerRead
    \/ TimerTick

TimerSpec == TimerInit /\ [][TimerNext]_timerVars

-----------------------------------------------------------------------------
(* Properties. *)

WholeTicks(units) == units % TickUnits = 0
First == IF asked.absolute THEN asked.value \div TickUnits
         ELSE asked.at + asked.value \div TickUnits
Due == IF asked = NotAsked \/ asked.value = 0 \/ tick < First THEN 0
       ELSE IF asked.interval = 0 THEN 1
       ELSE 1 + (tick - First) \div (asked.interval \div TickUnits)

(* What has been read and what the next read would return are together     *)
(* exactly the expirations that are due, however late the reads come, for  *)
(* times that are whole ticks.                                             *)
NoExpirationLost ==
    asked # NotAsked /\ WholeTicks(asked.value) /\ WholeTicks(asked.interval)
        => expired + Expirations = Due

TimerSafe == TimerTypeOK /\ NoExpirationLost

(* An armed timer is armed: settime with a time that is not zero leaves a  *)
(* deadline (docs/LINUX_KDE_COMPAT.md:71 promises one-shot and periodic    *)
(* timers).  Times below a tick are rounded to zero, which disarms.        *)
ArmedTimersFire ==
    asked # NotAsked /\ asked.value > 0 /\ expired = 0 => timer.deadline # 0
=============================================================================
