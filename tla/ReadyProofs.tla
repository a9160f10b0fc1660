----------------------------- MODULE ReadyProofs -----------------------------
(***************************************************************************)
(* The safety of Signals, for any signals, masks, flags and actions, while *)
(* the alternate stack and the queue of the signalfd have room; of timerfd *)
(* and of epoll, for any times, clock and tables; and of local sockets,    *)
(* for any number of them, of messages and of connections that wait.       *)
(***************************************************************************)
EXTENDS Signals, TimerFd, Readiness, UnixSocket, FiniteSetTheorems, FunctionTheorems,
        SequenceTheorems, NaturalsInduction, WellFoundedInduction, TLAPS

\* The numbers from 1 to m are m.
LEMMA RangeSize ==
  ASSUME NEW m \in Nat
  PROVE  IsFiniteSet(1 .. m) /\ Cardinality(1 .. m) = m
<1>1. /\ IsFiniteSet(1 .. m)
      /\ Cardinality(1 .. m) = IF 1 > m THEN 0 ELSE m - 1 + 1
  BY FS_Interval
<1> QED  BY <1>1

USE SignalsAssumption

\* A frame that does not fit on the alternate stack is the last of a nest.
AltStackHasRoom == NestMax <= AltFrames + 1
\* The child of a fork in a handler does not have its parent's frames.
NoForkInHandler == ForksInHandler = FALSE
\* A delivery that drops signals for want of room in the queue of the signalfd.
Overflows == task_sig_deliver /\ Len(signals.queue) + Cardinality(Taken(signals)) > SignalQueue

Actions == UserActions \cup {DefaultAction, IgnoreAction}
State == [alive : BOOLEAN, pending : SUBSET SignalNumbers,
          blocked : SUBSET SignalNumbers, action : [SignalNumbers -> Actions],
          frame_active : BOOLEAN, saved : Frames, siginfo_depth : 0 .. NestMax,
          altstack : BOOLEAN, rsp : Positions, stack : [Positions -> Frames],
          watched : SUBSET SignalNumbers, queue : Seq(SignalNumbers)]
Context == [blocked : SUBSET SignalNumbers, rsp : Positions]
Handler == [sig : SignalNumbers, kind : {"saved", "siginfo"}, was : Context]
Now == [signals : State, handlers : Seq(Handler), owed : SUBSET SignalNumbers]

\* Where the stack pointer is in the i-th handler; 0 is the program itself.
PositionIn(now, i) ==
    IF i = Len(now.handlers) THEN now.signals.rsp ELSE now.handlers[i + 1].was.rsp

\* The first m frames are on the main stack, the others on the alternate one.
Place(m, i) == IF i <= m THEN [stack |-> "main", at |-> i] ELSE [stack |-> "alt", at |-> i - m]
OnTwoStacks(now) ==
    \E m \in 0 .. Len(now.handlers) : \A i \in 0 .. Len(now.handlers) :
        PositionIn(now, i) = Place(m, i)

FrameFor(now, i) == [blocked |-> now.handlers[i].was.blocked,
                     rsp |-> now.handlers[i].was.rsp, below |-> i - 1]

\* Either one handler whose frame is in task_t, or all frames are on stacks.
SavedAlone(now) ==
    /\ now.signals.frame_active /\ now.signals.siginfo_depth = 0
    /\ Len(now.handlers) = 1 /\ now.handlers[1].kind = "saved"
    /\ now.signals.saved = FrameFor(now, 1)
AllOnStacks(now) ==
    /\ ~ now.signals.frame_active /\ now.signals.siginfo_depth = Len(now.handlers)
    /\ \A i \in 1 .. Len(now.handlers) :
          /\ now.handlers[i].kind = "siginfo"
          /\ now.signals.stack[PositionIn(now, i)] = FrameFor(now, i)
Framed(now) == OnTwoStacks(now) /\ (SavedAlone(now) \/ AllOnStacks(now))

Kept(now) ==
    now.signals.alive => now.owed \subseteq now.signals.pending \cup ToSet(now.signals.queue)

NowInv(now) == now \in Now /\ Framed(now) /\ Kept(now)

SignalsInv ==
    /\ NowInv(Current)
    /\ Len(signals.queue) <= SignalQueue
    /\ sent \in 0 .. MaxSent /\ faults \in 0 .. MaxFaults

-----------------------------------------------------------------------------
(* Sets of signals.                                                        *)

LEMMA LowestIs ==
    ASSUME NEW S \in SUBSET Nat, S # {}
    PROVE  Lowest(S) \in S
<1>1. PICK n \in S : \A m \in S : ~ (<<m, n>> \in OpToRel(<, Nat))
  BY NatLessThanWellFounded, WFMin
<1>2. \A m \in S : ~ m < n  BY <1>1 DEF OpToRel
<1>3. n \in S /\ \A m \in S : n <= m  BY <1>2
<1> QED  BY <1>3 DEF Lowest

LEMMA SignalSets ==
    ASSUME NEW S \in SUBSET SignalNumbers
    PROVE  /\ IsFiniteSet(S) /\ Cardinality(S) \in Nat /\ S \in SUBSET Nat
           /\ \A T \in SUBSET S : Cardinality(T) <= Cardinality(S)
<1>1. IsFiniteSet(SignalNumbers)  BY FS_Interval DEF SignalNumbers
<1>2. IsFiniteSet(S)  BY <1>1, FS_Subset
<1>3. Cardinality(S) \in Nat  BY <1>2, FS_CardinalityType
<1>4. \A T \in SUBSET S : Cardinality(T) <= Cardinality(S)  BY <1>2, FS_Subset
<1>5. S \in SUBSET Nat  BY DEF SignalNumbers
<1> QED  BY <1>2, <1>3, <1>4, <1>5

\* The k-th lowest signal of a set is well defined, and each has its place.
LEMMA AscendingIs ==
    ASSUME NEW S \in SUBSET SignalNumbers
    PROVE  /\ Ascending(S) \in Seq(S) /\ Len(Ascending(S)) = Cardinality(S)
           /\ \A s \in S : \E k \in 1 .. Cardinality(S) : Ascending(S)[k] = s
<1> DEFINE n == Cardinality(S)
           below(s) == {t \in S : t < s}
           rank == [s \in S |-> Cardinality(below(s)) + 1]
<1>1. IsFiniteSet(S) /\ n \in Nat /\ S \in SUBSET Nat  BY SignalSets
<1>2. ASSUME NEW s \in S
      PROVE  Cardinality(below(s)) \in Nat /\ Cardinality(below(s)) < n
  <2>1. below(s) \in SUBSET S /\ s \notin below(s)  BY <1>1
  <2>2. /\ Cardinality(below(s)) <= n
        /\ n = Cardinality(below(s)) => S = below(s)
    BY <1>1, <2>1, FS_Subset
  <2>3. IsFiniteSet(below(s))  BY <1>1, <2>1, FS_Subset
  <2>4. Cardinality(below(s)) \in Nat  BY <2>3, FS_CardinalityType
  <2>5. n # Cardinality(below(s))  BY <2>1, <2>2
  <2> QED  BY <1>1, <2>2, <2>4, <2>5
<1>3. ASSUME NEW s \in S, NEW t \in S, s < t
      PROVE  Cardinality(below(s)) < Cardinality(below(t))
  <2>1. below(s) \in SUBSET below(t) /\ s \in below(t) /\ s \notin below(s)
    <3>1. \A u \in S : u \in Nat  BY <1>1
    <3> QED  BY <1>3, <3>1
  <2>2. IsFiniteSet(below(t))  BY <1>1, FS_Subset
  <2>3. /\ Cardinality(below(s)) <= Cardinality(below(t))
        /\ Cardinality(below(t)) = Cardinality(below(s)) => below(t) = below(s)
    BY <2>1, <2>2, FS_Subset
  <2>4. Cardinality(below(t)) # Cardinality(below(s))  BY <2>1, <2>3
  <2> QED  BY <1>2, <2>3, <2>4
<1>4. rank \in [S -> 1 .. n]
  <2>1. \A s \in S : Cardinality(below(s)) + 1 \in 1 .. n  BY <1>1, <1>2
  <2> QED  BY <2>1
<1> HIDE DEF below
<1>5. ASSUME NEW s \in S, NEW t \in S, Cardinality(below(s)) = Cardinality(below(t))
      PROVE  s = t
  <2>1. Cardinality(below(s)) \in Nat /\ Cardinality(below(t)) \in Nat  BY <1>2
  <2>2. ~ s < t  BY <1>3, <1>5, <2>1
  <2>3. ~ t < s  BY <1>3, <1>5, <2>1
  <2>4. s \in Nat /\ t \in Nat  BY <1>1
  <2> QED  BY <2>2, <2>3, <2>4
<1>6. rank \in Injection(S, 1 .. n)
  <2>1. \A s, t \in S : rank[s] = rank[t] => s = t  BY <1>2, <1>5
  <2> QED  BY <1>4, <2>1 DEF Injection, IsInjective
<1>7. IsFiniteSet(1 .. n) /\ Cardinality(1 .. n) = n  BY <1>1, RangeSize
<1>8. rank \in Surjection(S, 1 .. n)  BY <1>6, <1>7, FS_Injection
<1>9. \A k \in 1 .. n : \E s \in S : rank[s] = k  BY <1>8 DEF Surjection
<1>10. \A k \in 1 .. n : \E s \in S : Cardinality(below(s)) = k - 1
  BY <1>1, <1>2, <1>9
<1>11. Ascending(S) = [k \in 1 .. n |-> CHOOSE s \in S : Cardinality(below(s)) = k - 1]
  BY DEF Ascending, below
<1>12. \A k \in 1 .. n : /\ Ascending(S)[k] \in S
                         /\ Cardinality(below(Ascending(S)[k])) = k - 1
  BY <1>10, <1>11
<1>13. Ascending(S) \in Seq(S) /\ Len(Ascending(S)) = n
  BY <1>1, <1>11, <1>12
<1>14. ASSUME NEW s \in S PROVE \E k \in 1 .. n : Ascending(S)[k] = s
  <2>1. Cardinality(below(s)) + 1 \in 1 .. n  BY <1>1, <1>2
  <2>2. Ascending(S)[Cardinality(below(s)) + 1] = s  BY <1>2, <1>5, <1>12, <2>1
  <2> QED  BY <2>1, <2>2
<1> QED  BY <1>13, <1>14

-----------------------------------------------------------------------------
(* Frames and handlers.                                                    *)

\* Frames depend on nothing else of a process.
LEMMA SameFrames ==
    ASSUME NEW now, NEW new, Framed(now),
           new.handlers = now.handlers,
           new.signals.rsp = now.signals.rsp,
           new.signals.stack = now.signals.stack,
           new.signals.saved = now.signals.saved,
           new.signals.frame_active = now.signals.frame_active,
           new.signals.siginfo_depth = now.signals.siginfo_depth
    PROVE  Framed(new)
<1>1. \A i : PositionIn(new, i) = PositionIn(now, i)  BY DEF PositionIn
<1>2. \A i : FrameFor(new, i) = FrameFor(now, i)  BY DEF FrameFor
<1>3. OnTwoStacks(new)  BY <1>1 DEF Framed, OnTwoStacks
<1>4. SavedAlone(new) <=> SavedAlone(now)  BY <1>2 DEF SavedAlone
<1>5. AllOnStacks(new) <=> AllOnStacks(now)  BY <1>1, <1>2 DEF AllOnStacks
<1> QED  BY <1>3, <1>4, <1>5 DEF Framed

LEMMA ActionType ==
    \A a \in Actions : a.mask \in SUBSET SignalNumbers
<1>1. \A a \in UserActions : a.mask \in SUBSET SignalNumbers
  BY DEF UserActions, SignalNumbers
<1> QED  BY <1>1 DEF Actions, DefaultAction, IgnoreAction

LEMMA ConsumeIs ==
    ASSUME NEW st \in State, NEW s \in SignalNumbers
    PROVE  LET c == linux_signal_consume(st, s)
           IN  /\ c \in State
               /\ c.alive = st.alive /\ c.pending = st.pending \ {s} /\ c.queue = st.queue
               /\ c.frame_active = st.frame_active /\ c.saved = st.saved
               /\ c.siginfo_depth = st.siginfo_depth /\ c.altstack = st.altstack
               /\ c.rsp = st.rsp /\ c.stack = st.stack
<1> DEFINE a == st.action[s]
           more == IF "NODEFER" \in a.flags THEN {} ELSE {s}
           next == IF "RESETHAND" \in a.flags THEN DefaultAction ELSE a
<1>1. a \in Actions /\ a.mask \in SUBSET SignalNumbers  BY ActionType DEF State
<1>2. linux_signal_consume(st, s)
        = [st EXCEPT !.pending = @ \ {s}, !.blocked = @ \cup a.mask \cup more,
                     !.action[s] = IF "RESETHAND" \in a.flags THEN DefaultAction ELSE @]
  BY DEF linux_signal_consume
<1>3. st.blocked \cup a.mask \cup more \in SUBSET SignalNumbers  BY <1>1 DEF State
<1>4. next \in Actions  BY <1>1 DEF Actions
<1>5. [st.action EXCEPT ![s] = next] \in [SignalNumbers -> Actions]
  BY <1>4 DEF State
<1>6. linux_signal_consume(st, s)
        = [st EXCEPT !.pending = st.pending \ {s}, !.blocked = st.blocked \cup a.mask \cup more,
                     !.action = [st.action EXCEPT ![s] = next]]
  BY <1>2 DEF State
<1> DEFINE c == linux_signal_consume(st, s)
<1> HIDE DEF a, more, next, c
<1>7. c = [st EXCEPT !.pending = st.pending \ {s}, !.blocked = st.blocked \cup a.mask \cup more,
                     !.action = [st.action EXCEPT ![s] = next]]
  BY <1>6 DEF c
<1>8. c \in State  BY <1>3, <1>5, <1>7 DEF State
<1>9. /\ c.alive = st.alive /\ c.pending = st.pending \ {s} /\ c.queue = st.queue
      /\ c.frame_active = st.frame_active /\ c.saved = st.saved
      /\ c.siginfo_depth = st.siginfo_depth /\ c.altstack = st.altstack
      /\ c.rsp = st.rsp /\ c.stack = st.stack
  BY <1>7 DEF State
<1> QED  BY <1>8, <1>9 DEF c

\* What entering a handler does besides the frame.
HandlerAdded(now, st, s, kind, e) ==
    /\ e \in Now /\ Kept(e)
    /\ e.signals = st
    /\ Len(e.handlers) = Len(now.handlers) + 1
    /\ \A i \in 1 .. Len(now.handlers) : e.handlers[i] = now.handlers[i]
    /\ e.handlers[Len(now.handlers) + 1] =
         [sig |-> s, kind |-> kind,
          was |-> [blocked |-> now.signals.blocked, rsp |-> now.signals.rsp]]

LEMMA EnteredKeeps ==
    ASSUME NEW now, NowInv(now), NEW s \in SignalNumbers,
           NEW st \in State, NEW kind \in {"saved", "siginfo"},
           st.alive = now.signals.alive, st.pending = now.signals.pending \ {s},
           st.queue = now.signals.queue,
           NEW e, e = Entered(now, st, s, kind)
    PROVE  HandlerAdded(now, st, s, kind, e)
<1> DEFINE h == [sig |-> s, kind |-> kind,
                 was |-> [blocked |-> now.signals.blocked, rsp |-> now.signals.rsp]]
<1>1. now \in Now /\ Kept(now)  BY DEF NowInv
<1>2. /\ now.signals \in State /\ now.handlers \in Seq(Handler)
      /\ now.owed \in SUBSET SignalNumbers
  BY <1>1 DEF Now
<1>3. /\ now.signals.pending \in SUBSET SignalNumbers
      /\ now.signals.blocked \in SUBSET SignalNumbers /\ now.signals.rsp \in Positions
      /\ now.signals.queue \in Seq(SignalNumbers)
  BY <1>2 DEF State
<1>4. h \in Handler  BY <1>3 DEF Handler, Context
<1>5. /\ e.signals = st /\ e.handlers = Append(now.handlers, h) /\ e.owed = now.owed \ {s}
      /\ e = [signals |-> st, handlers |-> Append(now.handlers, h), owed |-> now.owed \ {s}]
  BY DEF Entered
<1> HIDE DEF h
<1>6. Append(now.handlers, h) \in Seq(Handler)  BY <1>2, <1>4
<1>7. e \in Now  BY <1>2, <1>5, <1>6 DEF Now
<1>8. Kept(e)  BY <1>1, <1>5 DEF Kept
<1>10. /\ Len(e.handlers) = Len(now.handlers) + 1
       /\ \A i \in 1 .. Len(now.handlers) : e.handlers[i] = now.handlers[i]
       /\ e.handlers[Len(now.handlers) + 1] = h
  BY <1>2, <1>4, <1>5
<1> QED  BY <1>5, <1>7, <1>8, <1>10 DEF h, HandlerAdded

\* The place of one frame more, on the stack in use or on the other.
LEMMA NextPlace ==
    ASSUME NEW n \in Nat, NEW m \in 0 .. n, NEW cell,
           \/ cell = [Place(m, n) EXCEPT !.at = @ + 1]
           \/ m = n /\ cell = [stack |-> "alt", at |-> 1]
    PROVE  \E k \in 0 .. n + 1 : /\ \A i \in 0 .. n : Place(k, i) = Place(m, i)
                                /\ cell = Place(k, n + 1)
<1>1. CASE m = n /\ cell = [stack |-> "alt", at |-> 1]
  <2>1. \A i \in 0 .. n : Place(n, i) = Place(m, i)  BY <1>1
  <2>2. cell = Place(n, n + 1)  BY <1>1 DEF Place
  <2>3. n \in 0 .. n + 1  OBVIOUS
  <2> QED  BY <2>1, <2>2, <2>3
<1>2. CASE m = n /\ cell = [Place(m, n) EXCEPT !.at = @ + 1]
  <2>1. \A i \in 0 .. n : Place(n + 1, i) = Place(m, i)  BY <1>2 DEF Place
  <2>2. Place(m, n) = [stack |-> "main", at |-> n]  BY <1>2 DEF Place
  <2>3. cell = [stack |-> "main", at |-> n + 1]  BY <1>2, <2>2
  <2>4. cell = Place(n + 1, n + 1)  BY <2>3 DEF Place
  <2>5. n + 1 \in 0 .. n + 1  OBVIOUS
  <2> QED  BY <2>1, <2>4, <2>5
<1>3. CASE m # n /\ cell = [Place(m, n) EXCEPT !.at = @ + 1]
  <2>1. Place(m, n) = [stack |-> "alt", at |-> n - m]  BY <1>3 DEF Place
  <2>2. cell = [stack |-> "alt", at |-> n - m + 1]  BY <1>3, <2>1
  <2>3. n - m + 1 = (n + 1) - m /\ ~ n + 1 <= m  OBVIOUS
  <2>4. cell = Place(m, n + 1)  BY <2>2, <2>3 DEF Place
  <2>5. m \in 0 .. n + 1  OBVIOUS
  <2> QED  BY <2>4, <2>5
<1> QED  BY <1>1, <1>2, <1>3

LEMMA PlacesDiffer ==
    ASSUME NEW n \in Nat, NEW m \in 0 .. n, NEW i \in 0 .. n, NEW j \in 0 .. n, i # j
    PROVE  Place(m, i) # Place(m, j)
<1>1. (Place(m, i)).at = (IF i <= m THEN i ELSE i - m) /\ (Place(m, i)).stack = (IF i <= m THEN "main" ELSE "alt")
  BY DEF Place
<1>2. (Place(m, j)).at = (IF j <= m THEN j ELSE j - m) /\ (Place(m, j)).stack = (IF j <= m THEN "main" ELSE "alt")
  BY DEF Place
<1> QED  BY <1>1, <1>2

LEMMA PlaceType ==
    ASSUME NEW n \in 0 .. NestMax, NEW m \in 0 .. n, NEW i \in 0 .. n
    PROVE  Place(m, i) \in Positions
BY DEF Place, Positions

\* Where the program and its handlers were stay where they are when another
\* handler is entered.
LEMMA PositionsAfter ==
    ASSUME NEW now, NEW e, Len(now.handlers) \in Nat,
           Len(e.handlers) = Len(now.handlers) + 1,
           \A i \in 1 .. Len(now.handlers) : e.handlers[i] = now.handlers[i],
           e.handlers[Len(now.handlers) + 1].was.rsp = now.signals.rsp
    PROVE  /\ \A i \in 0 .. Len(now.handlers) : PositionIn(e, i) = PositionIn(now, i)
           /\ PositionIn(e, Len(now.handlers) + 1) = e.signals.rsp
<1> DEFINE n == Len(now.handlers)
<1>1. ASSUME NEW i \in 0 .. n PROVE PositionIn(e, i) = PositionIn(now, i)
  <2>1. CASE i = n  BY <2>1 DEF PositionIn
  <2>2. CASE i # n
    <3>1. i + 1 \in 1 .. n /\ i # n + 1  BY <2>2
    <3> QED  BY <2>2, <3>1 DEF PositionIn
  <2> QED  BY <2>1, <2>2
<1>2. PositionIn(e, n + 1) = e.signals.rsp  BY DEF PositionIn
<1> QED  BY <1>1, <1>2

LEMMA SiginfoKeeps ==
    ASSUME AltStackHasRoom, NEW now, NowInv(now), NEW s \in SignalNumbers,
           ~ now.signals.frame_active, now.signals.siginfo_depth < NestMax
    PROVE  /\ NowInv(linux_siginfo_deliver(now, s))
           /\ linux_siginfo_deliver(now, s).signals.queue = now.signals.queue
<1> DEFINE st == now.signals
           n == Len(now.handlers)
           cell == FrameAt(st, st.action[s].flags)
           c == linux_signal_consume(st, s)
           built == [c EXCEPT !.stack[cell] = Interrupted(now),
                              !.siginfo_depth = @ + 1, !.rsp = cell]
           e == Entered(now, built, s, "siginfo")
<1>1. linux_siginfo_deliver(now, s) = e  BY DEF linux_siginfo_deliver
<1>2. /\ now \in Now /\ st \in State /\ now.handlers \in Seq(Handler) /\ n \in Nat
      /\ s \in SignalNumbers /\ st.siginfo_depth \in 0 .. NestMax
      /\ st.rsp \in Positions /\ st.blocked \in SUBSET SignalNumbers
      /\ st.stack \in [Positions -> Frames]
  BY DEF NowInv, Now, State
<1>3. AllOnStacks(now) /\ OnTwoStacks(now)  BY DEF NowInv, Framed, SavedAlone
<1>4. st.siginfo_depth = n /\ n < NestMax  BY <1>3 DEF AllOnStacks
<1>5. PICK m \in 0 .. n : \A i \in 0 .. n : PositionIn(now, i) = Place(m, i)
  BY <1>3 DEF OnTwoStacks
<1>6. st.rsp = Place(m, n)  BY <1>2, <1>5 DEF PositionIn
<1>7. \/ cell = [Place(m, n) EXCEPT !.at = @ + 1]
      \/ m = n /\ cell = [stack |-> "alt", at |-> 1]
  <2>1. CASE cell = [st.rsp EXCEPT !.at = @ + 1]  BY <1>6, <2>1
  <2>2. CASE cell # [st.rsp EXCEPT !.at = @ + 1]
    <3>1. cell = [stack |-> "alt", at |-> 1] /\ st.altstack /\ ~ linux_on_altstack(st)
      BY <2>2 DEF FrameAt
    <3>2. m = n
      <4> SUFFICES ASSUME m # n PROVE FALSE  OBVIOUS
      <4>1. st.rsp.stack = "alt" /\ st.rsp.at = n - m  BY <1>2, <1>6 DEF Place
      <4>2. st.rsp.at \in 1 .. AltFrames  BY <1>2, <1>4, <4>1 DEF AltStackHasRoom
      <4> QED  BY <3>1, <4>1, <4>2 DEF linux_on_altstack
    <3> QED  BY <3>1, <3>2
  <2> QED  BY <2>1, <2>2
<1> HIDE DEF n, cell
<1>8. PICK k \in 0 .. n + 1 : /\ \A i \in 0 .. n : Place(k, i) = Place(m, i)
                             /\ cell = Place(k, n + 1)
  BY <1>2, <1>7, NextPlace
<1>9. n + 1 \in 0 .. NestMax /\ n + 1 \in Nat  BY <1>2, <1>4
<1>10. cell \in Positions  BY <1>2, <1>8, <1>9, PlaceType
<1>11. Interrupted(now) \in Frames
       /\ Interrupted(now) = [blocked |-> st.blocked, rsp |-> st.rsp, below |-> n]
  <2>1. n \in 0 .. NestMax  BY <1>2, <1>4
  <2> QED  BY <1>2, <2>1 DEF Interrupted, Frames, n
<1>12. /\ c \in State /\ c.alive = st.alive /\ c.pending = st.pending \ {s}
       /\ c.queue = st.queue /\ c.frame_active = st.frame_active
       /\ c.siginfo_depth = st.siginfo_depth /\ c.stack = st.stack
  BY <1>2, ConsumeIs
<1> HIDE DEF c, st
<1>13. [c.stack EXCEPT ![cell] = Interrupted(now)] \in [Positions -> Frames]
  BY <1>2, <1>10, <1>11, <1>12
<1>14. built = [c EXCEPT !.stack = [c.stack EXCEPT ![cell] = Interrupted(now)],
                        !.siginfo_depth = n + 1, !.rsp = cell]
  BY <1>4, <1>12 DEF State
<1> HIDE DEF built
<1> HIDE DEF e
<1>14a. e = Entered(now, built, s, "siginfo")  BY DEF e
<1>15. /\ built \in State /\ built.alive = st.alive /\ built.pending = st.pending \ {s}
       /\ built.queue = st.queue /\ built.frame_active = st.frame_active
       /\ built.siginfo_depth = n + 1 /\ built.rsp = cell
       /\ built.stack = [st.stack EXCEPT ![cell] = Interrupted(now)]
  BY <1>9, <1>10, <1>12, <1>13, <1>14 DEF State
<1>16. /\ e \in Now /\ Kept(e) /\ e.signals = built
       /\ Len(e.handlers) = n + 1
       /\ \A i \in 1 .. n : e.handlers[i] = now.handlers[i]
       /\ e.handlers[n + 1] = [sig |-> s, kind |-> "siginfo",
                               was |-> [blocked |-> st.blocked, rsp |-> st.rsp]]
  <2>1. /\ built \in State /\ built.alive = now.signals.alive
        /\ built.pending = now.signals.pending \ {s} /\ built.queue = now.signals.queue
    BY <1>15 DEF st
  <2>2. "siginfo" \in {"saved", "siginfo"}  OBVIOUS
  <2>3. HandlerAdded(now, built, s, "siginfo", e)
    BY <1>14a, <2>1, <2>2, EnteredKeeps
  <2> QED  BY <2>3 DEF st, n, HandlerAdded
<1>17. /\ \A i \in 0 .. n : PositionIn(e, i) = Place(k, i)
       /\ PositionIn(e, n + 1) = cell
  <2>1. e.handlers[n + 1].was.rsp = now.signals.rsp  BY <1>16 DEF st
  <2>2. /\ \A i \in 0 .. n : PositionIn(e, i) = PositionIn(now, i)
        /\ PositionIn(e, n + 1) = e.signals.rsp
    BY <1>2, <1>16, <2>1, PositionsAfter DEF n
  <2> QED  BY <1>5, <1>8, <1>15, <1>16, <2>2
<1>18. \A i \in 0 .. n + 1 : PositionIn(e, i) = Place(k, i)
  <2>1. \A i \in 0 .. n + 1 : i \in 0 .. n \/ i = n + 1  BY <1>2
  <2> QED  BY <1>8, <1>17, <2>1
<1>19. OnTwoStacks(e)  BY <1>16, <1>18 DEF OnTwoStacks
<1>20. AllOnStacks(e)
  <2>1. ~ e.signals.frame_active /\ e.signals.siginfo_depth = Len(e.handlers)
    BY <1>15, <1>16 DEF st
  <2>2. ASSUME NEW i \in 1 .. n
        PROVE  /\ e.handlers[i].kind = "siginfo"
               /\ e.signals.stack[PositionIn(e, i)] = FrameFor(e, i)
    <3>1. i \in 1 .. Len(now.handlers) /\ i \in 0 .. n + 1 /\ i # n + 1 /\ n + 1 \in 0 .. n + 1
          /\ i \in 0 .. n
      BY <1>2 DEF n
    <3>2. PositionIn(e, i) # cell
      BY <1>8, <1>9, <1>18, <3>1, PlacesDiffer
    <3>3. PositionIn(e, i) = PositionIn(now, i)  BY <1>5, <1>8, <1>18, <3>1
    <3>4. PositionIn(e, i) \in Positions  BY <1>9, <1>18, <3>1, PlaceType
    <3>5. e.signals.stack[PositionIn(e, i)] = st.stack[PositionIn(now, i)]
      BY <1>2, <1>15, <1>16, <3>2, <3>3, <3>4
    <3>6. /\ now.handlers[i].kind = "siginfo"
          /\ now.signals.stack[PositionIn(now, i)] = FrameFor(now, i)
      BY <1>3, <3>1 DEF AllOnStacks
    <3> QED  BY <1>16, <3>5, <3>6 DEF FrameFor, st
  <2>3. /\ e.handlers[n + 1].kind = "siginfo"
        /\ e.signals.stack[PositionIn(e, n + 1)] = FrameFor(e, n + 1)
    <3>1. e.signals.stack[cell] = Interrupted(now)  BY <1>2, <1>10, <1>15, <1>16
    <3>2. (n + 1) - 1 = n  BY <1>2
    <3> QED  BY <1>11, <1>16, <1>17, <3>1, <3>2 DEF FrameFor
  <2>4. \A i \in 1 .. n + 1 : i \in 1 .. n \/ i = n + 1  BY <1>2
  <2> QED  BY <1>16, <2>1, <2>2, <2>3, <2>4 DEF AllOnStacks
<1> QED  BY <1>1, <1>15, <1>16, <1>19, <1>20 DEF NowInv, Framed, st, e

LEMMA SavedKeeps ==
    ASSUME NEW now, NowInv(now), NEW s \in SignalNumbers,
           ~ now.signals.frame_active, ~ now.signals.siginfo_depth > 0
    PROVE  /\ NowInv(SavedDeliver(now, s))
           /\ SavedDeliver(now, s).signals.queue = now.signals.queue
<1> DEFINE st == now.signals
           c == linux_signal_consume(st, s)
           built == [c EXCEPT !.saved = Interrupted(now), !.frame_active = TRUE,
                              !.rsp.at = @ + 1]
           e == Entered(now, built, s, "saved")
<1>1. SavedDeliver(now, s) = e  BY DEF SavedDeliver
<1>2. /\ now \in Now /\ st \in State /\ now.handlers \in Seq(Handler)
      /\ s \in SignalNumbers /\ st.siginfo_depth \in 0 .. NestMax
      /\ st.rsp \in Positions /\ st.blocked \in SUBSET SignalNumbers
  BY DEF NowInv, Now, State
<1>3. AllOnStacks(now) /\ OnTwoStacks(now)  BY DEF NowInv, Framed, SavedAlone
<1>4. Len(now.handlers) = 0 /\ st.siginfo_depth = 0  BY <1>2, <1>3 DEF AllOnStacks
<1>5. st.rsp = Place(0, 0)  BY <1>3, <1>4 DEF OnTwoStacks, PositionIn
<1>6. st.rsp = [stack |-> "main", at |-> 0]  BY <1>5 DEF Place
<1>7. Interrupted(now) \in Frames
      /\ Interrupted(now) = [blocked |-> st.blocked, rsp |-> st.rsp, below |-> 0]
  BY <1>2, <1>4 DEF Interrupted, Frames
<1>8. /\ c \in State /\ c.alive = st.alive /\ c.pending = st.pending \ {s}
      /\ c.queue = st.queue /\ c.siginfo_depth = 0 /\ c.rsp = st.rsp
  BY <1>2, <1>4, ConsumeIs
<1> HIDE DEF c, st
<1>9. built = [c EXCEPT !.saved = Interrupted(now), !.frame_active = TRUE,
                       !.rsp = [stack |-> "main", at |-> 1]]
  <2>1. c.rsp = [stack |-> "main", at |-> 0]  BY <1>6, <1>8
  <2>2. [c.rsp EXCEPT !.at = c.rsp.at + 1] = [stack |-> "main", at |-> 1]  BY <2>1
  <2>3. built = [c EXCEPT !.saved = Interrupted(now), !.frame_active = TRUE,
                         !.rsp = [c.rsp EXCEPT !.at = c.rsp.at + 1]]
    BY <1>8 DEF State
  <2> QED  BY <2>2, <2>3
<1>10. [stack |-> "main", at |-> 1] \in Positions  BY DEF Positions
<1> HIDE DEF built, e
<1>10a. e = Entered(now, built, s, "saved")  BY DEF e
<1>11. /\ built \in State /\ built.alive = st.alive /\ built.pending = st.pending \ {s}
       /\ built.queue = st.queue /\ built.frame_active /\ built.siginfo_depth = 0
       /\ built.rsp = [stack |-> "main", at |-> 1] /\ built.saved = Interrupted(now)
  BY <1>7, <1>8, <1>9, <1>10 DEF State
<1>12. /\ e \in Now /\ Kept(e) /\ e.signals = built
       /\ Len(e.handlers) = 1
       /\ e.handlers[1] = [sig |-> s, kind |-> "saved",
                           was |-> [blocked |-> st.blocked, rsp |-> st.rsp]]
  <2>1. Len(now.handlers) + 1 = 1  BY <1>4
  <2>2. /\ built \in State /\ built.alive = now.signals.alive
        /\ built.pending = now.signals.pending \ {s} /\ built.queue = now.signals.queue
    BY <1>11 DEF st
  <2>3. "saved" \in {"saved", "siginfo"}  OBVIOUS
  <2>4. HandlerAdded(now, built, s, "saved", e)
    BY <1>10a, <2>2, <2>3, EnteredKeeps
  <2> QED  BY <2>1, <2>4 DEF st, HandlerAdded
<1>13. PositionIn(e, 0) = Place(1, 0) /\ PositionIn(e, 1) = Place(1, 1)
  BY <1>6, <1>11, <1>12 DEF PositionIn, Place
<1>14. OnTwoStacks(e)
  <2>1. \A i \in 0 .. 1 : i = 0 \/ i = 1  OBVIOUS
  <2>2. 1 \in 0 .. 1  OBVIOUS
  <2> QED  BY <1>12, <1>13, <2>1, <2>2 DEF OnTwoStacks
<1>15. SavedAlone(e)  BY <1>7, <1>11, <1>12 DEF SavedAlone, FrameFor
<1> QED  BY <1>1, <1>11, <1>12, <1>14, <1>15 DEF NowInv, Framed, st, e

\* Entering either kind of handler.
LEMMA EnterKeeps ==
    ASSUME AltStackHasRoom, NEW now, NowInv(now), NEW s \in SignalNumbers,
           CanEnter(now.signals, s)
    PROVE  NowInv(Enter(now, s)) /\ Enter(now, s).signals.queue = now.signals.queue
<1>1. CASE "SIGINFO" \in now.signals.action[s].flags
  <2>1. ~ now.signals.frame_active /\ now.signals.siginfo_depth < NestMax
    BY <1>1 DEF CanEnter
  <2>2. Enter(now, s) = linux_siginfo_deliver(now, s)  BY <1>1 DEF Enter
  <2> QED  BY <2>1, <2>2, SiginfoKeeps
<1>2. CASE "SIGINFO" \notin now.signals.action[s].flags
  <2>1. ~ now.signals.frame_active /\ ~ now.signals.siginfo_depth > 0
    BY <1>2 DEF CanEnter, SavedFrameTaken
  <2>2. Enter(now, s) = SavedDeliver(now, s)  BY <1>2 DEF Enter
  <2> QED  BY <2>1, <2>2, SavedKeeps
<1> QED  BY <1>1, <1>2

LEMMA PrepareKeeps ==
    ASSUME AltStackHasRoom, NEW now, NowInv(now)
    PROVE  /\ NowInv(linux_signal_prepare_return(now))
           /\ linux_signal_prepare_return(now).signals.queue = now.signals.queue
<1> DEFINE s == Lowest(Handled(now.signals))
<1>1. now.signals.pending \in SUBSET SignalNumbers  BY DEF NowInv, Now, State
<1>2. CASE Handled(now.signals) # {} /\ CanEnter(now.signals, s)
  <2>1. Handled(now.signals) \in SUBSET Nat  BY <1>1 DEF Handled, SignalNumbers
  <2>2. s \in SignalNumbers  BY <1>1, <1>2, <2>1, LowestIs DEF Handled
  <2>3. linux_signal_prepare_return(now) = Enter(now, s)
    BY <1>2 DEF linux_signal_prepare_return
  <2> HIDE DEF s
  <2> QED  BY <1>2, <2>2, <2>3, EnterKeeps
<1>3. CASE ~ (Handled(now.signals) # {} /\ CanEnter(now.signals, s))
  BY <1>3 DEF linux_signal_prepare_return
<1> QED  BY <1>2, <1>3

-----------------------------------------------------------------------------
(* Steps.                                                                  *)

LEMMA CurrentIs ==
    /\ Current.signals = signals /\ Current.handlers = handlers /\ Current.owed = owed
    /\ \A now \in Now : Becomes(now) => Current' = now
<1>1. \A now \in Now : now = [signals |-> now.signals, handlers |-> now.handlers, owed |-> now.owed]
  BY DEF Now
<1> QED  BY <1>1 DEF Current, Becomes

LEMMA CurrentWith ==
    ASSUME NEW st, NEW ow
    PROVE  /\ [Current EXCEPT !.signals = st, !.owed = ow]
                = [signals |-> st, handlers |-> handlers, owed |-> ow]
           /\ [Current EXCEPT !.signals = st]
                = [signals |-> st, handlers |-> handlers, owed |-> owed]
<1>1. /\ DOMAIN Current = {"signals", "handlers", "owed"}
      /\ Current.signals = signals /\ Current.handlers = handlers /\ Current.owed = owed
  BY DEF Current
<1>2. [Current EXCEPT !.signals = st, !.owed = ow]
        = [signals |-> st, handlers |-> handlers, owed |-> ow]
  <2> DEFINE both == [Current EXCEPT !.signals = st, !.owed = ow]
  <2>1. both = [f \in DOMAIN Current |-> both[f]]  OBVIOUS
  <2>2. DOMAIN both = {"signals", "handlers", "owed"}  BY <1>1
  <2>3. both.signals = st /\ both.handlers = handlers /\ both.owed = ow  BY <1>1
  <2>4. both = [f \in {"signals", "handlers", "owed"} |-> both[f]]  BY <1>1, <2>1
  <2> HIDE DEF both
  <2>5. both = [signals |-> both.signals, handlers |-> both.handlers, owed |-> both.owed]
    BY <2>2, <2>4
  <2> QED  BY <2>3, <2>5 DEF both
<1>3. [Current EXCEPT !.signals = st]
        = [signals |-> st, handlers |-> handlers, owed |-> owed]
  BY <1>1
<1> QED  BY <1>2, <1>3

\* A step from one state of the invariant to another.
LEMMA BecomesInv ==
    ASSUME NEW now, NowInv(now), Becomes(now), sent' = sent, faults' \in 0 .. MaxFaults,
           Len(now.signals.queue) <= SignalQueue, sent \in 0 .. MaxSent
    PROVE  SignalsInv'
<1>1. Current' = now /\ signals' = now.signals
  BY CurrentIs DEF NowInv, Becomes
<1>2. NowInv(Current)'
  <2>1. (Current \in Now)'  BY <1>1 DEF NowInv
  <2>2. Framed(Current)'  BY <1>1 DEF NowInv, Framed, OnTwoStacks, SavedAlone, AllOnStacks, PositionIn, FrameFor
  <2>3. Kept(Current)'  BY <1>1 DEF NowInv, Kept
  <2> QED  BY <2>1, <2>2, <2>3 DEF NowInv
<1> QED  BY <1>1, <1>2 DEF SignalsInv

LEMMA CallKeeps ==
    ASSUME AltStackHasRoom, SignalsInv, NEW now, NowInv(now),
           Len(now.signals.queue) <= SignalQueue, Call(now)
    PROVE  SignalsInv'
<1>1. /\ Becomes(linux_signal_prepare_return(now)) /\ sent' = sent /\ faults' = faults
  BY DEF Call
<1>2. /\ NowInv(linux_signal_prepare_return(now))
      /\ Len(linux_signal_prepare_return(now).signals.queue) <= SignalQueue
  BY PrepareKeeps
<1> QED  BY <1>1, <1>2, BecomesInv DEF SignalsInv

LEMMA SignalsInitInv == SignalsInit => SignalsInv
<1> SUFFICES ASSUME SignalsInit PROVE SignalsInv  OBVIOUS
<1>1. /\ signals.queue = <<>> /\ signals.pending = {} /\ signals.rsp = Bottom
      /\ ~ signals.frame_active /\ signals.siginfo_depth = 0
      /\ handlers = <<>> /\ owed = {} /\ sent = 0 /\ faults = 0
  BY DEF SignalsInit
<1>2. Bottom \in Positions /\ NoFrame \in Frames  BY DEF Bottom, Positions, NoFrame, Frames
<1>3. signals \in State
  <2>1. DefaultAction \in Actions  BY DEF Actions
  <2>2. [s \in SignalNumbers |-> DefaultAction] \in [SignalNumbers -> Actions]  BY <2>1
  <2>3. [q \in Positions |-> NoFrame] \in [Positions -> Frames]  BY <1>2
  <2>4. <<>> \in Seq(SignalNumbers) /\ 0 \in 0 .. NestMax  OBVIOUS
  <2> QED  BY <1>2, <2>2, <2>3, <2>4 DEF SignalsInit, State
<1>4. Current \in Now  BY <1>1, <1>3 DEF Current, Now
<1>5. OnTwoStacks(Current)
  <2>1. PositionIn(Current, 0) = Place(0, 0)  BY <1>1 DEF Current, PositionIn, Place, Bottom
  <2>2. Len(Current.handlers) = 0  BY <1>1 DEF Current
  <2> QED  BY <2>1, <2>2 DEF OnTwoStacks
<1>6. AllOnStacks(Current)  BY <1>1 DEF Current, AllOnStacks
<1>7. Kept(Current)  BY <1>1 DEF Current, Kept
<1>9. NowInv(Current)  BY <1>1, <1>4, <1>5, <1>6, <1>7 DEF NowInv, Framed
<1> QED  BY <1>1, <1>9 DEF SignalsInv

\* What an operation of the program may change without touching the frames.
LEMMA Changed ==
    ASSUME SignalsInv, NEW st \in State, NEW ow \in SUBSET SignalNumbers,
           st.rsp = signals.rsp, st.stack = signals.stack, st.saved = signals.saved,
           st.frame_active = signals.frame_active,
           st.siginfo_depth = signals.siginfo_depth,
           st.alive => ow \subseteq st.pending \cup ToSet(st.queue)
    PROVE  NowInv([signals |-> st, handlers |-> handlers, owed |-> ow])
<1> DEFINE new == [signals |-> st, handlers |-> handlers, owed |-> ow]
<1>1. NowInv(Current)  BY DEF SignalsInv, NowInv
<1>2. handlers \in Seq(Handler)  BY <1>1, CurrentIs DEF NowInv, Now
<1>3. new \in Now  BY <1>2 DEF Now
<1>4. /\ new.signals = st /\ new.handlers = handlers /\ new.owed = ow  OBVIOUS
<1> HIDE DEF new
<1>5. Framed(new)
  <2>1. Framed(Current)  BY <1>1 DEF NowInv
  <2> QED  BY <1>4, <2>1, CurrentIs, SameFrames
<1>6. Kept(new)  BY <1>4 DEF Kept
<1> QED  BY <1>1, <1>3, <1>5, <1>6 DEF NowInv, new

LEMMA StateFacts ==
    ASSUME SignalsInv
    PROVE  /\ signals \in State /\ handlers \in Seq(Handler) /\ owed \in SUBSET SignalNumbers
           /\ signals.alive => owed \subseteq signals.pending \cup ToSet(signals.queue)
           /\ Len(signals.queue) <= SignalQueue
           /\ Current = [signals |-> signals, handlers |-> handlers, owed |-> owed]
           /\ signals.pending \in SUBSET SignalNumbers /\ signals.queue \in Seq(SignalNumbers)
           /\ Len(signals.queue) \in Nat
           /\ sent \in 0 .. MaxSent /\ sent \in Nat /\ faults \in 0 .. MaxFaults
<1>1. NowInv(Current)  BY DEF SignalsInv
<1>2. signals \in State /\ handlers \in Seq(Handler) /\ owed \in SUBSET SignalNumbers
  BY <1>1, CurrentIs DEF NowInv, Now
<1>3. signals.pending \in SUBSET SignalNumbers /\ signals.queue \in Seq(SignalNumbers)
  BY <1>2 DEF State
<1>4. Len(signals.queue) \in Nat  BY <1>3
<1>5. signals.alive => owed \subseteq signals.pending \cup ToSet(signals.queue)
  BY <1>1, CurrentIs DEF NowInv, Kept
<1> QED  BY <1>1, <1>2, <1>3, <1>4, <1>5 DEF SignalsInv, NowInv, Current

LEMMA SmallCallsKeep ==
    ASSUME AltStackHasRoom, SignalsInv, NEW st \in State,
           \/ \E a : st = [signals EXCEPT !.action = a]
           \/ \E m : st = [signals EXCEPT !.blocked = m]
           \/ \E b : st = [signals EXCEPT !.altstack = b]
           \/ \E m : st = [signals EXCEPT !.watched = m]
           \/ st = signals,
           Call([signals |-> st, handlers |-> handlers, owed |-> owed])
    PROVE  SignalsInv'
<1> DEFINE new == [signals |-> st, handlers |-> handlers, owed |-> owed]
<1>1. /\ st.rsp = signals.rsp /\ st.stack = signals.stack /\ st.saved = signals.saved
      /\ st.frame_active = signals.frame_active /\ st.siginfo_depth = signals.siginfo_depth
      /\ st.alive = signals.alive /\ st.pending = signals.pending /\ st.queue = signals.queue
  BY StateFacts DEF State
<1>2. NowInv(new)  BY <1>1, StateFacts, Changed
<1>3. new.signals = st  OBVIOUS
<1> HIDE DEF new
<1>4. Call(new) /\ Len(new.signals.queue) <= SignalQueue  BY <1>1, <1>3, StateFacts DEF new
<1> QED  BY <1>2, <1>4, CallKeeps

LEMMA ActionKeeps ==
    ASSUME AltStackHasRoom, SignalsInv, NEW s \in SignalNumbers, NEW a \in Actions,
           linux_rt_sigaction(s, a)
    PROVE  SignalsInv'
<1> DEFINE st == [signals EXCEPT !.action = [signals.action EXCEPT ![s] = a]]
<1>1. signals \in State  BY StateFacts
<1>2. st \in State  BY <1>1 DEF State
<1>4. \E b : st = [signals EXCEPT !.action = b]  OBVIOUS
<1>5. [Current EXCEPT !.signals.action[s] = a] = [Current EXCEPT !.signals = st]
  BY CurrentIs
<1> HIDE DEF st
<1>3. [Current EXCEPT !.signals.action[s] = a] = [signals |-> st, handlers |-> handlers, owed |-> owed]
  BY <1>5 DEF Current
<1> QED  BY <1>2, <1>3, <1>4, SmallCallsKeep DEF linux_rt_sigaction

LEMMA MaskKeeps ==
    ASSUME AltStackHasRoom, SignalsInv, NEW mask \in Masks,
           SigProcMask(mask) \/ linux_compat_signalfd(mask)
    PROVE  SignalsInv'
<1>1. signals \in State /\ mask \in SUBSET SignalNumbers  BY StateFacts DEF SignalNumbers
<1>2. CASE SigProcMask(mask)
  <2> DEFINE st == [signals EXCEPT !.blocked = mask]
  <2>1. st \in State  BY <1>1 DEF State
  <2>2. [Current EXCEPT !.signals.blocked = mask]
          = [signals |-> st, handlers |-> handlers, owed |-> owed]
    BY DEF Current
  <2>3. \E b : st = [signals EXCEPT !.blocked = b]  OBVIOUS
  <2> HIDE DEF st
  <2> QED  BY <1>2, <2>1, <2>2, <2>3, SmallCallsKeep DEF SigProcMask
<1>3. CASE linux_compat_signalfd(mask)
  <2> DEFINE st == [signals EXCEPT !.watched = mask]
  <2>1. st \in State  BY <1>1 DEF State
  <2>2. [Current EXCEPT !.signals.watched = mask]
          = [signals |-> st, handlers |-> handlers, owed |-> owed]
    BY DEF Current
  <2>3. \E b : st = [signals EXCEPT !.watched = b]  OBVIOUS
  <2> HIDE DEF st
  <2> QED  BY <1>3, <2>1, <2>2, <2>3, SmallCallsKeep DEF linux_compat_signalfd
<1> QED  BY <1>2, <1>3

LEMMA AltstackKeeps ==
    ASSUME AltStackHasRoom, SignalsInv, NEW enable \in BOOLEAN, linux_sigaltstack(enable)
    PROVE  SignalsInv'
<1> DEFINE st == [signals EXCEPT !.altstack = enable]
<1>1. st \in State  BY StateFacts DEF State
<1>2. [Current EXCEPT !.signals.altstack = enable]
        = [signals |-> st, handlers |-> handlers, owed |-> owed]
  BY DEF Current
<1>3. \E b : st = [signals EXCEPT !.altstack = b]  OBVIOUS
<1> HIDE DEF st
<1> QED  BY <1>1, <1>2, <1>3, SmallCallsKeep DEF linux_sigaltstack

LEMMA OtherKeeps == ASSUME AltStackHasRoom, SignalsInv, OtherCall PROVE SignalsInv'
<1>1. Current = [signals |-> signals, handlers |-> handlers, owed |-> owed] /\ signals \in State
  BY StateFacts
<1> QED  BY <1>1, SmallCallsKeep DEF OtherCall

\* The elements of a sequence.
LEMMA SeqElements ==
    ASSUME NEW q \in Seq(SignalNumbers)
    PROVE  ToSet(q) = {q[k] : k \in 1 .. Len(q)}
<1>1. DOMAIN q = 1 .. Len(q)  OBVIOUS
<1> QED  BY <1>1 DEF ToSet

LEMMA ReadKeepsSignals ==
    ASSUME AltStackHasRoom, SignalsInv, ReadSignalfd PROVE SignalsInv'
<1> DEFINE q == signals.queue
           st == [signals EXCEPT !.queue = Tail(q)]
           ow == owed \ {Head(q)}
           new == [signals |-> st, handlers |-> handlers, owed |-> ow]
<1>1. q # <<>> /\ q \in Seq(SignalNumbers) /\ signals \in State  BY StateFacts DEF ReadSignalfd
<1>2. Tail(q) \in Seq(SignalNumbers) /\ Len(Tail(q)) = Len(q) - 1 /\ Len(q) \in Nat \ {0}  BY <1>1
<1>3. ToSet(q) \subseteq {Head(q)} \cup ToSet(Tail(q))
  <2>1. ASSUME NEW i \in 1 .. Len(q), q[i] # Head(q)
        PROVE  q[i] \in ToSet(Tail(q))
    <3>1. i # 1 /\ i - 1 \in 1 .. Len(Tail(q))  BY <1>1, <1>2, <2>1
    <3>2. Tail(q)[i - 1] = q[i]  BY <1>1, <1>2, <3>1
    <3>3. ToSet(Tail(q)) = {Tail(q)[k] : k \in 1 .. Len(Tail(q))}  BY <1>2, SeqElements
    <3> QED  BY <3>1, <3>2, <3>3
  <2>2. ToSet(q) = {q[k] : k \in 1 .. Len(q)}  BY <1>1, SeqElements
  <2> QED  BY <2>1, <2>2
<1> HIDE DEF q
<1>4. /\ st \in State /\ st.queue = Tail(q) /\ st.rsp = signals.rsp /\ st.stack = signals.stack
      /\ st.saved = signals.saved /\ st.frame_active = signals.frame_active
      /\ st.siginfo_depth = signals.siginfo_depth /\ st.alive = signals.alive
      /\ st.pending = signals.pending
  BY <1>1, <1>2 DEF State
<1>5. Call(new)
  <2>1. [Current EXCEPT !.signals.queue = Tail(@), !.owed = @ \ {Head(signals.queue)}]
          = [Current EXCEPT !.signals = [signals EXCEPT !.queue = Tail(signals.queue)],
                            !.owed = owed \ {Head(signals.queue)}]
    BY CurrentIs
  <2>2. [Current EXCEPT !.signals = st, !.owed = ow] = new
    BY CurrentWith
  <2>3. [Current EXCEPT !.signals.queue = Tail(@), !.owed = @ \ {Head(signals.queue)}] = new
    BY <2>1, <2>2 DEF q
  <2> QED  BY <2>3 DEF ReadSignalfd
<1> HIDE DEF st, ow
<1>6. NowInv(new)
  <2>1. ow \in SUBSET SignalNumbers  BY StateFacts DEF ow
  <2>2. st.alive => ow \subseteq st.pending \cup ToSet(st.queue)
    BY <1>3, <1>4, StateFacts DEF ow, q
  <2> QED  BY <1>4, <2>1, <2>2, Changed
<1>7. new.signals.queue = Tail(q)  BY <1>4
<1> HIDE DEF new
<1>8. Len(new.signals.queue) <= SignalQueue
  <2>1. Len(q) <= SignalQueue /\ SignalQueue \in Nat  BY StateFacts DEF q
  <2> QED  BY <1>2, <1>7, <2>1
<1> QED  BY <1>5, <1>6, <1>8, CallKeeps

\* A step that leaves the frames alone.
LEMMA FramesStay ==
    ASSUME SignalsInv, signals' \in State, owed' \in SUBSET SignalNumbers,
           handlers' = handlers,
           signals'.rsp = signals.rsp, signals'.stack = signals.stack,
           signals'.saved = signals.saved,
           signals'.frame_active = signals.frame_active,
           signals'.siginfo_depth = signals.siginfo_depth,
           signals'.alive => owed' \subseteq signals'.pending \cup ToSet(signals'.queue),
           Len(signals'.queue) <= SignalQueue,
           sent' \in 0 .. MaxSent, faults' \in 0 .. MaxFaults
    PROVE  SignalsInv'
<1> DEFINE new == [signals |-> signals', handlers |-> handlers, owed |-> owed']
<1>1. NowInv(Current)  BY DEF SignalsInv
<1>2. Current' = new  BY DEF Current
<1>3. /\ new.signals = signals' /\ new.handlers = handlers /\ new.owed = owed'  OBVIOUS
<1>4. new \in Now  BY StateFacts DEF Now
<1> HIDE DEF new
<1>5. Framed(new)
  <2>1. Framed(Current)  BY <1>1 DEF NowInv
  <2> QED  BY <1>3, <2>1, CurrentIs, SameFrames
<1>6. Framed(Current)'
  BY <1>2, <1>5 DEF Framed, OnTwoStacks, SavedAlone, AllOnStacks, PositionIn, FrameFor
<1>7. (Current \in Now)'  BY <1>2, <1>4
<1>8. Kept(Current)'  BY <1>2, <1>3 DEF Kept
<1> QED  BY <1>6, <1>7, <1>8 DEF SignalsInv, NowInv

LEMMA ForkKeeps == ASSUME NoForkInHandler, SignalsInv, Fork PROVE SignalsInv'
<1>1. handlers = <<>>  BY DEF Fork, NoForkInHandler
<1>2. NowInv(Current) /\ signals \in State  BY StateFacts DEF SignalsInv
<1>3. ~ signals.frame_active /\ signals.siginfo_depth = 0
  <2>1. Len(Current.handlers) = 0  BY <1>1, CurrentIs
  <2>2. AllOnStacks(Current)  BY <1>2, <2>1 DEF NowInv, Framed, SavedAlone
  <2> QED  BY <2>1, <2>2, CurrentIs DEF AllOnStacks
<1> DEFINE st == [signals EXCEPT !.pending = {}, !.frame_active = FALSE,
                                 !.siginfo_depth = 0, !.watched = {}, !.queue = <<>>]
<1>4. signals' = st /\ handlers' = handlers /\ owed' = {} /\ sent' = sent /\ faults' = faults
  <2>1. [Current EXCEPT !.signals = [@ EXCEPT !.pending = {}, !.frame_active = FALSE,
                   !.siginfo_depth = 0, !.watched = {}, !.queue = <<>>], !.owed = {}]
        = [Current EXCEPT !.signals = st, !.owed = {}]
    BY CurrentIs
  <2> HIDE DEF st
  <2> DEFINE new == [Current EXCEPT !.signals = st, !.owed = {}]
  <2>2. new.signals = st /\ new.handlers = handlers /\ new.owed = {}  BY DEF Current
  <2> HIDE DEF new
  <2>3. Becomes(new)  BY <2>1 DEF Fork, new
  <2> QED  BY <2>2, <2>3 DEF Becomes, Fork
<1>5. {} \in SUBSET SignalNumbers /\ <<>> \in Seq(SignalNumbers) /\ 0 \in 0 .. NestMax
  OBVIOUS
<1>6. /\ st \in State /\ st.rsp = signals.rsp /\ st.stack = signals.stack
      /\ st.saved = signals.saved /\ st.frame_active = signals.frame_active
      /\ st.siginfo_depth = signals.siginfo_depth /\ st.queue = <<>> /\ st.pending = {}
  BY <1>2, <1>3, <1>5 DEF State
<1> HIDE DEF st
<1>8. sent \in 0 .. MaxSent /\ faults \in 0 .. MaxFaults  BY StateFacts
<1>9. Len(st.queue) <= SignalQueue  BY <1>6
<1> QED  BY <1>4, <1>5, <1>6, <1>8, <1>9, FramesStay

LEMMA ExceptionKeeps ==
    ASSUME AltStackHasRoom, SignalsInv, linux_signal_prepare_exception PROVE SignalsInv'
<1> DEFINE entered == /\ signals.action[FaultSignal].handler = "user"
                      /\ FaultSignal \notin signals.blocked
                      /\ CanEnter(signals, FaultSignal)
           st == [signals EXCEPT !.alive = FALSE]
           dead == [signals |-> st, handlers |-> handlers, owed |-> owed]
<1>1. NowInv(Current) /\ signals \in State /\ FaultSignal \in SignalNumbers
  BY StateFacts DEF SignalsInv, SignalNumbers
<1>2. /\ sent' = sent /\ faults' \in 0 .. MaxFaults /\ sent \in 0 .. MaxSent
      /\ Len(signals.queue) <= SignalQueue
  BY StateFacts DEF linux_signal_prepare_exception
<1>3. CASE entered
  <2>1. Becomes(Enter(Current, FaultSignal))  BY <1>3 DEF linux_signal_prepare_exception
  <2>2. CanEnter(Current.signals, FaultSignal)  BY <1>3, CurrentIs
  <2>3. /\ NowInv(Enter(Current, FaultSignal))
        /\ Enter(Current, FaultSignal).signals.queue = signals.queue
    BY <1>1, <2>2, EnterKeeps, CurrentIs
  <2> QED  BY <1>2, <2>1, <2>3, BecomesInv
<1>4. CASE ~ entered
  <2>1. Becomes([Current EXCEPT !.signals.alive = FALSE])
    BY <1>4 DEF linux_signal_prepare_exception
  <2>2. [Current EXCEPT !.signals.alive = FALSE] = dead
    <3>1. [Current EXCEPT !.signals.alive = FALSE] = [Current EXCEPT !.signals = st]
      BY CurrentIs
    <3> QED  BY <3>1, CurrentWith
  <2>3. /\ st \in State /\ st.rsp = signals.rsp /\ st.stack = signals.stack
        /\ st.saved = signals.saved /\ st.frame_active = signals.frame_active
        /\ st.siginfo_depth = signals.siginfo_depth /\ st.queue = signals.queue
        /\ st.pending = signals.pending /\ ~ st.alive
    BY <1>1 DEF State
  <2>4. dead.signals = st  OBVIOUS
  <2> HIDE DEF st
  <2>5. NowInv(dead)  BY <2>3, StateFacts, Changed
  <2> HIDE DEF dead
  <2> QED  BY <1>2, <2>1, <2>2, <2>3, <2>4, <2>5, BecomesInv
<1> QED  BY <1>3, <1>4

LEMMA KillKeeps == ASSUME SignalsInv, NEW s \in SignalNumbers, task_kill(s) PROVE SignalsInv'
<1>1. /\ signals \in State /\ owed \in SUBSET SignalNumbers
      /\ signals.alive => owed \subseteq signals.pending \cup ToSet(signals.queue)
      /\ signals.alive
  BY StateFacts DEF task_kill
<1>2. /\ handlers' = handlers /\ sent' = sent + 1 /\ sent' \in 0 .. MaxSent
      /\ faults' \in 0 .. MaxFaults
  BY StateFacts DEF task_kill
<1>3. Len(signals.queue) <= SignalQueue  BY StateFacts
<1>5. CASE signals' = [signals EXCEPT !.alive = FALSE] /\ owed' = owed
  <2>1. /\ signals' \in State /\ signals'.rsp = signals.rsp /\ signals'.stack = signals.stack
        /\ signals'.saved = signals.saved /\ signals'.frame_active = signals.frame_active
        /\ signals'.siginfo_depth = signals.siginfo_depth
        /\ signals'.queue = signals.queue /\ signals'.pending = signals.pending
        /\ ~ signals'.alive
    BY <1>1, <1>5 DEF State
  <2> QED  BY <1>1, <1>2, <1>3, <1>5, <2>1, FramesStay
<1>6. CASE signals' = signals /\ owed' = owed
  BY <1>1, <1>2, <1>3, <1>6, FramesStay
<1>7. CASE /\ signals' = [signals EXCEPT !.pending = @ \cup {s}]
           /\ owed' = owed \cup {s}
  <2>1. signals.pending \in SUBSET SignalNumbers  BY StateFacts
  <2>2. /\ signals' \in State /\ signals'.rsp = signals.rsp /\ signals'.stack = signals.stack
        /\ signals'.saved = signals.saved /\ signals'.frame_active = signals.frame_active
        /\ signals'.siginfo_depth = signals.siginfo_depth
        /\ signals'.queue = signals.queue /\ signals'.pending = signals.pending \cup {s}
    BY <1>1, <1>7, <2>1 DEF State
  <2>5. owed' \subseteq signals'.pending \cup ToSet(signals'.queue) /\ owed' \in SUBSET SignalNumbers
    BY <1>1, <1>7, <2>2
  <2> QED  BY <1>2, <1>3, <2>2, <2>5, FramesStay
<1> QED  BY <1>5, <1>6, <1>7 DEF task_kill

LEMMA JoinedIs ==
    ASSUME NEW q \in Seq(SignalNumbers), NEW r \in Seq(SignalNumbers)
    PROVE  /\ q \o r \in Seq(SignalNumbers) /\ Len(q \o r) = Len(q) + Len(r)
           /\ \A i \in 1 .. Len(q) : (q \o r)[i] = q[i]
           /\ \A j \in 1 .. Len(r) : (q \o r)[Len(q) + j] = r[j]
OBVIOUS

\* The signals that a signalfd takes are queued behind the others.
LEMMA QueuedIs ==
    ASSUME SignalsInv, Len(signals.queue) + Cardinality(Taken(signals)) <= SignalQueue
    PROVE  /\ Taken(signals) \in SUBSET signals.pending
           /\ Queued(signals) \in Seq(SignalNumbers)
           /\ Len(Queued(signals)) = Len(signals.queue) + Cardinality(Taken(signals))
           /\ Len(Queued(signals)) <= SignalQueue
           /\ ToSet(signals.queue) \cup Taken(signals) \subseteq ToSet(Queued(signals))
<1> DEFINE T == Taken(signals)  q == signals.queue  r == Ascending(T)  all == q \o r
           n == Len(q)  k == Cardinality(T)
<1>1. T \in SUBSET signals.pending /\ T \in SUBSET SignalNumbers
  BY StateFacts DEF Taken, Blocked
<1>2. q \in Seq(SignalNumbers) /\ n \in Nat  BY StateFacts
<1>3. k \in Nat  BY <1>1, SignalSets
<1>4. r \in Seq(T) /\ Len(r) = k /\ \A s \in T : \E j \in 1 .. k : r[j] = s
  BY <1>1, AscendingIs
<1>5. r \in Seq(SignalNumbers)  BY <1>1, <1>4
<1> HIDE DEF T, q, r
<1>6. /\ all \in Seq(SignalNumbers) /\ Len(all) = n + k
      /\ \A i \in 1 .. n : all[i] = q[i]
      /\ \A j \in 1 .. k : all[n + j] = r[j]
  <2>1. q \in Seq(SignalNumbers) /\ r \in Seq(SignalNumbers) /\ Len(q) = n /\ Len(r) = k
    BY <1>2, <1>4, <1>5
  <2>2. /\ q \o r \in Seq(SignalNumbers) /\ Len(q \o r) = Len(q) + Len(r)
        /\ \A i \in 1 .. Len(q) : (q \o r)[i] = q[i]
        /\ \A j \in 1 .. Len(r) : (q \o r)[Len(q) + j] = r[j]
    BY <2>1, JoinedIs
  <2> HIDE DEF n, k
  <2> QED  BY <2>1, <2>2
<1>7. n + k <= SignalQueue  BY DEF T, q
<1> HIDE DEF n, k, all
<1>8. Queued(signals) = SubSeq(all, 1, n + k)
  <2>1. Queued(signals) = SubSeq(all, 1, IF Len(all) < SignalQueue THEN Len(all) ELSE SignalQueue)
    BY DEF Queued, all, q, r, T
  <2>2. (IF Len(all) < SignalQueue THEN Len(all) ELSE SignalQueue) = n + k
    <3>1. Len(all) = n + k /\ n + k \in Nat /\ SignalQueue \in Nat
      BY <1>2, <1>3, <1>6
    <3> QED  BY <1>7, <3>1
  <2> QED  BY <2>1, <2>2
<1>9. /\ Queued(signals) \in Seq(SignalNumbers) /\ Len(Queued(signals)) = n + k
      /\ \A i \in 1 .. n + k : Queued(signals)[i] = all[i]
  BY <1>2, <1>3, <1>6, <1>8
<1>10. ToSet(Queued(signals)) = {all[i] : i \in 1 .. n + k}
  BY <1>9, SeqElements
<1>11. ToSet(q) \subseteq ToSet(Queued(signals))
  <2>1. ToSet(q) = {q[i] : i \in 1 .. n}  BY <1>2, SeqElements DEF n
  <2>2. \A i \in 1 .. n : i \in 1 .. n + k  BY <1>2, <1>3
  <2> QED  BY <1>6, <1>10, <2>1, <2>2
<1>12. T \subseteq ToSet(Queued(signals))
  <2>1. \A j \in 1 .. k : n + j \in 1 .. n + k  BY <1>2, <1>3
  <2>2. \A s \in T : \E j \in 1 .. k : r[j] = s  BY <1>4 DEF k
  <2> QED  BY <1>6, <1>10, <2>1, <2>2
<1> QED  BY <1>1, <1>7, <1>9, <1>11, <1>12 DEF T, q, n, k

LEMMA DeliverKeeps ==
    ASSUME SignalsInv, task_sig_deliver, ~ Overflows PROVE SignalsInv'
<1> DEFINE T == Taken(signals)
           gone == IF /\ FirstPending(signals) \in SignalNumbers
                      /\ signals.action[FirstPending(signals)].handler # "user"
                   THEN {FirstPending(signals)} ELSE {}
           left == (signals.pending \ T) \ gone
<1>1. PICK b \in BOOLEAN :
        signals' = [signals EXCEPT !.pending = left, !.queue = Queued(signals), !.alive = b]
  <2>1. signals.pending = signals.pending  OBVIOUS
  <2> QED  BY DEF task_sig_deliver
<1>2. /\ owed' = owed \ gone /\ handlers' = handlers /\ sent' = sent /\ faults' = faults
      /\ signals.alive
  BY DEF task_sig_deliver
<1> HIDE DEF gone
<1>3. /\ signals \in State /\ owed \in SUBSET SignalNumbers
      /\ owed \subseteq signals.pending \cup ToSet(signals.queue)
      /\ signals.pending \in SUBSET SignalNumbers
      /\ Len(signals.queue) \in Nat /\ sent \in 0 .. MaxSent /\ faults \in 0 .. MaxFaults
  BY <1>2, StateFacts
<1>4. /\ T \in SUBSET signals.pending /\ Queued(signals) \in Seq(SignalNumbers)
      /\ Len(Queued(signals)) = Len(signals.queue) + Cardinality(T)
      /\ Len(Queued(signals)) <= SignalQueue
      /\ ToSet(signals.queue) \cup T \subseteq ToSet(Queued(signals))
  <2>1. Cardinality(T) \in Nat  BY <1>3, SignalSets DEF Taken, Blocked
  <2>2. Len(signals.queue) + Cardinality(T) <= SignalQueue
    <3>1. ~ Len(signals.queue) + Cardinality(T) > SignalQueue  BY DEF Overflows
    <3> HIDE DEF T
    <3>2. Len(signals.queue) + Cardinality(T) \in Nat /\ SignalQueue \in Nat  BY <1>3, <2>1
    <3> QED  BY <3>1, <3>2
  <2> QED  BY <2>2, QueuedIs
<1> HIDE DEF T
<1>5. left \in SUBSET SignalNumbers /\ left \in SUBSET (signals.pending \ T)  BY <1>3
<1> HIDE DEF left
<1>6. /\ signals' \in State /\ signals'.rsp = signals.rsp /\ signals'.stack = signals.stack
      /\ signals'.saved = signals.saved /\ signals'.frame_active = signals.frame_active
      /\ signals'.siginfo_depth = signals.siginfo_depth
      /\ signals'.queue = Queued(signals) /\ signals'.pending = left
  BY <1>1, <1>3, <1>4, <1>5 DEF State
<1>7. owed' \subseteq signals'.pending \cup ToSet(signals'.queue)
  BY <1>2, <1>3, <1>4, <1>6 DEF left
<1>9. owed' \in SUBSET SignalNumbers  BY <1>2, <1>3
<1> QED  BY <1>2, <1>3, <1>4, <1>6, <1>7, <1>9, FramesStay

\* Where the stack pointer was before the newest handler was entered.
LEMMA PositionsLeft ==
    ASSUME NEW now, NEW new, Len(now.handlers) \in Nat \ {0}, OnTwoStacks(now),
           Len(new.handlers) = Len(now.handlers) - 1,
           \A i \in 1 .. Len(new.handlers) : new.handlers[i] = now.handlers[i],
           new.signals.rsp = now.handlers[Len(now.handlers)].was.rsp
    PROVE  /\ \A i \in 0 .. Len(new.handlers) : PositionIn(new, i) = PositionIn(now, i)
           /\ OnTwoStacks(new)
<1> DEFINE n == Len(now.handlers)
<1>1. ASSUME NEW i \in 0 .. n - 1 PROVE PositionIn(new, i) = PositionIn(now, i)
  <2>1. i # n  OBVIOUS
  <2>2. CASE i = n - 1
    <3>1. i + 1 = n  BY <2>2
    <3> QED  BY <2>1, <2>2, <3>1 DEF PositionIn
  <2>3. CASE i # n - 1
    <3>1. i + 1 \in 1 .. n - 1  BY <2>3
    <3> QED  BY <2>1, <2>3, <3>1 DEF PositionIn
  <2> QED  BY <2>2, <2>3
<1>2. PICK m \in 0 .. n : \A i \in 0 .. n : PositionIn(now, i) = Place(m, i)
  BY DEF OnTwoStacks
<1>3. CASE m # n
  <2>1. m \in 0 .. n - 1  BY <1>3
  <2>2. \A i \in 0 .. n - 1 : i \in 0 .. n  OBVIOUS
  <2> QED  BY <1>1, <1>2, <2>1, <2>2 DEF OnTwoStacks
<1>4. CASE m = n
  <2>1. \A i \in 0 .. n - 1 : Place(n - 1, i) = Place(m, i) /\ i \in 0 .. n  BY <1>4 DEF Place
  <2>2. n - 1 \in 0 .. n - 1  OBVIOUS
  <2> QED  BY <1>1, <1>2, <2>1, <2>2 DEF OnTwoStacks
<1> QED  BY <1>1, <1>3, <1>4

\* The frames that are left when a SA_SIGINFO handler returns.
LEMMA FramesLeft ==
    ASSUME NEW now, NEW new, now \in Now, AllOnStacks(now), OnTwoStacks(now),
           Len(now.handlers) \in Nat \ {0},
           Len(new.handlers) = Len(now.handlers) - 1,
           \A i \in 1 .. Len(new.handlers) : new.handlers[i] = now.handlers[i],
           new.signals.rsp = now.handlers[Len(now.handlers)].was.rsp,
           new.signals.stack = [now.signals.stack EXCEPT ![now.signals.rsp] = NoFrame],
           ~ new.signals.frame_active,
           new.signals.siginfo_depth = now.signals.siginfo_depth - 1
    PROVE  AllOnStacks(new) /\ OnTwoStacks(new)
<1> DEFINE n == Len(now.handlers)
<1>1. /\ \A i \in 0 .. n - 1 : PositionIn(new, i) = PositionIn(now, i)
      /\ OnTwoStacks(new)
  <2>1. /\ \A i \in 0 .. Len(new.handlers) : PositionIn(new, i) = PositionIn(now, i)
        /\ OnTwoStacks(new)
    <3> HIDE DEF n
    <3> QED  BY PositionsLeft
  <2> QED  BY <2>1
<1>2. now.signals.siginfo_depth = n /\ n \in 0 .. NestMax
      /\ now.signals.stack \in [Positions -> Frames]
  BY DEF AllOnStacks, Now, State
<1>3. PICK m \in 0 .. n : \A i \in 0 .. n : PositionIn(now, i) = Place(m, i)
  BY DEF OnTwoStacks
<1>4. now.signals.rsp = PositionIn(now, n) /\ n \in 0 .. n  BY DEF PositionIn
<1>5. ASSUME NEW i \in 1 .. n - 1
      PROVE  /\ new.handlers[i].kind = "siginfo"
             /\ new.signals.stack[PositionIn(new, i)] = FrameFor(new, i)
  <2>1. i \in 1 .. n /\ i \in 0 .. n /\ i # n /\ i \in 0 .. n - 1
        /\ i \in 1 .. Len(new.handlers)
    OBVIOUS
  <2>2. PositionIn(now, i) # now.signals.rsp
    <3> HIDE DEF n
    <3>1. n \in Nat  BY DEF n
    <3>2. Place(m, i) # Place(m, n)  BY <1>4, <2>1, <3>1, PlacesDiffer
    <3> QED  BY <1>3, <1>4, <2>1, <3>2
  <2>3. PositionIn(now, i) \in Positions  BY <1>2, <1>3, <2>1, PlaceType
  <2>4. new.signals.stack[PositionIn(now, i)] = now.signals.stack[PositionIn(now, i)]
    BY <1>2, <2>2, <2>3
  <2>5. /\ now.handlers[i].kind = "siginfo"
        /\ now.signals.stack[PositionIn(now, i)] = FrameFor(now, i)
    BY <2>1 DEF AllOnStacks
  <2>6. new.handlers[i] = now.handlers[i] /\ PositionIn(new, i) = PositionIn(now, i)
    BY <1>1, <2>1
  <2> QED  BY <2>4, <2>5, <2>6 DEF FrameFor
<1>6. AllOnStacks(new)  BY <1>2, <1>5 DEF AllOnStacks
<1> QED  BY <1>1, <1>6

LEMMA ReturnKeeps == ASSUME SignalsInv, linux_rt_sigreturn PROVE SignalsInv'
<1> DEFINE n == Len(handlers)
           onStack == signals.siginfo_depth > 0
           frame == IF onStack THEN signals.stack[signals.rsp] ELSE signals.saved
<1>1. /\ signals \in State /\ handlers \in Seq(Handler) /\ handlers # <<>>
      /\ n \in Nat \ {0} /\ signals.siginfo_depth \in 0 .. NestMax
      /\ owed \in SUBSET SignalNumbers
  BY StateFacts DEF State, linux_rt_sigreturn
<1>2. NowInv(Current) /\ Framed(Current)  BY DEF SignalsInv, NowInv
<1>3. handlers[n] \in Handler  BY <1>1
<1>4. /\ handlers[n].was.blocked \in SUBSET SignalNumbers
      /\ handlers[n].was.rsp \in Positions
  BY <1>3 DEF Handler, Context
<1>5. frame = FrameFor(Current, n)
  <2>1. CASE SavedAlone(Current)
    <3>1. ~ onStack /\ n = 1 /\ signals.saved = FrameFor(Current, 1)
      BY <1>1, <2>1, CurrentIs DEF SavedAlone
    <3> QED  BY <3>1
  <2>2. CASE AllOnStacks(Current)
    <3>1. onStack /\ n \in 1 .. Len(Current.handlers)  BY <1>1, <2>2, CurrentIs DEF AllOnStacks
    <3>2. signals.stack[PositionIn(Current, n)] = FrameFor(Current, n)
      BY <2>2, <3>1, CurrentIs DEF AllOnStacks
    <3>3. PositionIn(Current, n) = signals.rsp  BY CurrentIs DEF PositionIn
    <3> QED  BY <3>1, <3>2, <3>3
  <2> QED  BY <1>2, <2>1, <2>2 DEF Framed
<1>6. /\ frame.blocked = handlers[n].was.blocked /\ frame.rsp = handlers[n].was.rsp
      /\ frame.below = n - 1
  BY <1>5, CurrentIs DEF FrameFor
<1>7. /\ handlers' = SubSeq(handlers, 1, n - 1) /\ owed' = owed
      /\ sent' = sent /\ faults' = faults
  BY <1>6 DEF linux_rt_sigreturn
<1>8. /\ handlers' \in Seq(Handler) /\ Len(handlers') = n - 1
      /\ \A i \in 1 .. n - 1 : handlers'[i] = handlers[i]
  <2>1. \A i \in 1 .. n - 1 : handlers[i] \in Handler  BY <1>1
  <2>2. n - 1 \in Nat  BY <1>1
  <2> HIDE DEF n
  <2> DEFINE m == n - 1
  <2>3. handlers' = SubSeq(handlers, 1, m) /\ m \in Nat
        /\ \A i \in 1 .. m : handlers[i] \in Handler
    BY <1>7, <2>1, <2>2
  <2> HIDE DEF m
  <2>4. handlers' = [i \in 1 .. m |-> handlers[i]]  BY <2>3
  <2>5. handlers' \in Seq(Handler) /\ Len(handlers') = m  BY <2>3, <2>4
  <2> QED  BY <2>4, <2>5 DEF m
<1> HIDE DEF frame
<1>9. NoFrame \in Frames /\ signals.rsp \in Positions /\ signals.stack \in [Positions -> Frames]
  BY <1>1 DEF NoFrame, Frames, Bottom, Positions, State
<1>10. /\ signals' \in State /\ signals'.rsp = handlers[n].was.rsp
       /\ signals'.alive = signals.alive /\ signals'.pending = signals.pending
       /\ signals'.queue = signals.queue
       /\ onStack => /\ signals'.siginfo_depth = signals.siginfo_depth - 1
                     /\ signals'.stack = [signals.stack EXCEPT ![signals.rsp] = NoFrame]
                     /\ signals'.frame_active = signals.frame_active
       /\ ~ onStack => signals'.siginfo_depth = signals.siginfo_depth /\ ~ signals'.frame_active
  <2>1. CASE onStack
    <3>1. signals' = [[signals EXCEPT !.siginfo_depth = @ - 1, !.stack[signals.rsp] = NoFrame]
                        EXCEPT !.blocked = frame.blocked, !.rsp = frame.rsp]
      BY <2>1 DEF linux_rt_sigreturn, frame
    <3>2. signals.siginfo_depth - 1 \in 0 .. NestMax  BY <1>1, <2>1
    <3>3. [signals.stack EXCEPT ![signals.rsp] = NoFrame] \in [Positions -> Frames]  BY <1>9
    <3>4. signals' = [signals EXCEPT !.siginfo_depth = signals.siginfo_depth - 1,
                          !.stack = [signals.stack EXCEPT ![signals.rsp] = NoFrame],
                          !.blocked = handlers[n].was.blocked, !.rsp = handlers[n].was.rsp]
      BY <1>1, <1>6, <3>1 DEF State
    <3> QED  BY <1>1, <1>4, <2>1, <3>2, <3>3, <3>4 DEF State
  <2>2. CASE ~ onStack
    <3>1. signals' = [[signals EXCEPT !.frame_active = FALSE, !.saved = NoFrame]
                        EXCEPT !.blocked = frame.blocked, !.rsp = frame.rsp]
      BY <2>2 DEF linux_rt_sigreturn, frame
    <3>2. signals' = [signals EXCEPT !.frame_active = FALSE, !.saved = NoFrame,
                          !.blocked = handlers[n].was.blocked, !.rsp = handlers[n].was.rsp]
      BY <1>6, <3>1
    <3> QED  BY <1>1, <1>4, <1>9, <2>2, <3>2 DEF State
  <2> QED  BY <2>1, <2>2
<1> DEFINE new == [signals |-> signals', handlers |-> handlers', owed |-> owed]
<1>11. /\ new.signals = signals' /\ new.handlers = handlers' /\ new.owed = owed
       /\ new \in Now
  BY <1>1, <1>8, <1>10 DEF Now
<1> HIDE DEF new
<1>12. Framed(new)
  <2>0. /\ Len(Current.handlers) = n /\ n \in Nat \ {0} /\ Len(new.handlers) = n - 1
        /\ \A i \in 1 .. Len(new.handlers) : new.handlers[i] = Current.handlers[i]
        /\ new.signals.rsp = Current.handlers[Len(Current.handlers)].was.rsp
    BY <1>1, <1>8, <1>10, <1>11, CurrentIs
  <2>1. CASE SavedAlone(Current)
    <3>1. OnTwoStacks(new)  BY <1>2, <2>0, PositionsLeft DEF Framed
    <3>2. ~ onStack /\ n - 1 = 0 /\ signals.siginfo_depth = 0
      BY <1>1, <2>1, CurrentIs DEF SavedAlone
    <3>3. AllOnStacks(new)
      <4>1. Len(new.handlers) = 0  BY <1>8, <1>11, <3>2
      <4> QED  BY <1>10, <1>11, <3>2, <4>1 DEF AllOnStacks
    <3> QED  BY <3>1, <3>3 DEF Framed
  <2>2. CASE AllOnStacks(Current)
    <3>1. onStack /\ ~ signals.frame_active
      BY <1>1, <2>2, CurrentIs DEF AllOnStacks
    <3>2. /\ Current \in Now /\ OnTwoStacks(Current)
          /\ ~ new.signals.frame_active
          /\ new.signals.siginfo_depth = Current.signals.siginfo_depth - 1
          /\ new.signals.stack = [Current.signals.stack EXCEPT ![Current.signals.rsp] = NoFrame]
      BY <1>2, <1>10, <1>11, <3>1, CurrentIs DEF NowInv, Framed
    <3> QED  BY <2>0, <2>2, <3>2, FramesLeft DEF Framed
  <2> QED  BY <1>2, <2>1, <2>2 DEF Framed
<1>13. NowInv(new)
  <2>1. Kept(Current)  BY <1>2 DEF NowInv
  <2>2. Kept(new)  BY <1>10, <1>11, <2>1, CurrentIs DEF Kept
  <2> QED  BY <1>11, <1>12, <2>1, <2>2 DEF NowInv
<1>14. Becomes(new)  BY <1>7, <1>11 DEF Becomes
<1>15. Len(new.signals.queue) <= SignalQueue /\ sent \in 0 .. MaxSent /\ faults' \in 0 .. MaxFaults
  BY <1>7, <1>10, <1>11, StateFacts
<1> QED  BY <1>7, <1>13, <1>14, <1>15, BecomesInv

-----------------------------------------------------------------------------
(* The invariant and what it means.                                        *)

LEMMA SignalsStep ==
    ASSUME AltStackHasRoom, NoForkInHandler,
           SignalsInv, [SignalsNext]_signalVars, [~ Overflows]_signalVars
    PROVE  SignalsInv'
<1>1. CASE OtherCall  BY <1>1, OtherKeeps
<1>2. CASE ReadSignalfd  BY <1>2, ReadKeepsSignals
<1>3. CASE Fork  BY <1>3, ForkKeeps
<1>4. CASE \E s \in SignalNumbers, a \in Actions : linux_rt_sigaction(s, a)
  BY <1>4, ActionKeeps
<1>5. CASE \E mask \in Masks : SigProcMask(mask) \/ linux_compat_signalfd(mask)
  BY <1>5, MaskKeeps
<1>6. CASE \E enable \in BOOLEAN : linux_sigaltstack(enable)  BY <1>6, AltstackKeeps
<1>7. CASE linux_rt_sigreturn  BY <1>7, ReturnKeeps
<1>8. CASE linux_signal_prepare_exception  BY <1>8, ExceptionKeeps
<1>9. CASE \E s \in SignalNumbers : task_kill(s)  BY <1>9, KillKeeps
<1>10. CASE task_sig_deliver /\ ~ Overflows  BY <1>10, DeliverKeeps
<1>11. CASE UNCHANGED signalVars
  <2>1. /\ signals' = signals /\ handlers' = handlers /\ owed' = owed
        /\ sent' = sent /\ faults' = faults
    BY <1>11 DEF signalVars
  <2> QED  BY <2>1, StateFacts, FramesStay
<1> QED
  BY <1>1, <1>2, <1>3, <1>4, <1>5, <1>6, <1>7, <1>8, <1>9, <1>10, <1>11
  DEF SignalsNext, Actions

LEMMA InvMeansIntact == SignalsInv => FramesIntact
<1> SUFFICES ASSUME SignalsInv PROVE FramesIntact  OBVIOUS
<1> DEFINE n == Len(handlers)
           nested == {i \in DOMAIN handlers : handlers[i].kind = "siginfo"}
<1>1. Framed(Current) /\ handlers \in Seq(Handler) /\ n \in Nat
  BY StateFacts DEF SignalsInv, NowInv
<1>2. DOMAIN handlers = 1 .. n  BY <1>1
<1>3. CASE SavedAlone(Current)
  <2>1. /\ n = 1 /\ handlers[1].kind = "saved" /\ signals.frame_active
        /\ signals.siginfo_depth = 0 /\ signals.saved = FrameFor(Current, 1)
    BY <1>3, CurrentIs DEF SavedAlone
  <2>2. DOMAIN handlers = {1}  BY <1>2, <2>1
  <2>3. nested = {}  BY <2>1, <2>2
  <2>4. Cardinality(nested) = 0  BY <2>3, FS_EmptySet
  <2>5. FrameOf(1) = [blocked |-> handlers[1].was.blocked, rsp |-> handlers[1].was.rsp,
                      below |-> 1 - 1]
    BY <2>1, CurrentIs DEF FrameOf, FrameFor
  <2> QED  BY <2>1, <2>2, <2>4, <2>5 DEF FramesIntact
<1>4. CASE AllOnStacks(Current)
  <2>1. /\ ~ signals.frame_active /\ signals.siginfo_depth = n
        /\ \A i \in 1 .. n : /\ handlers[i].kind = "siginfo"
                             /\ signals.stack[PositionIn(Current, i)] = FrameFor(Current, i)
    BY <1>4, CurrentIs DEF AllOnStacks
  <2>2. nested = 1 .. n  BY <1>2, <2>1
  <2>3. Cardinality(nested) = n
    <3> HIDE DEF n, nested
    <3>1. Cardinality(1 .. n) = n - 1 + 1  BY <1>1, FS_Interval
    <3> QED  BY <1>1, <2>2, <3>1
  <2>4. ASSUME NEW i \in 1 .. n
        PROVE  FrameOf(i) = [blocked |-> handlers[i].was.blocked,
                             rsp |-> handlers[i].was.rsp, below |-> i - 1]
    <3>1. FrameOf(i) = signals.stack[PositionIn(Current, i)]
      BY <2>1, CurrentIs DEF FrameOf, PositionIn
    <3> QED  BY <2>1, <3>1, CurrentIs DEF FrameFor
  <2> QED  BY <1>2, <2>1, <2>3, <2>4 DEF FramesIntact
<1> QED  BY <1>1, <1>3, <1>4 DEF Framed

LEMMA InvMeansSafe == SignalsInv => SignalsSafe
<1> SUFFICES ASSUME SignalsInv PROVE SignalsSafe  OBVIOUS
<1>1. FramesIntact  BY InvMeansIntact
<1>2. AcceptedIsKept  BY StateFacts DEF AcceptedIsKept
<1>3. SignalsTypeOK  BY StateFacts DEF SignalsTypeOK, State, Actions
<1> QED  BY <1>1, <1>2, <1>3 DEF SignalsSafe

(* Every handler returns to what it interrupted, and every accepted signal *)
(* is pending or queued until the program sees it, for any number of       *)
(* signals, any masks and flags and any nesting of handlers (the frames    *)
(* that syscall.c builds and takes back; the loops of task_sig_deliver and *)
(* linux_compat_signalfd_consume).  The three hypotheses say where the     *)
(* code keeps this promise: the alternate stack holds the nest, the queue  *)
(* of the signalfd is not full when it takes signals, and no handler calls *)
(* fork.                                                                   *)
THEOREM SignalsAreKept ==
    ASSUME AltStackHasRoom, NoForkInHandler
    PROVE  SignalsSpec /\ [][~ Overflows]_signalVars => []SignalsSafe
<1>1. SignalsInit => SignalsInv  BY SignalsInitInv
<1>2. SignalsInv /\ [SignalsNext]_signalVars /\ [~ Overflows]_signalVars => SignalsInv'
  BY SignalsStep
<1>3. SignalsInv => SignalsSafe  BY InvMeansSafe
<1> QED  BY <1>1, <1>2, <1>3, PTL DEF SignalsSpec

HIDE SignalsAssumption
USE TimerAssumption

-----------------------------------------------------------------------------
(* timerfd.  A timer with whole ticks has fired `expired' times, and its   *)
(* deadline is the time of the next expiration.                            *)

\* The quotient is the one number that the division algorithm allows.
LEMMA QuotientIs ==
    ASSUME NEW x \in Int, NEW p \in Nat \ {0}, NEW q \in Int,
           q * p <= x, x < q * p + p
    PROVE  x \div p = q
<1> DEFINE d == x \div p  r == x % p
<1>1. x = p * d + r /\ d \in Int /\ r \in 0 .. p - 1  OBVIOUS
<1> HIDE DEF d, r
<1>2. p * d = d * p  BY <1>1
<1>3. PICK k \in Int : k = q - d  BY <1>1
<1>4. k * p = q * p - d * p  BY <1>1, <1>3
<1>5. k * p <= r /\ r < k * p + p  BY <1>1, <1>2, <1>4
<1>6. ~ k >= 1
  <2> SUFFICES ASSUME k >= 1 PROVE FALSE  OBVIOUS
  <2>1. (k - 1) * p >= 0 /\ k * p = (k - 1) * p + p  OBVIOUS
  <2> QED  BY <1>1, <1>5, <2>1
<1>7. ~ k <= -1
  <2> SUFFICES ASSUME k <= -1 PROVE FALSE  OBVIOUS
  <2>1. (k + 1) * p <= 0 /\ k * p = (k + 1) * p - p  OBVIOUS
  <2> QED  BY <1>1, <1>5, <2>1
<1>8. k = 0  BY <1>6, <1>7
<1>9. d = q  BY <1>1, <1>3, <1>8
<1> QED  BY <1>9 DEF d

LEMMA Division ==
    ASSUME NEW x \in Nat, NEW p \in Nat \ {0}
    PROVE  /\ x = p * (x \div p) + (x % p)
           /\ x \div p \in Nat /\ x % p >= 0
OBVIOUS

LEMMA NoTimes == ASSUME NEW x \in Nat, NEW p \in Nat PROVE x + 0 * p = x
OBVIOUS

\* Whole multiples can be taken out of a quotient.
LEMMA QuotientShift ==
    ASSUME NEW x \in Nat, NEW p \in Nat \ {0}, NEW k \in Nat
    PROVE  (x + k * p) \div p = (x \div p) + k
<1> DEFINE q == x \div p
<1>1. x = p * q + (x % p) /\ q \in Int /\ (x % p) \in 0 .. p - 1  OBVIOUS
<1> HIDE DEF q
<1>2. (q + k) * p = q * p + k * p /\ p * q = q * p /\ k * p \in Int /\ q * p \in Int  BY <1>1
<1>3. (q + k) * p <= x + k * p /\ x + k * p < (q + k) * p + p  BY <1>1, <1>2
<1>4. q + k \in Int /\ x + k * p \in Int  BY <1>1, <1>2
<1>5. \A y \in Int, z \in Int : z * p <= y /\ y < z * p + p => y \div p = z  BY QuotientIs
<1> QED  BY <1>3, <1>4, <1>5 DEF q

LEMMA TicksType == \A v \in TimerValues : timerfd_timespec_to_ticks(v) \in Nat
BY DEF timerfd_timespec_to_ticks

\* A time in whole ticks that is not zero is at least a tick.
LEMMA WholeTime ==
    ASSUME NEW v \in TimerValues, WholeTicks(v)
    PROVE  v = 0 <=> timerfd_timespec_to_ticks(v) = 0
<1>1. v \in Nat /\ TickUnits \in Nat \ {0}  OBVIOUS
<1>2. v = TickUnits * (v \div TickUnits) + (v % TickUnits) /\ v \div TickUnits \in Nat  BY <1>1
<1>3. v % TickUnits = 0  BY DEF WholeTicks
<1>4. v = TickUnits * (v \div TickUnits)  BY <1>1, <1>2, <1>3
<1>5. CASE v = 0  BY <1>1, <1>5 DEF timerfd_timespec_to_ticks
<1>6. CASE v # 0
  <2>1. v \div TickUnits # 0  BY <1>1, <1>4, <1>6
  <2> QED  BY <1>6, <2>1 DEF timerfd_timespec_to_ticks
<1> QED  BY <1>5, <1>6

Whole == asked # NotAsked /\ WholeTicks(asked.value) /\ WholeTicks(asked.interval)
Period == asked.interval \div TickUnits

NextExpiration ==
    Whole =>
    /\ timer.interval = Period
    /\ asked.value = 0 => timer.deadline = 0 /\ expired = 0
    /\ asked.value # 0 /\ Period = 0 =>
         \/ timer.deadline = First /\ expired = 0
         \/ timer.deadline = 0 /\ expired = 1 /\ tick >= First
    /\ asked.value # 0 /\ Period # 0 =>
         /\ timer.deadline = First + expired * Period
         /\ expired # 0 => tick >= First + (expired - 1) * Period

TimerInv == TimerTypeOK /\ NextExpiration

\* What is known of a timer that was set.
LEMMA SettingFacts ==
    ASSUME TimerTypeOK, asked # NotAsked
    PROVE  /\ asked \in Settings
           /\ asked.value \in TimerValues /\ asked.interval \in TimerValues
           /\ asked.at \in Nat /\ asked.absolute \in BOOLEAN
           /\ Period \in Nat /\ First \in Nat /\ asked.value \div TickUnits \in Nat
<1>1. asked \in Settings  BY DEF TimerTypeOK
<1>2. /\ asked.value \in TimerValues /\ asked.interval \in TimerValues
      /\ asked.at \in Nat /\ asked.absolute \in BOOLEAN
  BY <1>1 DEF Settings
<1>3. Period \in Nat /\ asked.value \div TickUnits \in Nat
  BY <1>2, TicksType DEF Period, timerfd_timespec_to_ticks
<1>4. First \in Nat  BY <1>2, <1>3 DEF First
<1> QED  BY <1>1, <1>2, <1>3, <1>4

LEMMA ExpirationsType ==
    ASSUME TimerTypeOK
    PROVE  /\ Expirations \in Nat
           /\ Expirations = 0 <=> ~ timerfd_ready
<1>1. tick \in Nat /\ timer.deadline \in Nat /\ timer.interval \in Nat
  BY DEF TimerTypeOK
<1>2. ASSUME timerfd_ready, timer.interval # 0
      PROVE  (tick - timer.deadline) \div timer.interval \in Nat
  <2>1. tick - timer.deadline \in Nat /\ timer.interval \in Nat \ {0}
    BY <1>1, <1>2 DEF timerfd_ready
  <2> QED  BY <2>1
<1> QED  BY <1>1, <1>2 DEF Expirations

LEMMA TimerInitInv == TimerInit => TimerInv
<1> SUFFICES ASSUME TimerInit PROVE TimerInv  OBVIOUS
<1>1. tick \in 0 .. LastTick /\ timer \in [deadline : Nat, interval : Nat]
  BY DEF TimerInit, Disarmed
<1>2. TimerTypeOK  BY <1>1 DEF TimerInit, TimerTypeOK
<1>3. NextExpiration  BY DEF TimerInit, NextExpiration, Whole
<1> QED  BY <1>2, <1>3 DEF TimerInv

LEMMA SettimeKeeps ==
    ASSUME TimerInv, NEW value \in TimerValues, NEW interval \in TimerValues,
           NEW absolute \in BOOLEAN,
           linux_compat_timerfd_settime(value, interval, absolute)
    PROVE  TimerInv'
<1> DEFINE ticks == timerfd_timespec_to_ticks(value)
           set == [value |-> value, interval |-> interval, at |-> tick, absolute |-> absolute]
<1>1. /\ timer' = [deadline |-> IF ticks = 0 THEN 0
                                ELSE IF absolute THEN ticks ELSE tick + ticks,
                   interval |-> timerfd_timespec_to_ticks(interval)]
      /\ asked' = set /\ expired' = 0 /\ tick' = tick /\ reading' = reading
  BY DEF linux_compat_timerfd_settime
<1>2. tick \in 0 .. LastTick /\ tick \in Nat /\ reading \in 0 .. 4
  BY DEF TimerInv, TimerTypeOK
<1>3. ticks \in Nat /\ timerfd_timespec_to_ticks(interval) \in Nat  BY TicksType
<1>4. set \in Settings  BY <1>2 DEF Settings
<1> HIDE DEF ticks
<1>5. TimerTypeOK'  BY <1>1, <1>2, <1>3, <1>4 DEF TimerTypeOK
<1>6. /\ asked'.value = value /\ asked'.interval = interval
      /\ asked'.at = tick /\ asked'.absolute = absolute
  BY <1>1
<1>7. Period' = timerfd_timespec_to_ticks(interval)
  BY <1>6 DEF Period, timerfd_timespec_to_ticks
<1>8. First' = IF absolute THEN ticks ELSE tick + ticks
  BY <1>6 DEF First, ticks, timerfd_timespec_to_ticks
<1>9. ASSUME Whole' PROVE value = 0 <=> ticks = 0
  BY <1>6, <1>9, WholeTime DEF Whole, WholeTicks, ticks
<1>10. NextExpiration'
  <2> SUFFICES ASSUME Whole' PROVE NextExpiration'  BY DEF NextExpiration
  <2>1. timer'.interval = Period'  BY <1>1, <1>7
  <2>2. CASE value = 0
    <3>1. timer'.deadline = 0  BY <1>1, <1>9, <2>2
    <3> QED  BY <1>1, <1>6, <2>1, <2>2, <3>1 DEF NextExpiration
  <2>3. CASE value # 0
    <3>1. timer'.deadline = First'  BY <1>1, <1>8, <1>9, <2>3
    <3>2. Period' \in Nat /\ First' \in Nat  BY <1>2, <1>3, <1>7, <1>8
    <3>3. First' + 0 * Period' = First'  BY <3>2, NoTimes
    <3> QED  BY <1>1, <1>6, <2>1, <2>3, <3>1, <3>3 DEF NextExpiration
  <2> QED  BY <2>2, <2>3
<1> QED  BY <1>5, <1>10 DEF TimerInv

LEMMA TickKeeps == ASSUME TimerInv, TimerTick PROVE TimerInv'
<1>1. /\ tick' = tick + 1 /\ tick < LastTick
      /\ timer' = timer /\ asked' = asked /\ expired' = expired /\ reading' = reading
  BY DEF TimerTick
<1>2. TimerTypeOK  BY DEF TimerInv
<1>3. tick \in Nat /\ expired \in Nat  BY <1>2 DEF TimerTypeOK
<1>4. TimerTypeOK'  BY <1>1, <1>2 DEF TimerTypeOK
<1>5. Whole' = Whole /\ Period' = Period /\ First' = First
  BY <1>1 DEF Whole, Period, First
<1>6. NextExpiration'
  <2> SUFFICES ASSUME Whole PROVE NextExpiration'  BY <1>5 DEF NextExpiration
  <2>1. Period \in Nat /\ First \in Nat  BY <1>2, SettingFacts DEF Whole
  <2>2. NextExpiration  BY DEF TimerInv
  <2>3. (expired - 1) * Period \in Int  BY <1>3, <2>1
  <2> QED  BY <1>1, <1>3, <1>5, <2>1, <2>2, <2>3 DEF NextExpiration
<1> QED  BY <1>4, <1>6 DEF TimerInv

LEMMA ReadKeeps == ASSUME TimerInv, TimerRead PROVE TimerInv'
<1> DEFINE E == Expirations
<1>1. /\ timer' = Advanced /\ expired' = expired + E
      /\ reading' = IF E > 0 THEN 0 ELSE IF reading = 0 THEN 4 ELSE reading - 1
      /\ tick' = tick /\ asked' = asked
  BY DEF TimerRead
<1>2. TimerTypeOK /\ NextExpiration  BY DEF TimerInv
<1>3. E \in Nat /\ (E = 0 <=> ~ timerfd_ready)  BY <1>2, ExpirationsType
<1>4. /\ tick \in Nat /\ expired \in Nat /\ reading \in 0 .. 4
      /\ timer.deadline \in Nat /\ timer.interval \in Nat
      /\ timer = [deadline |-> timer.deadline, interval |-> timer.interval]
  BY <1>2 DEF TimerTypeOK
<1>5. /\ timer'.interval = timer.interval
      /\ timer' = [deadline |-> timer'.deadline, interval |-> timer.interval]
      /\ timer'.deadline = IF ~ timerfd_ready THEN timer.deadline
                           ELSE IF timer.interval = 0 THEN 0
                           ELSE timer.deadline + E * timer.interval
  <2>1. CASE ~ timerfd_ready  BY <1>1, <1>4, <2>1 DEF Advanced
  <2>2. CASE timerfd_ready /\ timer.interval = 0  BY <1>1, <1>4, <2>2 DEF Advanced
  <2>3. CASE timerfd_ready /\ timer.interval # 0  BY <1>1, <1>4, <2>3 DEF Advanced
  <2> QED  BY <2>1, <2>2, <2>3
<1> HIDE DEF E
<1>6. E * timer.interval \in Nat  BY <1>3, <1>4
<1>7. timer'.deadline \in Nat  BY <1>4, <1>5, <1>6
<1>8. TimerTypeOK'
  <2>1. timer' \in [deadline : Nat, interval : Nat]  BY <1>4, <1>5, <1>7
  <2>2. expired' \in Nat /\ reading' \in 0 .. 4  BY <1>1, <1>3, <1>4
  <2> QED  BY <1>1, <1>2, <2>1, <2>2 DEF TimerTypeOK
<1>9. Whole' = Whole /\ Period' = Period /\ First' = First
  BY <1>1 DEF Whole, Period, First
<1>10. NextExpiration'
  <2> SUFFICES ASSUME Whole PROVE NextExpiration'  BY <1>9 DEF NextExpiration
  <2>1. Period \in Nat /\ First \in Nat  BY <1>2, SettingFacts DEF Whole
  <2>2. timer.interval = Period  BY <1>2 DEF NextExpiration
  <2>3. CASE ~ timerfd_ready
    <3>1. E = 0 /\ expired' = expired /\ timer'.deadline = timer.deadline
      BY <1>1, <1>3, <1>4, <1>5, <2>3
    <3> QED  BY <1>1, <1>2, <1>5, <1>9, <3>1 DEF NextExpiration
  <2>4. CASE timerfd_ready
    <3>1. timer.deadline # 0 /\ tick >= timer.deadline  BY <2>4 DEF timerfd_ready
    <3>2. asked.value # 0  BY <1>2, <3>1 DEF NextExpiration
    <3>3. CASE Period = 0
      <4>1. E = 1  BY <2>2, <2>4, <3>3 DEF E, Expirations
      <4>2. timer.deadline = First /\ expired = 0  BY <1>2, <3>1, <3>2, <3>3 DEF NextExpiration
      <4>3. timer'.deadline = 0 /\ expired' = 1 /\ tick' >= First'
        BY <1>1, <1>5, <1>9, <2>2, <2>4, <3>1, <3>3, <4>1, <4>2
      <4> QED  BY <1>1, <1>5, <1>9, <2>2, <3>2, <3>3, <4>3 DEF NextExpiration
    <3>4. CASE Period # 0
      <4> DEFINE q == (tick - timer.deadline) \div Period
      <4>1. E = 1 + q  BY <2>2, <2>4, <3>4 DEF E, Expirations
      <4>2. tick - timer.deadline \in Nat /\ Period \in Nat \ {0}  BY <1>4, <2>1, <3>1, <3>4
      <4>3. tick - timer.deadline = Period * q + ((tick - timer.deadline) % Period)
            /\ q \in Nat /\ (tick - timer.deadline) % Period >= 0
        BY <4>2, Division
      <4> HIDE DEF q
      <4>4. Period * q = q * Period /\ q * Period \in Nat  BY <4>2, <4>3
      <4>5. timer.deadline + q * Period <= tick  BY <1>4, <4>2, <4>3, <4>4
      <4>6. timer.deadline = First + expired * Period
        BY <1>2, <3>2, <3>4 DEF NextExpiration
      <4>7. /\ (expired + E) * Period = expired * Period + E * Period
            /\ (expired + E - 1) * Period = expired * Period + q * Period
            /\ expired * Period \in Nat /\ E * Period \in Nat
        BY <1>3, <1>4, <4>1, <4>2, <4>3
      <4>8. timer'.deadline = First + expired' * Period
        BY <1>1, <1>4, <1>5, <2>1, <2>2, <2>4, <3>4, <4>6, <4>7
      <4>9. tick >= First + (expired' - 1) * Period
        <5>1. expired' - 1 = expired + E - 1  BY <1>1, <1>3, <1>4
        <5>2. (expired' - 1) * Period = expired * Period + q * Period  BY <4>7, <5>1
        <5> QED  BY <1>1, <1>4, <2>1, <4>4, <4>5, <4>6, <4>7, <5>2
      <4> QED  BY <1>1, <1>5, <1>9, <2>2, <3>2, <3>4, <4>8, <4>9 DEF NextExpiration
    <3> QED  BY <3>3, <3>4
  <2> QED  BY <2>3, <2>4
<1> QED  BY <1>8, <1>10 DEF TimerInv

\* What was read and what can be read is what is due.
LEMMA DueIsCounted == ASSUME TimerInv PROVE NoExpirationLost
<1> SUFFICES ASSUME Whole PROVE expired + Expirations = Due
  BY DEF NoExpirationLost, Whole
<1> DEFINE E == Expirations
<1>1. TimerTypeOK /\ NextExpiration  BY DEF TimerInv
<1>2. /\ tick \in Nat /\ expired \in Nat
      /\ timer.deadline \in Nat /\ timer.interval \in Nat
  BY <1>1 DEF TimerTypeOK
<1>3. /\ asked.value \in TimerValues /\ asked.interval \in TimerValues
      /\ Period \in Nat /\ First \in Nat /\ asked.value \div TickUnits \in Nat
      /\ asked.at \in Nat
  BY <1>1, SettingFacts DEF Whole
<1>4. timer.interval = Period  BY <1>1 DEF NextExpiration
<1>5. asked.interval = 0 <=> Period = 0
  BY <1>3, WholeTime DEF Whole, Period, timerfd_timespec_to_ticks
<1>6. asked.value # 0 => First > 0
  <2>1. asked.value # 0 => asked.value \div TickUnits # 0
    BY <1>3, WholeTime DEF Whole, timerfd_timespec_to_ticks
  <2> QED  BY <1>3, <2>1 DEF First
<1>7. Due = IF asked.value = 0 \/ tick < First THEN 0
            ELSE IF Period = 0 THEN 1 ELSE 1 + (tick - First) \div Period
  BY <1>5 DEF Due, Whole, Period
<1>8. CASE asked.value = 0
  <2>1. timer.deadline = 0 /\ expired = 0  BY <1>1, <1>8 DEF NextExpiration
  <2>2. Expirations = 0  BY <2>1 DEF Expirations, timerfd_ready
  <2> QED  BY <1>7, <1>8, <2>1, <2>2
<1>9. CASE asked.value # 0 /\ Period = 0
  <2>1. CASE timer.deadline = First /\ expired = 0
    <3>1. Expirations = IF tick >= First THEN 1 ELSE 0
      BY <1>4, <1>6, <1>9, <2>1 DEF Expirations, timerfd_ready
    <3> QED  BY <1>2, <1>3, <1>7, <1>9, <2>1, <3>1
  <2>2. CASE timer.deadline = 0 /\ expired = 1 /\ tick >= First
    <3>1. Expirations = 0  BY <2>2 DEF Expirations, timerfd_ready
    <3> QED  BY <1>2, <1>3, <1>7, <1>9, <2>2, <3>1
  <2> QED  BY <1>1, <1>9, <2>1, <2>2 DEF NextExpiration
<1>10. CASE asked.value # 0 /\ Period # 0
  <2>1. /\ timer.deadline = First + expired * Period
        /\ expired # 0 => tick >= First + (expired - 1) * Period
    BY <1>1, <1>10 DEF NextExpiration
  <2>2. /\ expired * Period \in Nat
        /\ expired # 0 => (expired - 1) * Period \in Nat
        /\ expired * Period = (expired - 1) * Period + Period
    BY <1>2, <1>3
  <2>3. timer.deadline > 0  BY <1>3, <1>6, <1>10, <2>1, <2>2
  <2>4. CASE tick < timer.deadline
    <3>1. Expirations = 0  BY <1>2, <2>4 DEF Expirations, timerfd_ready
    <3>2. CASE expired = 0
      <4>1. timer.deadline = First  BY <1>3, <2>1, <3>2
      <4> QED  BY <1>2, <1>7, <2>4, <3>1, <3>2, <4>1
    <3>3. CASE expired # 0
      <4>1. tick >= First /\ tick - First \in Int /\ Period \in Nat \ {0} /\ expired - 1 \in Int
        BY <1>2, <1>3, <1>10, <2>1, <2>2, <3>3
      <4>2. /\ (expired - 1) * Period <= tick - First
            /\ tick - First < (expired - 1) * Period + Period
        BY <1>2, <1>3, <2>1, <2>2, <2>4, <3>3
      <4>3. (tick - First) \div Period = expired - 1  BY <4>1, <4>2, QuotientIs
      <4> QED  BY <1>2, <1>3, <1>7, <1>10, <3>1, <4>1, <4>3
    <3> QED  BY <3>2, <3>3
  <2>5. CASE tick >= timer.deadline
    <3>1. Expirations = 1 + (tick - timer.deadline) \div Period
      BY <1>4, <1>10, <2>3, <2>5 DEF Expirations, timerfd_ready
    <3>2. tick - timer.deadline \in Nat /\ Period \in Nat \ {0}
      BY <1>2, <1>3, <1>10, <2>5
    <3>3. tick - First = (tick - timer.deadline) + expired * Period /\ tick >= First
      BY <1>2, <1>3, <2>1, <2>2, <2>5
    <3>4. (tick - First) \div Period = ((tick - timer.deadline) \div Period) + expired
      <4>1. ((tick - timer.deadline) + expired * Period) \div Period
              = ((tick - timer.deadline) \div Period) + expired
        BY <1>2, <3>2, QuotientShift
      <4> QED  BY <3>3, <4>1
    <3>5. (tick - timer.deadline) \div Period \in Nat  BY <3>2
    <3> QED  BY <1>2, <1>3, <1>7, <1>10, <3>1, <3>3, <3>4, <3>5
  <2> QED  BY <1>2, <2>4, <2>5
<1> QED  BY <1>8, <1>9, <1>10

\* Reads of a timerfd and what the next would return add up to the expirations
\* that are due, for any times in whole ticks, any rate of the timer interrupt
\* and however late the reads come.
THEOREM TimersCount == TimerSpec => []TimerSafe
<1>1. TimerInv /\ [TimerNext]_timerVars => TimerInv'
  <2> SUFFICES ASSUME TimerInv, [TimerNext]_timerVars PROVE TimerInv'  OBVIOUS
  <2>1. CASE TimerNext  BY <2>1, SettimeKeeps, ReadKeeps, TickKeeps DEF TimerNext
  <2>2. CASE UNCHANGED timerVars
    BY <2>2 DEF timerVars, TimerInv, TimerTypeOK, NextExpiration, Whole, Period, First
  <2> QED  BY <2>1, <2>2
<1>2. TimerInv => TimerSafe  BY DueIsCounted DEF TimerInv, TimerSafe
<1> QED  BY <1>1, <1>2, TimerInitInv, PTL DEF TimerSpec

-----------------------------------------------------------------------------
(* epoll.                                                                  *)

\* The descriptors of watches are closed only after the watch is deleted.
WatchesAreDeleted == ClosesWatched = FALSE

\* A one-shot watch that has fired sleeps.
FiredSleeps ==
    \A i \in WatchSlots : watches[i] # NoWatch /\ watches[i].oneshot =>
        watches[i].fired = 0 \/ (watches[i].fired = 1 /\ watches[i].oneshot_done)

ReadyInv == ReadyTypeOK /\ WatchesFollowObjects /\ FiredSleeps

LEMMA MinIs ==
    ASSUME NEW S \in SUBSET Nat, S # {}
    PROVE  Min(S) \in S
<1>1. PICK n \in S : \A m \in S : ~ (<<m, n>> \in OpToRel(<, Nat))
  BY NatLessThanWellFounded, WFMin
<1>2. \A m \in S : ~ m < n  BY <1>1 DEF OpToRel
<1>3. n \in S /\ \A m \in S : n =< m  BY <1>2
<1> QED  BY <1>3 DEF Min

LEMMA WatchFacts ==
    /\ \A w \in Watch : w # NoWatch /\ w.fd \in WatchedFds /\ w.source \in Sources
    /\ NoWatch.fd \notin WatchedFds
<1>1. \A w \in Watch : w.fd \in WatchedFds /\ w.source \in Sources  BY DEF Watch
<1>2. NoWatch.fd = -1  BY DEF NoWatch
<1>3. NoWatch.fd \notin WatchedFds  BY <1>2, ReadyAssumption
<1> QED  BY <1>1, <1>3

LEMMA MaskType == \A fd : fd_ready_mask(fd) \in SUBSET {"in", "out"}
BY DEF fd_ready_mask

LEMMA ReadyInitInv == ReadyInit => ReadyInv
<1> SUFFICES ASSUME ReadyInit PROVE ReadyInv  OBVIOUS
<1>1. ReadyTypeOK  BY ReadyAssumption DEF ReadyInit, ReadyTypeOK
<1>2. \A i \in WatchSlots : watches[i] = NoWatch  BY DEF ReadyInit
<1>3. WatchesFollowObjects /\ FiredSleeps  BY <1>2 DEF WatchesFollowObjects, FiredSleeps
<1> QED  BY <1>1, <1>3 DEF ReadyInv

\* Steps that change no watch and what no watch leads to.
LEMMA SameWatches ==
    ASSUME ReadyInv, watches' = watches,
           \A i \in WatchSlots : watches[i] # NoWatch => leads'[watches[i].fd] = leads[watches[i].fd]
    PROVE  WatchesFollowObjects' /\ FiredSleeps'
<1>1. \A fd : Watches(fd)' = Watches(fd)  BY DEF Watches
<1>2. WatchesFollowObjects'  BY <1>1 DEF ReadyInv, WatchesFollowObjects
<1>3. FiredSleeps'  BY DEF ReadyInv, FiredSleeps
<1> QED  BY <1>2, <1>3

LEMMA OpenKeeps ==
    ASSUME ReadyInv, NEW fd \in WatchedFds, NEW s \in Sources, Open(fd, s) PROVE ReadyInv'
<1>1. /\ leads[fd] = "closed" /\ leads' = [leads EXCEPT ![fd] = s]
      /\ held' = [held EXCEPT ![s] = 0] /\ fresh' = [fresh EXCEPT ![s] = FALSE]
      /\ watches' = watches /\ waiter' = waiter /\ poller' = poller
  BY DEF Open
<1>2. ReadyTypeOK'  BY <1>1, ReadyAssumption DEF ReadyInv, ReadyTypeOK
<1>3. ASSUME NEW i \in WatchSlots, watches[i] # NoWatch
      PROVE  leads'[watches[i].fd] = leads[watches[i].fd]
  <2>1. watches[i] \in Watch  BY <1>3 DEF ReadyInv, ReadyTypeOK
  <2>2. leads[watches[i].fd] \in Sources  BY <1>3, <2>1, WatchFacts DEF ReadyInv, WatchesFollowObjects
  <2>3. watches[i].fd # fd  BY <1>1, <2>2, ReadyAssumption
  <2> QED  BY <1>1, <2>1, <2>3, WatchFacts DEF ReadyInv, ReadyTypeOK
<1> QED  BY <1>1, <1>2, <1>3, SameWatches DEF ReadyInv

LEMMA CloseKeeps ==
    ASSUME WatchesAreDeleted, ReadyInv, NEW fd \in WatchedFds, Close(fd) PROVE ReadyInv'
<1>1. /\ Watches(fd) = {} /\ leads' = [leads EXCEPT ![fd] = "closed"]
      /\ held' = held /\ fresh' = fresh
      /\ watches' = watches /\ waiter' = waiter /\ poller' = poller
  BY DEF Close, WatchesAreDeleted
<1>2. ReadyTypeOK'  BY <1>1 DEF ReadyInv, ReadyTypeOK
<1>3. ASSUME NEW i \in WatchSlots, watches[i] # NoWatch
      PROVE  leads'[watches[i].fd] = leads[watches[i].fd]
  <2>1. watches[i] \in Watch  BY <1>3 DEF ReadyInv, ReadyTypeOK
  <2>2. watches[i].fd # fd  BY <1>1 DEF Watches
  <2> QED  BY <1>1, <2>1, <2>2, WatchFacts DEF ReadyInv, ReadyTypeOK
<1> QED  BY <1>1, <1>2, <1>3, SameWatches DEF ReadyInv

LEMMA SourceKeeps ==
    ASSUME ReadyInv, NEW s \in Sources, Put(s) \/ Drain(s) PROVE ReadyInv'
<1>1. leads' = leads /\ watches' = watches /\ waiter' = waiter /\ poller' = poller
  BY DEF Put, Drain
<1>2. held' \in [Sources -> 0 .. SourceRoom] /\ fresh' \in [Sources -> BOOLEAN]
  <2>1. /\ held \in [Sources -> 0 .. SourceRoom] /\ fresh \in [Sources -> BOOLEAN]
        /\ SourceRoom \in Nat /\ 0 \in 0 .. SourceRoom
    BY ReadyAssumption DEF ReadyInv, ReadyTypeOK
  <2>2. CASE Put(s)
    <3>1. held[s] + 1 \in 0 .. SourceRoom  BY <2>1, <2>2 DEF Put
    <3> QED  BY <2>1, <2>2, <3>1 DEF Put
  <2>3. CASE Drain(s)  BY <2>1, <2>3 DEF Drain
  <2> QED  BY <2>2, <2>3
<1>3. ReadyTypeOK'  BY <1>1, <1>2 DEF ReadyInv, ReadyTypeOK
<1> QED  BY <1>1, <1>3, SameWatches DEF ReadyInv

LEMMA ArmedType ==
    ASSUME ReadyTypeOK, NEW fd \in WatchedFds, leads[fd] # "closed",
           NEW form \in WatchForms, NEW interest \in Interests
    PROVE  Armed(fd, form, interest) \in Watch
<1>1. leads[fd] \in Sources  BY DEF ReadyTypeOK
<1>2. form.edge \in BOOLEAN /\ form.oneshot \in BOOLEAN /\ interest \in SUBSET {"in", "out"}
  BY ReadyAssumption
<1> QED  BY <1>1, <1>2 DEF Armed, Watch

\* A step that gives one slot an armed watch, or none, and no number two.
LEMMA ChangedWatch ==
    ASSUME ReadyInv, NEW i \in WatchSlots, NEW w \in Watch \cup {NoWatch},
           watches' = [watches EXCEPT ![i] = w],
           w # NoWatch => /\ w.fired = 0 /\ leads[w.fd] = w.source
                          /\ Watches(w.fd) \subseteq {i},
           UNCHANGED <<leads, held, waiter, poller, fresh>>
    PROVE  ReadyInv'
<1>1. ReadyTypeOK /\ WatchesFollowObjects /\ FiredSleeps  BY DEF ReadyInv
<1>2. watches'[i] = w /\ \A j \in WatchSlots \ {i} : watches'[j] = watches[j]
  BY <1>1 DEF ReadyTypeOK
<1>3. ReadyTypeOK'  BY <1>1 DEF ReadyTypeOK
<1>4. FiredSleeps'  BY <1>1, <1>2 DEF FiredSleeps
<1>5. WatchesFollowObjects'
  <2> SUFFICES ASSUME NEW j \in WatchSlots, watches'[j] # NoWatch
               PROVE  /\ leads[watches'[j].fd] = watches'[j].source
                      /\ \A k \in WatchSlots : watches'[k].fd = watches'[j].fd <=> k = j
    BY DEF WatchesFollowObjects, Watches
  <2>1. watches'[j] \in Watch  BY <1>3 DEF ReadyTypeOK
  <2>2. \A k \in WatchSlots : watches'[k].fd = watches'[j].fd => watches'[k] # NoWatch
    BY <2>1, WatchFacts
  <2>3. leads[watches'[j].fd] = watches'[j].source
    BY <1>1, <1>2 DEF WatchesFollowObjects
  <2>4. ASSUME NEW k \in WatchSlots, watches'[k].fd = watches'[j].fd, k # j PROVE FALSE
    <3>1. watches'[k] # NoWatch  BY <2>2, <2>4
    <3>2. CASE j = i
      <4>1. k \in Watches(w.fd)  BY <1>2, <2>4, <3>2 DEF Watches
      <4> QED  BY <1>2, <2>4, <3>2, <4>1
    <3>3. CASE k = i
      <4>1. j \in Watches(w.fd)  BY <1>2, <2>4, <3>3 DEF Watches
      <4> QED  BY <1>2, <2>4, <3>1, <3>3, <4>1
    <3>4. CASE j # i /\ k # i
      <4>1. k \in Watches(watches[j].fd) /\ watches[j] # NoWatch
        BY <1>2, <2>4, <3>4 DEF Watches
      <4> QED  BY <1>1, <2>4, <4>1 DEF WatchesFollowObjects
    <3> QED  BY <3>2, <3>3, <3>4
  <2> QED  BY <2>3, <2>4
<1> QED  BY <1>3, <1>4, <1>5 DEF ReadyInv

LEMMA CtlKeeps == ASSUME ReadyInv, linux_compat_epoll_ctl PROVE ReadyInv'
<1>1. PICK fd \in WatchedFds :
        \/ EpollDel(fd)
        \/ \E form \in WatchForms, interest \in Interests :
              EpollAdd(fd, form, interest) \/ EpollMod(fd, form, interest)
  BY DEF linux_compat_epoll_ctl
<1>2. ReadyTypeOK /\ WatchesFollowObjects  BY DEF ReadyInv
<1>3. CASE EpollDel(fd)
  <2>1. PICK i \in Watches(fd) : watches' = [watches EXCEPT ![i] = NoWatch]  BY <1>3 DEF EpollDel
  <2>2. i \in WatchSlots /\ UNCHANGED <<leads, held, waiter, poller, fresh>>
    BY <1>3 DEF EpollDel, Watches
  <2> QED  BY <2>1, <2>2, ChangedWatch
<1>4. ASSUME NEW form \in WatchForms, NEW interest \in Interests, EpollAdd(fd, form, interest)
      PROVE  ReadyInv'
  <2> DEFINE empty == {i \in WatchSlots : watches[i] = NoWatch}
             w == Armed(fd, form, interest)
  <2>1. /\ leads[fd] # "closed" /\ Watches(fd) = {} /\ empty # {}
        /\ watches' = [watches EXCEPT ![Min(empty)] = w]
        /\ UNCHANGED <<leads, held, waiter, poller, fresh>>
    BY <1>4 DEF EpollAdd
  <2>2. Min(empty) \in WatchSlots  BY <2>1, MinIs, ReadyAssumption
  <2>3. w \in Watch  BY <1>2, <2>1, ArmedType
  <2>4. w.fired = 0 /\ w.fd = fd /\ w.source = leads[fd]  BY DEF Armed
  <2> HIDE DEF w, empty
  <2> QED  BY <2>1, <2>2, <2>3, <2>4, ChangedWatch
<1>5. ASSUME NEW form \in WatchForms, NEW interest \in Interests, EpollMod(fd, form, interest)
      PROVE  ReadyInv'
  <2>1. leads[fd] # "closed" /\ UNCHANGED <<leads, held, waiter, poller, fresh>>
    BY <1>5 DEF EpollMod
  <2>2. PICK i \in Watches(fd) :
          watches' = [watches EXCEPT ![i] =
                        [Armed(fd, form, interest) EXCEPT !.source = watches[i].source]]
    BY <1>5 DEF EpollMod
  <2> DEFINE w == [Armed(fd, form, interest) EXCEPT !.source = watches[i].source]
  <2>3. i \in WatchSlots /\ watches[i].fd = fd  BY DEF Watches
  <2>4. watches[i] # NoWatch  BY <2>3, WatchFacts
  <2>5. watches[i] \in Watch  BY <1>2, <2>3, <2>4 DEF ReadyTypeOK
  <2>6. leads[fd] = watches[i].source /\ Watches(fd) = {i}
    BY <1>2, <2>3, <2>4 DEF WatchesFollowObjects
  <2>7. Armed(fd, form, interest) \in Watch  BY <1>2, <2>1, ArmedType
  <2>8. w \in Watch /\ w.fired = 0 /\ w.fd = fd /\ w.source = watches[i].source
    BY <2>5, <2>7, WatchFacts DEF Watch, Armed
  <2>9. watches' = [watches EXCEPT ![i] = w]  BY <2>2
  <2> HIDE DEF w
  <2> QED  BY <2>1, <2>3, <2>6, <2>8, <2>9, ChangedWatch
<1> QED  BY <1>1, <1>3, <1>4, <1>5

LEMMA ScanKeeps ==
    ASSUME ReadyInv, Scan, waiter' \in {"out", "timed", "untimed"} PROVE ReadyInv'
<1> DEFINE after(i) == [watches[i] EXCEPT
                          !.last_mask = fd_ready_mask(watches[i].fd),
                          !.oneshot_done = @ \/ Spent(i),
                          !.fired = IF i \in Reported THEN Min({2, @ + 1}) ELSE @]
<1>1. /\ watches' = [i \in WatchSlots |-> IF i \notin Scanned THEN watches[i] ELSE after(i)]
      /\ fresh' \in [Sources -> BOOLEAN] /\ leads' = leads /\ held' = held /\ poller' = poller
  BY DEF Scan, ReadyInv, ReadyTypeOK
<1>2. ReadyTypeOK /\ WatchesFollowObjects /\ FiredSleeps  BY DEF ReadyInv
<1>3. ASSUME NEW i \in WatchSlots, i \in Scanned
      PROVE  /\ watches[i] \in Watch /\ ~ watches[i].oneshot_done
             /\ after(i) \in Watch
             /\ after(i).fd = watches[i].fd /\ after(i).source = watches[i].source
             /\ after(i).oneshot = watches[i].oneshot
             /\ after(i).oneshot =>
                  after(i).fired = 0 \/ (after(i).fired = 1 /\ after(i).oneshot_done)
  <2> DEFINE w == watches[i]
             n == IF i \in Reported THEN Min({2, w.fired + 1}) ELSE w.fired
             d == w.oneshot_done \/ Spent(i)
  <2>1. w \in Watch /\ w # NoWatch /\ ~ w.oneshot_done
    BY <1>2, <1>3 DEF Scanned, Dormant, ReadyTypeOK
  <2>2. w.fired \in 0 .. 2  BY <2>1 DEF Watch
  <2>3. Min({2, w.fired + 1}) \in {2, w.fired + 1}  BY <2>2, MinIs
  <2>4. w.fired = 0 => Min({2, w.fired + 1}) = 1
    <3> SUFFICES ASSUME w.fired = 0 PROVE Min({2, 1}) = 1  BY <2>2
    <3>1. 1 \in {2, 1} /\ \A y \in {2, 1} : 1 =< y  OBVIOUS
    <3>2. Min({2, 1}) \in {2, 1} /\ \A y \in {2, 1} : Min({2, 1}) =< y  BY <3>1 DEF Min
    <3> QED  BY <3>2
  <2>5. n \in 0 .. 2
    <3>1. Min({2, w.fired + 1}) \in 0 .. 2
      <4>1. CASE w.fired = 2
        <5>1. Min({2, 3}) \in {2, 3} /\ \A y \in {2, 3} : Min({2, 3}) =< y
          <6>1. 2 \in {2, 3} /\ \A y \in {2, 3} : 2 =< y  OBVIOUS
          <6> QED  BY <6>1 DEF Min
        <5>2. w.fired + 1 = 3  BY <4>1
        <5> QED  BY <5>1, <5>2
      <4>2. CASE w.fired # 2  BY <2>2, <2>3, <4>2
      <4> QED  BY <4>1, <4>2
    <3> QED  BY <2>2, <3>1
  <2>6. d \in BOOLEAN  OBVIOUS
  <2>7. after(i) = [w EXCEPT !.last_mask = fd_ready_mask(w.fd), !.oneshot_done = d, !.fired = n]
    OBVIOUS
  <2>8. fd_ready_mask(w.fd) \in SUBSET {"in", "out"}  BY MaskType
  <2>9. d <=> i \in Reported /\ w.oneshot  BY <2>1 DEF Spent
  <2>10. w.oneshot => w.fired = 0  BY <1>2, <2>1 DEF FiredSleeps
  <2>11. w.oneshot => n = 0 \/ (n = 1 /\ d)  BY <2>4, <2>9, <2>10
  <2> HIDE DEF n, d, after
  <2>12. /\ after(i) \in Watch /\ after(i).fired = n /\ after(i).oneshot_done = d
         /\ after(i).oneshot = w.oneshot /\ after(i).fd = w.fd /\ after(i).source = w.source
    BY <2>1, <2>5, <2>6, <2>7, <2>8 DEF Watch
  <2> QED  BY <2>1, <2>11, <2>12
<1> HIDE DEF after
<1>4. ReadyTypeOK'  BY <1>1, <1>2, <1>3 DEF ReadyTypeOK
<1>5. \A i \in WatchSlots : /\ watches'[i].fd = watches[i].fd
                            /\ watches'[i] # NoWatch <=> watches[i] # NoWatch
                            /\ watches[i] # NoWatch => watches'[i].source = watches[i].source
  BY <1>1, <1>3, WatchFacts
<1>6. WatchesFollowObjects'  BY <1>1, <1>2, <1>5 DEF WatchesFollowObjects, Watches
<1>7. FiredSleeps'  BY <1>1, <1>2, <1>3 DEF FiredSleeps
<1> QED  BY <1>4, <1>6, <1>7 DEF ReadyInv

LEMMA ReadyStep == ASSUME WatchesAreDeleted, ReadyInv, ReadyNext PROVE ReadyInv'
<1>1. waiter \in {"out", "timed", "untimed"}  BY DEF ReadyInv, ReadyTypeOK
<1>2. CASE \E fd \in WatchedFds, s \in Sources : Open(fd, s)  BY <1>2, OpenKeeps
<1>3. CASE \E fd \in WatchedFds : Close(fd)  BY <1>3, CloseKeeps
<1>4. CASE \E s \in Sources : Put(s) \/ Drain(s)  BY <1>4, SourceKeeps
<1>5. CASE linux_compat_epoll_ctl  BY <1>5, CtlKeeps
<1>6. CASE \E timing \in {"timed", "untimed"} : EpollWaitCall(timing)
  BY <1>6, ScanKeeps DEF EpollWaitCall
<1>7. CASE EpollWaitAgain  BY <1>1, <1>7, ScanKeeps DEF EpollWaitAgain
<1>8. CASE EpollTimeout  BY <1>8, ScanKeeps DEF EpollTimeout
<1>9. CASE linux_compat_poll \/ \E fds \in PollSets : PollCall(fds)
  <2>1. poller' \subseteq WatchedFds /\ UNCHANGED <<leads, held, watches, waiter, fresh>>
    BY <1>9, ReadyAssumption DEF linux_compat_poll, PollCall
  <2>2. ReadyTypeOK'  BY <2>1 DEF ReadyInv, ReadyTypeOK
  <2> QED  BY <2>1, <2>2, SameWatches DEF ReadyInv
<1> QED  BY <1>2, <1>3, <1>4, <1>5, <1>6, <1>7, <1>8, <1>9 DEF ReadyNext

\* Watches name descriptor numbers, but as long as programs delete a watch
\* before they close its descriptor, each leads to the object it was made for
\* and a one-shot watch reports once, for any table, masks and sources.
THEOREM EpollIsSafe == ASSUME WatchesAreDeleted PROVE ReadySpec => []ReadinessSafe
<1>1. ReadyInv /\ [ReadyNext]_readyVars => ReadyInv'
  <2> SUFFICES ASSUME ReadyInv, [ReadyNext]_readyVars PROVE ReadyInv'  OBVIOUS
  <2>1. CASE UNCHANGED readyVars
    <3>1. leads' = leads /\ held' = held /\ watches' = watches /\ waiter' = waiter
          /\ poller' = poller /\ fresh' = fresh
      BY <2>1 DEF readyVars
    <3>2. ReadyTypeOK'  BY <3>1 DEF ReadyInv, ReadyTypeOK
    <3> QED  BY <3>1, <3>2, SameWatches DEF ReadyInv
  <2> QED  BY <2>1, ReadyStep
<1>2. ReadyInv => ReadinessSafe
  <2>1. ReadyInv => OneshotOnce  BY DEF ReadyInv, FiredSleeps, OneshotOnce
  <2> QED  BY <2>1 DEF ReadyInv, ReadinessSafe
<1> QED  BY <1>1, <1>2, ReadyInitInv, PTL DEF ReadySpec

HIDE TimerAssumption
USE UnixAssumption

-----------------------------------------------------------------------------
(* Places in the queues of the slots D where s is: Q gives the queues.      *)

Places(Q, D, N, s) == {x \in D \X (1 .. N) : x[2] \in DOMAIN Q[x[1]] /\ Q[x[1]][x[2]] = s}
RightsOf(S) == [i \in SocketSlots |-> S[i].rights]
PendingOf(S) == [i \in SocketSlots |-> S[i].pending]
Slotted == [SocketSlots -> Seq(SocketSlots)]

LEMMA ArePlaces ==
  ASSUME NEW S, NEW D \in SUBSET SocketSlots, NEW s
  PROVE  /\ Carries(S, D, s) = Places(RightsOf(S), D, RightsQueue, s)
         /\ Queues(S, D, s) = Places(PendingOf(S), D, Backlog, s)
BY DEF Carries, Queues, Places, RightsOf, PendingOf

LEMMA PlacesFinite ==
  ASSUME NEW Q, NEW D \in SUBSET SocketSlots, NEW N \in Nat, NEW s
  PROVE  IsFiniteSet(Places(Q, D, N, s)) /\ Cardinality(Places(Q, D, N, s)) \in Nat
<1>1. IsFiniteSet(D)  BY FS_Subset
<1>2. IsFiniteSet(1 .. N)  BY FS_Interval
<1>3. IsFiniteSet(D \X (1 .. N))  BY <1>1, <1>2, FS_Product
<1>4. Places(Q, D, N, s) \subseteq D \X (1 .. N)  BY DEF Places
<1>5. IsFiniteSet(Places(Q, D, N, s))  BY <1>3, <1>4, FS_Subset
<1> QED  BY <1>5, FS_CardinalityType

LEMMA PlacesGrow ==
  ASSUME NEW Q, NEW E \in SUBSET SocketSlots, NEW D \in SUBSET E, NEW N \in Nat, NEW s
  PROVE  /\ Places(Q, D, N, s) \subseteq Places(Q, E, N, s)
         /\ Cardinality(Places(Q, D, N, s)) <= Cardinality(Places(Q, E, N, s))
<1>1. Places(Q, D, N, s) \subseteq Places(Q, E, N, s)  BY DEF Places
<1> QED  BY <1>1, PlacesFinite, FS_Subset

\* The places are those in D and those outside.
LEMMA PlacesSplit ==
  ASSUME NEW Q, NEW D \in SUBSET SocketSlots, NEW N \in Nat, NEW s
  PROVE  Cardinality(Places(Q, SocketSlots, N, s))
           = Cardinality(Places(Q, D, N, s)) + Cardinality(Places(Q, SocketSlots \ D, N, s))
<1> DEFINE A == Places(Q, D, N, s)
           B == Places(Q, SocketSlots \ D, N, s)
<1>1. Places(Q, SocketSlots, N, s) = A \cup B /\ A \cap B = {}
  BY DEF Places
<1>2. IsFiniteSet(A) /\ IsFiniteSet(B)  BY PlacesFinite
<1>3. Cardinality(A) \in Nat /\ Cardinality(B) \in Nat  BY PlacesFinite
<1> HIDE DEF A, B
<1>4. Cardinality(A \cup B) = Cardinality(A) + Cardinality(B) - Cardinality(A \cap B)
  BY <1>2, FS_Union
<1>5. Cardinality({}) = 0  BY FS_EmptySet
<1>6. Cardinality(A \cup B) = Cardinality(A) + Cardinality(B)  BY <1>1, <1>3, <1>4, <1>5
<1> QED  BY <1>1, <1>6 DEF A, B

LEMMA PlacesSame ==
  ASSUME NEW Q, NEW R, NEW D \in SUBSET SocketSlots, NEW N, NEW s, \A i \in D : Q[i] = R[i]
  PROVE  Places(Q, D, N, s) = Places(R, D, N, s)
BY DEF Places

LEMMA PlacesNone ==
  ASSUME NEW Q, NEW D \in SUBSET SocketSlots, NEW N \in Nat, NEW s, \A i \in D : Q[i] = << >>
  PROVE  Places(Q, D, N, s) = {} /\ Cardinality(Places(Q, D, N, s)) = 0
<1>1. Places(Q, D, N, s) = {}  BY DEF Places
<1> QED  BY <1>1, FS_EmptySet

One(P) == IF P THEN 1 ELSE 0
Is(v, s) == IF v = s THEN 1 ELSE 0
\* From Q to R, slot r gets v as the last of its queue, or loses the first.
Appends(Q, R, r, v) == R[r] = Append(Q[r], v) /\ \A i \in SocketSlots \ {r} : R[i] = Q[i]
Shifts(Q, R, r) == R[r] = Tail(Q[r]) /\ \A i \in SocketSlots \ {r} : R[i] = Q[i]

LEMMA PlacesAppend ==
  ASSUME NEW Q \in Slotted, NEW N \in Nat, NEW s, NEW r \in SocketSlots, NEW v \in SocketSlots,
         Len(Q[r]) < N, NEW R, Appends(Q, R, r, v)
  PROVE  Cardinality(Places(R, SocketSlots, N, s))
           = Cardinality(Places(Q, SocketSlots, N, s)) + Is(v, s)
<1> DEFINE A == Places(Q, SocketSlots, N, s)
           x == <<r, Len(Q[r]) + 1>>
<1>1. Q[r] \in Seq(SocketSlots) /\ Len(Q[r]) \in Nat  BY DEF Slotted
<1>2. /\ DOMAIN Q[r] = 1 .. Len(Q[r]) /\ R[r] = Append(Q[r], v)
      /\ DOMAIN R[r] = 1 .. Len(Q[r]) + 1
      /\ \A k \in DOMAIN Q[r] : R[r][k] = Q[r][k]
      /\ R[r][Len(Q[r]) + 1] = v
  BY <1>1 DEF Appends
<1>3. \A i \in SocketSlots \ {r} : R[i] = Q[i]  BY DEF Appends
<1>4. x \in SocketSlots \X (1 .. N) /\ x \notin A  BY <1>1, <1>2 DEF Places
<1>5. Places(R, SocketSlots, N, s) = IF v = s THEN A \cup {x} ELSE A
  <2>1. ASSUME NEW i \in SocketSlots, NEW k \in 1 .. N
        PROVE  (k \in DOMAIN R[i] /\ R[i][k] = s)
                 <=> (k \in DOMAIN Q[i] /\ Q[i][k] = s) \/ (v = s /\ <<i, k>> = x)
    <3>1. CASE i # r  BY <1>3, <3>1
    <3>2. CASE i = r
      <4>1. k \in DOMAIN R[r] <=> k \in DOMAIN Q[r] \/ k = Len(Q[r]) + 1  BY <1>1, <1>2
      <4>2. Len(Q[r]) + 1 \notin DOMAIN Q[r]  BY <1>1, <1>2
      <4>3. <<i, k>> = x <=> k = Len(Q[r]) + 1  BY <3>2
      <4> HIDE DEF x
      <4> QED  BY <1>2, <3>2, <4>1, <4>2, <4>3
    <3> QED  BY <3>1, <3>2
  <2> HIDE DEF x
  <2> QED  BY <2>1, <1>4 DEF Places
<1>6. IsFiniteSet(A) /\ Cardinality(A) \in Nat  BY PlacesFinite
<1> HIDE DEF A, x
<1>7. Cardinality(A \cup {x}) = Cardinality(A) + 1  BY <1>4, <1>6, FS_AddElement
<1> QED  BY <1>5, <1>6, <1>7 DEF A, Is

LEMMA PlacesTail ==
  ASSUME NEW Q \in Slotted, NEW N \in Nat, NEW s, NEW r \in SocketSlots,
         Q[r] # << >>, Len(Q[r]) <= N, NEW R, Shifts(Q, R, r)
  PROVE  Cardinality(Places(Q, SocketSlots, N, s))
           = Cardinality(Places(R, SocketSlots, N, s)) + Is(Head(Q[r]), s)
<1> DEFINE A == Places(Q, SocketSlots, N, s)
           B == Places(R, SocketSlots, N, s)
           x == <<r, 1>>
           f == [y \in B |-> IF y[1] = r THEN <<r, y[2] + 1>> ELSE y]
<1>1. Q[r] \in Seq(SocketSlots) /\ Len(Q[r]) \in Nat /\ Len(Q[r]) >= 1  BY DEF Slotted
<1>2. /\ DOMAIN Q[r] = 1 .. Len(Q[r]) /\ R[r] = Tail(Q[r])
      /\ DOMAIN R[r] = 1 .. Len(Q[r]) - 1
      /\ \A k \in DOMAIN R[r] : R[r][k] = Q[r][k + 1]
      /\ Q[r][1] = Head(Q[r])
  BY <1>1 DEF Shifts
<1>3. \A i \in SocketSlots \ {r} : R[i] = Q[i]  BY DEF Shifts
<1>4. x \in A <=> Head(Q[r]) = s  BY <1>1, <1>2 DEF Places
<1>5. IsFiniteSet(A) /\ Cardinality(A) \in Nat /\ IsFiniteSet(B) /\ Cardinality(B) \in Nat
  BY PlacesFinite
<1>6. \A i \in SocketSlots, k \in 1 .. N :
        /\ <<i, k>> \in B <=> k \in DOMAIN R[i] /\ R[i][k] = s
        /\ <<i, k>> \in A <=> k \in DOMAIN Q[i] /\ Q[i][k] = s
  BY DEF Places
<1>7. B \subseteq SocketSlots \X (1 .. N) /\ A \subseteq SocketSlots \X (1 .. N)  BY DEF Places
<1> HIDE DEF A, B
<1>8. \A y \in B : f[y] \in A \ {x}
  <2> TAKE y \in B
  <2>1. PICK i \in SocketSlots, k \in 1 .. N : y = <<i, k>>  BY <1>7
  <2>2. k \in DOMAIN R[i] /\ R[i][k] = s  BY <1>6, <2>1
  <2>3. CASE i = r
    <3>0. k \in 1 .. Len(Q[r]) - 1 /\ R[r][k] = s  BY <1>2, <2>2, <2>3
    <3>1. k + 1 \in DOMAIN Q[r] /\ Q[r][k + 1] = s /\ k + 1 \in 1 .. N
      BY <1>1, <1>2, <3>0
    <3> QED  BY <1>6, <2>1, <2>3, <3>1
  <2>4. CASE i # r
    <3>1. <<i, k>> \in A  BY <1>3, <1>6, <2>2, <2>4
    <3> QED  BY <2>1, <2>4, <3>1
  <2> QED  BY <2>3, <2>4
<1>9. \A y, z \in B : f[y] = f[z] => y = z
  <2> TAKE y, z \in B
  <2>1. PICK i \in SocketSlots, k \in 1 .. N : y = <<i, k>>  BY <1>7
  <2>2. PICK j \in SocketSlots, l \in 1 .. N : z = <<j, l>>  BY <1>7
  <2> QED  BY <2>1, <2>2
<1>10. \A z \in A \ {x} : \E y \in B : f[y] = z
  <2> TAKE z \in A \ {x}
  <2>1. PICK i \in SocketSlots, k \in 1 .. N : z = <<i, k>>  BY <1>7
  <2>2. k \in DOMAIN Q[i] /\ Q[i][k] = s  BY <1>6, <2>1
  <2>3. CASE i = r
    <3>1. k # 1  BY <2>1, <2>3
    <3>2. k - 1 \in DOMAIN R[r] /\ R[r][k - 1] = s /\ k - 1 \in 1 .. N
      BY <1>1, <1>2, <2>2, <2>3, <3>1
    <3>3. <<r, k - 1>> \in B  BY <1>6, <3>2
    <3>4. f[<<r, k - 1>>] = z  BY <2>1, <2>3, <3>3
    <3> QED  BY <3>3, <3>4
  <2>4. CASE i # r
    <3>1. <<i, k>> \in B  BY <1>3, <1>6, <2>2, <2>4
    <3>2. f[<<i, k>>] = z  BY <2>1, <2>4, <3>1
    <3> QED  BY <3>1, <3>2
  <2> QED  BY <2>3, <2>4
<1>11. ExistsBijection(B, A \ {x})
  <2>1. f \in [B -> A \ {x}]  BY <1>8
  <2> HIDE DEF f, x
  <2>2. f \in Injection(B, A \ {x})  BY <1>9, <2>1 DEF Injection, IsInjective
  <2>3. f \in Surjection(B, A \ {x})  BY <1>10, <2>1 DEF Surjection
  <2>4. f \in Bijection(B, A \ {x})  BY <2>2, <2>3 DEF Bijection
  <2> QED  BY <2>4 DEF ExistsBijection
<1> HIDE DEF x, f
<1>12. Cardinality(A \ {x}) = Cardinality(B)  BY <1>5, <1>11, FS_Bijection
<1>13. CASE x \in A
  <2>1. Cardinality(A \ {x}) = Cardinality(A) - 1  BY <1>5, <1>13, FS_RemoveElement
  <2> QED  BY <1>4, <1>5, <1>12, <1>13, <2>1 DEF A, B, Is
<1>14. CASE x \notin A
  <2>1. A \ {x} = A  BY <1>14
  <2>2. Cardinality(A) = Cardinality(B) /\ Head(Q[r]) # s  BY <1>4, <1>12, <1>14, <2>1
  <2> QED  BY <1>5, <2>2 DEF A, B, Is
<1> QED  BY <1>13, <1>14

-----------------------------------------------------------------------------
(* The invariant.                                                          *)

SocketType ==
  [used : BOOLEAN, refs : Nat, peer : SocketSlots \cup {Nobody}, listening : BOOLEAN,
   address : Addresses \cup {Nobody}, read_shutdown : BOOLEAN, write_shutdown : BOOLEAN,
   received : 0 .. SocketBuffer, pending : Seq(SocketSlots), rights : Seq(SocketSlots)]
Tables == [SocketSlots -> SocketType]
Leads == [SocketFds -> SocketSlots \cup {Nobody}]

\* The descriptors, the messages and the backlogs that name s.
Named(F, s) == Cardinality({fd \in SocketFds : F[fd] = s})
Sent(S, s) == Cardinality(Places(RightsOf(S), SocketSlots, RightsQueue, s))
Queue(S, s) == Cardinality(Places(PendingOf(S), SocketSlots, Backlog, s))

\* A slot that is not used is blank, so nothing in it counts.
Shaped(S, F) ==
  /\ S \in Tables /\ F \in Leads
  /\ \A i \in SocketSlots : Len(S[i].pending) <= Backlog /\ Len(S[i].rights) <= RightsQueue
  /\ \A i \in SocketSlots : S[i].used \/ S[i] = FreeSocket
Mutual(S) ==
  \A i \in SocketSlots : S[i].peer # Nobody => S[i].peer \in SocketSlots /\ S[S[i].peer].peer = i
Counted(S, F) == \A s \in SocketSlots : S[s].refs = Named(F, s) + Sent(S, s)
QueuedOnce(S, s) == Queue(S, s) = One(S[s].used /\ S[s].refs = 0)
SocketsSound(S, F) ==
  Shaped(S, F) /\ Mutual(S) /\ Counted(S, F) /\ \A s \in SocketSlots : QueuedOnce(S, s)

Sleepers == {Awake} \cup [op : {"accept", "send", "recv"}, fd : SocketFds, slot : SocketSlots]
UnixInv == SocketsSound(socket, fdSocket) /\ sleeper \in Sleepers

LEMMA FreeSocketIs == FreeSocket \in SocketType /\ ~ FreeSocket.used /\ FreeSocket.refs = 0
                      /\ FreeSocket.peer = Nobody /\ FreeSocket.pending = << >>
                      /\ FreeSocket.rights = << >>
BY DEF FreeSocket, SocketType

LEMMA NamedFinite ==
  ASSUME NEW F, NEW s
  PROVE  IsFiniteSet({fd \in SocketFds : F[fd] = s}) /\ Named(F, s) \in Nat
<1>1. {fd \in SocketFds : F[fd] = s} \subseteq SocketFds  OBVIOUS
<1>2. IsFiniteSet({fd \in SocketFds : F[fd] = s})  BY <1>1, FS_Subset
<1> QED  BY <1>2, FS_CardinalityType DEF Named

LEMMA CountsAreNat ==
  ASSUME NEW S, NEW s
  PROVE  Sent(S, s) \in Nat /\ Queue(S, s) \in Nat
<1>1. RightsQueue \in Nat /\ Backlog \in Nat  OBVIOUS
<1> QED  BY <1>1, PlacesFinite DEF Sent, Queue

\* A free descriptor gets a slot, or, from G to F, a descriptor loses it.
Gains(F, G, fd) == F[fd] = Nobody /\ \A d \in SocketFds \ {fd} : G[d] = F[d]

LEMMA NamedMore ==
  ASSUME NEW F, NEW G, NEW fd \in SocketFds, Gains(F, G, fd), NEW s \in SocketSlots
  PROVE  Named(G, s) = Named(F, s) + Is(G[fd], s)
<1> DEFINE A == {d \in SocketFds : F[d] = s}
           B == {d \in SocketFds : G[d] = s}
<1>1. fd \notin A  BY DEF Gains
<1>3. B = IF G[fd] = s THEN A \cup {fd} ELSE A  BY <1>1 DEF Gains
<1>4. IsFiniteSet(A) /\ Cardinality(A) \in Nat  BY NamedFinite DEF Named
<1> HIDE DEF A, B
<1>5. Cardinality(A \cup {fd}) = Cardinality(A) + 1  BY <1>1, <1>4, FS_AddElement
<1>6. Cardinality(B) = Cardinality(A) + Is(G[fd], s)  BY <1>3, <1>4, <1>5 DEF Is
<1> QED  BY <1>6 DEF A, B, Named

\* What a descriptor names is in use.
LEMMA NamedIsUsed ==
  ASSUME NEW S, NEW F, Shaped(S, F), Counted(S, F), NEW fd \in SocketFds, F[fd] \in SocketSlots
  PROVE  S[F[fd]].used /\ S[F[fd]].refs >= 1
<1> DEFINE s == F[fd]
           A == {d \in SocketFds : F[d] = s}
<1>1. IsFiniteSet(A) /\ fd \in A  BY NamedFinite
<1>2. Cardinality(A) # 0  BY <1>1, FS_EmptySet
<1>3. Named(F, s) \in Nat /\ Named(F, s) # 0  BY <1>2, NamedFinite DEF Named
<1>4. S[s].refs >= 1  BY <1>3, CountsAreNat DEF Counted
<1> QED  BY <1>4, FreeSocketIs DEF Shaped

\* Who waits in a backlog, or travels in a message, is counted.
LEMMA HeadsAreCounted ==
  ASSUME NEW S, NEW F, Shaped(S, F), NEW i \in SocketSlots
  PROVE  /\ S[i].pending # << >> => Head(S[i].pending) \in SocketSlots
                                    /\ Queue(S, Head(S[i].pending)) >= 1
         /\ S[i].rights # << >> => Head(S[i].rights) \in SocketSlots
                                    /\ Sent(S, Head(S[i].rights)) >= 1
<1>1. /\ S[i].pending \in Seq(SocketSlots) /\ Len(S[i].pending) <= Backlog
      /\ S[i].rights \in Seq(SocketSlots) /\ Len(S[i].rights) <= RightsQueue
  BY DEF Shaped, Tables, SocketType
<1>2. ASSUME NEW Q, Q[i] \in Seq(SocketSlots), NEW N \in Nat, Len(Q[i]) <= N, Q[i] # << >>
      PROVE  Head(Q[i]) \in SocketSlots
             /\ Cardinality(Places(Q, SocketSlots, N, Head(Q[i]))) >= 1
  <2> DEFINE A == Places(Q, SocketSlots, N, Head(Q[i]))
  <2>1. Head(Q[i]) \in SocketSlots /\ 1 \in DOMAIN Q[i] /\ Q[i][1] = Head(Q[i]) /\ 1 \in 1 .. N
    BY <1>2
  <2>2. <<i, 1>> \in A  BY <2>1 DEF Places
  <2>3. IsFiniteSet(A) /\ Cardinality(A) \in Nat  BY PlacesFinite
  <2>4. Cardinality(A) # 0  BY <2>2, <2>3, FS_EmptySet
  <2> QED  BY <2>1, <2>3, <2>4
<1>3. PendingOf(S)[i] = S[i].pending /\ RightsOf(S)[i] = S[i].rights
  BY DEF PendingOf, RightsOf
<1>4. RightsQueue \in Nat /\ Backlog \in Nat  OBVIOUS
<1>5. ASSUME S[i].pending # << >>
      PROVE  Head(S[i].pending) \in SocketSlots /\ Queue(S, Head(S[i].pending)) >= 1
  BY <1>1, <1>2, <1>3, <1>4, <1>5 DEF Queue
<1>6. ASSUME S[i].rights # << >>
      PROVE  Head(S[i].rights) \in SocketSlots /\ Sent(S, Head(S[i].rights)) >= 1
  BY <1>1, <1>2, <1>3, <1>4, <1>6 DEF Sent
<1> QED  BY <1>5, <1>6

-----------------------------------------------------------------------------
(* The slots that go when one is reset: the least set that is closed.      *)

LEMMA FollowsGrows ==
  ASSUME NEW S \in Tables, NEW E \in SUBSET SocketSlots, NEW D \in SUBSET E,
         NEW s \in SocketSlots, Follows(S, D, s)
  PROVE  Follows(S, E, s)
<1>0. RightsQueue \in Nat /\ Backlog \in Nat /\ D \in SUBSET SocketSlots  OBVIOUS
<1>1. Queues(S, D, s) \subseteq Queues(S, E, s)  BY <1>0, ArePlaces, PlacesGrow
<1>2. Carried(S, D, s) <= Carried(S, E, s)  BY <1>0, ArePlaces, PlacesGrow DEF Carried
<1>3. Carried(S, D, s) \in Nat /\ Carried(S, E, s) \in Nat
  BY <1>0, ArePlaces, PlacesFinite DEF Carried
<1>4. S[s].refs \in Nat  BY DEF Tables, SocketType
<1> QED  BY <1>1, <1>2, <1>3, <1>4 DEF Follows

LEMMA ResetsIsLeast ==
  ASSUME NEW S \in Tables, NEW i \in SocketSlots
  PROVE  /\ Resets(S, i) \in SUBSET SocketSlots /\ i \in Resets(S, i)
         /\ \A s \in SocketSlots :
              s \in Resets(S, i) <=> s = i \/ Follows(S, Resets(S, i), s)
<1> DEFINE D == Resets(S, i)
<1>1. D \in SUBSET SocketSlots /\ i \in D  BY DEF Resets, GoWith
<1>2. ASSUME NEW s \in SocketSlots, Follows(S, D, s) PROVE s \in D
  <2>1. ASSUME NEW E \in GoWith(S, i) PROVE s \in E
    <3>1. E \in SUBSET SocketSlots /\ D \in SUBSET E  BY DEF Resets, GoWith
    <3> HIDE DEF D
    <3>2. Follows(S, E, s)  BY <1>2, <3>1, FollowsGrows
    <3> QED  BY <3>2 DEF GoWith
  <2> QED  BY <2>1 DEF Resets
<1>3. ASSUME NEW s \in SocketSlots, s \in D, s # i PROVE Follows(S, D, s)
  <2> SUFFICES ASSUME ~ Follows(S, D, s) PROVE FALSE  OBVIOUS
  <2> DEFINE E == D \ {s}
  <2>1. E \in SUBSET SocketSlots /\ i \in E /\ E \in SUBSET D  BY <1>1, <1>3
  <2>2. ASSUME NEW t \in SocketSlots, Follows(S, E, t) PROVE t \in E
    <3> HIDE DEF D, E
    <3>1. Follows(S, D, t)  BY <1>1, <2>1, <2>2, FollowsGrows
    <3>2. t \in D /\ t # s  BY <1>2, <2>2, <3>1
    <3> QED  BY <3>2 DEF E
  <2>3. E \in GoWith(S, i)  BY <2>1, <2>2 DEF GoWith
  <2>4. s \in E  BY <1>3, <2>3 DEF Resets
  <2> QED  BY <2>4
<1> QED  BY <1>1, <1>2, <1>3

\* What a reset asks for: nobody holds slot i, and it is in no backlog.
Loose(S, F, i) ==
  /\ Shaped(S, F) /\ Mutual(S) /\ Counted(S, F)
  /\ S[i].used /\ S[i].refs = 0 /\ Queue(S, i) = 0
  /\ \A s \in SocketSlots \ {i} : QueuedOnce(S, s)

LEMMA LeftOver ==
  ASSUME NEW r \in Nat, NEW n \in Nat, NEW d \in Nat, NEW e \in Nat, r = n + d + e
  PROVE  /\ r - d \in Nat /\ r - d = n + e
         /\ r = 0 => n = 0 /\ d = 0 /\ e = 0
         /\ d >= r => n = 0 /\ e = 0
         /\ ~ (r > 0 /\ d >= r) => (r - d = 0 <=> r = 0)
OBVIOUS

\* No reference to a slot that goes is left, and who stays loses as many
\* references as went.
LEMMA ResetKeeps ==
  ASSUME NEW S, NEW F, NEW i \in SocketSlots, Loose(S, F, i)
  PROVE  SocketsSound(unix_slot_reset(S, i), F)
<1> DEFINE D == Resets(S, i)
           T == unix_slot_reset(S, i)
           SD(s) == Cardinality(Places(RightsOf(S), D, RightsQueue, s))
           SE(s) == Cardinality(Places(RightsOf(S), SocketSlots \ D, RightsQueue, s))
           QD(s) == Cardinality(Places(PendingOf(S), D, Backlog, s))
           QE(s) == Cardinality(Places(PendingOf(S), SocketSlots \ D, Backlog, s))
<1>0. RightsQueue \in Nat /\ Backlog \in Nat  OBVIOUS
<1>1. S \in Tables /\ F \in Leads  BY DEF Loose, Shaped
<1>2. /\ D \in SUBSET SocketSlots /\ i \in D /\ SocketSlots \ D \in SUBSET SocketSlots
      /\ \A s \in SocketSlots : s \in D <=> s = i \/ Follows(S, D, s)
  BY <1>1, ResetsIsLeast
<1> HIDE DEF D
<1>3. T = [s \in SocketSlots |->
             IF s \in D THEN FreeSocket
             ELSE [S[s] EXCEPT !.peer = Detached(S, D, s), !.refs = @ - Carried(S, D, s)]]
  BY DEF unix_slot_reset, Loose, D
<1> HIDE DEF T
<1>4. ASSUME NEW s \in SocketSlots
      PROVE  /\ SD(s) \in Nat /\ SE(s) \in Nat /\ QD(s) \in Nat /\ QE(s) \in Nat
             /\ Sent(S, s) = SD(s) + SE(s) /\ Queue(S, s) = QD(s) + QE(s)
             /\ Carried(S, D, s) = SD(s) /\ (Queues(S, D, s) # {} <=> QD(s) # 0)
  <2>1. SD(s) \in Nat /\ SE(s) \in Nat /\ QD(s) \in Nat /\ QE(s) \in Nat
    BY <1>0, <1>2, PlacesFinite
  <2>2. Sent(S, s) = SD(s) + SE(s) /\ Queue(S, s) = QD(s) + QE(s)
    BY <1>0, <1>2, PlacesSplit DEF Sent, Queue
  <2>3. Carried(S, D, s) = SD(s)  BY <1>2, ArePlaces DEF Carried
  <2>4. Queues(S, D, s) = Places(PendingOf(S), D, Backlog, s)
        /\ IsFiniteSet(Places(PendingOf(S), D, Backlog, s))
    BY <1>0, <1>2, ArePlaces, PlacesFinite
  <2>5. Queues(S, D, s) # {} <=> QD(s) # 0  BY <2>4, FS_EmptySet
  <2> QED  BY <2>1, <2>2, <2>3, <2>5
<1> HIDE DEF SD, SE, QD, QE
<1>5. \A s \in SocketSlots : S[s] \in SocketType /\ S[s].refs \in Nat /\ Named(F, s) \in Nat
  BY <1>1, NamedFinite DEF Tables, SocketType
<1>6. \A s \in SocketSlots : S[s].refs = Named(F, s) + SD(s) + SE(s)
  BY <1>4, <1>5 DEF Loose, Counted
<1>left. ASSUME NEW s \in SocketSlots
      PROVE  /\ S[s].refs - SD(s) \in Nat /\ S[s].refs - SD(s) = Named(F, s) + SE(s)
             /\ S[s].refs = 0 => Named(F, s) = 0 /\ SD(s) = 0 /\ SE(s) = 0
             /\ SD(s) >= S[s].refs => Named(F, s) = 0 /\ SE(s) = 0
             /\ ~ (S[s].refs > 0 /\ SD(s) >= S[s].refs) => (S[s].refs - SD(s) = 0 <=> S[s].refs = 0)
  <2>1. /\ S[s].refs \in Nat /\ Named(F, s) \in Nat /\ SD(s) \in Nat /\ SE(s) \in Nat
        /\ S[s].refs = Named(F, s) + SD(s) + SE(s)
    BY <1>4, <1>5, <1>6
  <2> QED  BY ONLY <2>1, LeftOver
<1>7. ASSUME NEW s \in D
      PROVE  Named(F, s) = 0 /\ SE(s) = 0 /\ QE(s) = 0
  <2>1. s \in SocketSlots  BY <1>2
  <2>2. CASE s = i
    <3>1. S[s].refs = 0 /\ QD(s) + QE(s) = 0  BY <1>4, <2>1, <2>2 DEF Loose
    <3>2. QE(s) = 0  BY <1>4, <2>1, <3>1
    <3> QED  BY <1>left, <2>1, <3>1, <3>2
  <2>3. CASE s # i
    <3>1. S[s].used /\ (QD(s) # 0 \/ (S[s].refs > 0 /\ SD(s) >= S[s].refs))
      BY <1>2, <1>4, <2>1, <2>3 DEF Follows
    <3>2. QD(s) + QE(s) = One(S[s].refs = 0)
      BY <1>4, <2>1, <2>3, <3>1 DEF Loose, QueuedOnce
    <3>3. CASE S[s].refs = 0
      <4>1. QD(s) # 0 /\ QD(s) + QE(s) = 1  BY <3>1, <3>2, <3>3 DEF One
      <4>2. QE(s) = 0  BY <1>4, <2>1, <4>1
      <4> QED  BY <1>left, <2>1, <3>3, <4>2
    <3>4. CASE S[s].refs # 0
      <4>1. QD(s) + QE(s) = 0  BY <3>2, <3>4 DEF One
      <4>2. QD(s) = 0 /\ QE(s) = 0  BY <1>4, <2>1, <4>1
      <4> QED  BY <1>left, <2>1, <3>1, <4>2
    <3> QED  BY <3>3, <3>4
  <2> QED  BY <2>2, <2>3
<1>8. ASSUME NEW s \in SocketSlots \ D
      PROVE  /\ S[s].refs - SD(s) \in Nat /\ S[s].refs - SD(s) = Named(F, s) + SE(s)
             /\ S[s].used => QD(s) = 0
             /\ ~ S[s].used => SD(s) = 0 /\ S[s].refs = 0
             /\ S[s].used => (S[s].refs - SD(s) = 0 <=> S[s].refs = 0)
  <2>1. ~ S[s].used \/ (QD(s) = 0 /\ ~ (S[s].refs > 0 /\ SD(s) >= S[s].refs))
    BY <1>2, <1>4 DEF Follows
  <2>2. ~ S[s].used => S[s].refs = 0  BY FreeSocketIs DEF Loose, Shaped
  <2> QED  BY <1>left, <2>1, <2>2
<1>9. /\ \A s \in D : T[s] = FreeSocket
      /\ \A s \in SocketSlots \ D :
           T[s] = [S[s] EXCEPT !.peer = Detached(S, D, s), !.refs = @ - SD(s)]
  BY <1>2, <1>3, <1>4
<1>10. \A s \in SocketSlots : Detached(S, D, s) \in SocketSlots \cup {Nobody}
  BY <1>5 DEF Detached, SocketType
<1>11. ASSUME NEW s \in SocketSlots \ D
       PROVE  /\ T[s] \in SocketType /\ T[s].used = S[s].used
              /\ T[s].pending = S[s].pending /\ T[s].rights = S[s].rights
              /\ T[s].refs = S[s].refs - SD(s) /\ T[s].peer = Detached(S, D, s)
  <2>1. S[s] \in SocketType /\ S[s].refs - SD(s) \in Nat
        /\ Detached(S, D, s) \in SocketSlots \cup {Nobody}
    BY <1>5, <1>8, <1>10
  <2>2. T[s] = [S[s] EXCEPT !.peer = Detached(S, D, s), !.refs = @ - SD(s)]  BY <1>9
  <2> QED  BY ONLY <2>1, <2>2 DEF SocketType
<1>12. Shaped(T, F)
  <2>1. T \in Tables  BY <1>3, <1>9, <1>11, FreeSocketIs DEF Tables
  <2>2. \A s \in SocketSlots :
          Len(T[s].pending) <= Backlog /\ Len(T[s].rights) <= RightsQueue
    <3> TAKE s \in SocketSlots
    <3>1. CASE s \in D
      <4>1. T[s].pending = << >> /\ T[s].rights = << >>  BY <1>9, <3>1, FreeSocketIs
      <4>2. Len(<< >>) = 0  OBVIOUS
      <4> QED  BY <1>0, <4>1, <4>2
    <3>2. CASE s \notin D  BY <1>11, <3>2 DEF Loose, Shaped
    <3> QED  BY <3>1, <3>2
  <2>3. \A s \in SocketSlots : T[s].used \/ T[s] = FreeSocket
    <3> TAKE s \in SocketSlots
    <3>1. CASE s \in D  BY <1>9, <3>1
    <3>2. CASE s \notin D /\ ~ S[s].used
      <4>1. S[s] = FreeSocket /\ SD(s) = 0  BY <1>8, <3>2 DEF Loose, Shaped
      <4>2. Detached(S, D, s) = Nobody  BY <1>2, <4>1, FreeSocketIs DEF Detached
      <4>3. T[s] = [FreeSocket EXCEPT !.peer = Nobody, !.refs = @ - 0]
        BY <1>9, <3>2, <4>1, <4>2
      <4>4. FreeSocket.refs - 0 = 0  BY FreeSocketIs
      <4>5. [FreeSocket EXCEPT !.peer = Nobody, !.refs = 0] = FreeSocket
        BY ONLY FreeSocketIs DEF SocketType
      <4> QED  BY <4>3, <4>4, <4>5
    <3>3. CASE s \notin D /\ S[s].used  BY <1>11, <3>3
    <3> QED  BY <3>1, <3>2, <3>3
  <2> QED  BY <1>1, <2>1, <2>2, <2>3 DEF Shaped
<1>13. ASSUME NEW s \in SocketSlots
       PROVE  Sent(T, s) = SE(s) /\ Queue(T, s) = QE(s)
  <2> DEFINE E == SocketSlots \ D
  <2>1. /\ \A k \in D : RightsOf(T)[k] = << >> /\ PendingOf(T)[k] = << >>
        /\ \A k \in E : RightsOf(T)[k] = RightsOf(S)[k] /\ PendingOf(T)[k] = PendingOf(S)[k]
    BY <1>2, <1>9, <1>11, FreeSocketIs DEF RightsOf, PendingOf
  <2>rights. Cardinality(Places(RightsOf(T), D, RightsQueue, s)) = 0
    <3>1. \A k \in D : RightsOf(T)[k] = << >>  BY <2>1
    <3> QED  BY ONLY <1>0, <1>2, <3>1, PlacesNone
  <2>pending. Cardinality(Places(PendingOf(T), D, Backlog, s)) = 0
    <3>1. \A k \in D : PendingOf(T)[k] = << >>  BY <2>1
    <3> QED  BY ONLY <1>0, <1>2, <3>1, PlacesNone
  <2>2. Cardinality(Places(RightsOf(T), D, RightsQueue, s)) = 0
        /\ Cardinality(Places(PendingOf(T), D, Backlog, s)) = 0
    BY <2>rights, <2>pending
  <2>3. Places(RightsOf(T), E, RightsQueue, s) = Places(RightsOf(S), E, RightsQueue, s)
        /\ Places(PendingOf(T), E, Backlog, s) = Places(PendingOf(S), E, Backlog, s)
    BY <1>2, <2>1, PlacesSame
  <2>4. Sent(T, s) = 0 + Cardinality(Places(RightsOf(T), E, RightsQueue, s))
        /\ Queue(T, s) = 0 + Cardinality(Places(PendingOf(T), E, Backlog, s))
    BY <1>0, <1>2, <2>2, PlacesSplit DEF Sent, Queue
  <2>5. SE(s) \in Nat /\ QE(s) \in Nat  BY <1>4
  <2>6. SE(s) = Cardinality(Places(RightsOf(S), E, RightsQueue, s))
        /\ QE(s) = Cardinality(Places(PendingOf(S), E, Backlog, s))
    BY DEF SE, QE
  <2> QED  BY <2>3, <2>4, <2>5, <2>6
<1>14. Counted(T, F)
  <2> SUFFICES ASSUME NEW s \in SocketSlots PROVE T[s].refs = Named(F, s) + Sent(T, s)
    BY DEF Counted
  <2>1. CASE s \in D
    <3>1. T[s].refs = 0  BY <1>9, <2>1, FreeSocketIs
    <3>2. Named(F, s) = 0 /\ Sent(T, s) = 0  BY <1>7, <1>13, <2>1
    <3> QED  BY <3>1, <3>2
  <2>2. CASE s \notin D  BY <1>8, <1>11, <1>13, <2>2
  <2> QED  BY <2>1, <2>2
<1>15. ASSUME NEW s \in SocketSlots PROVE QueuedOnce(T, s)
  <2>1. CASE s \in D  BY <1>7, <1>9, <1>13, <2>1, FreeSocketIs DEF QueuedOnce, One
  <2>2. CASE s \notin D
    <3>1. QD(s) + QE(s) = One(S[s].used /\ S[s].refs = 0)
      BY <1>2, <1>4, <2>2 DEF Loose, QueuedOnce
    <3>2. QE(s) = One(T[s].used /\ T[s].refs = 0)
      BY <1>4, <1>8, <1>11, <2>2, <3>1 DEF One
    <3> QED  BY <1>13, <3>2 DEF QueuedOnce
  <2> QED  BY <2>1, <2>2
<1>16. Mutual(T)
  <2> SUFFICES ASSUME NEW s \in SocketSlots, T[s].peer # Nobody
               PROVE  T[s].peer \in SocketSlots /\ T[T[s].peer].peer = s
    BY DEF Mutual
  <2>1. s \notin D  BY <1>9, FreeSocketIs
  <2> DEFINE p == S[s].peer
  <2>2. T[s].peer = p /\ p # Nobody /\ ~ (p \in D /\ S[p].peer = s)
    BY <1>11, <2>1 DEF Detached
  <2>3. p \in SocketSlots /\ S[p].peer = s  BY <2>2 DEF Loose, Mutual
  <2>4. p \notin D /\ T[p].peer = Detached(S, D, p)  BY <1>11, <2>2, <2>3
  <2>5. Detached(S, D, p) = s  BY <2>1, <2>3 DEF Detached
  <2> QED  BY <2>2, <2>3, <2>4, <2>5
<1>17. SocketsSound(T, F)  BY <1>12, <1>14, <1>15, <1>16 DEF SocketsSound
<1> QED  BY <1>17 DEF T

-----------------------------------------------------------------------------
(* Single changes of the table.                                            *)

LEMMA SameQueues ==
  ASSUME NEW S, NEW T,
         \A s \in SocketSlots : T[s].pending = S[s].pending /\ T[s].rights = S[s].rights
  PROVE  \A s \in SocketSlots : Sent(T, s) = Sent(S, s) /\ Queue(T, s) = Queue(S, s)
<1>1. RightsOf(T) = RightsOf(S) /\ PendingOf(T) = PendingOf(S)  BY DEF RightsOf, PendingOf
<1> QED  BY <1>1 DEF Sent, Queue

\* Nothing that the invariant counts or follows is written.
LEMMA SimilarKeeps ==
  ASSUME NEW S, NEW T \in Tables, NEW F, Shaped(S, F), Mutual(S),
         \A s \in SocketSlots :
           /\ T[s].used = S[s].used /\ T[s].peer = S[s].peer
           /\ T[s].pending = S[s].pending /\ T[s].rights = S[s].rights
           /\ S[s].used \/ T[s] = S[s]
  PROVE  /\ Shaped(T, F) /\ Mutual(T)
         /\ \A s \in SocketSlots : Sent(T, s) = Sent(S, s) /\ Queue(T, s) = Queue(S, s)
<1>1. Shaped(T, F)  BY DEF Shaped
<1>2. Mutual(T)  BY DEF Mutual
<1> QED  BY <1>1, <1>2, SameQueues

LEMMA SimilarSound ==
  ASSUME NEW S, NEW T \in Tables, NEW F, SocketsSound(S, F),
         \A s \in SocketSlots :
           /\ T[s].used = S[s].used /\ T[s].peer = S[s].peer /\ T[s].refs = S[s].refs
           /\ T[s].pending = S[s].pending /\ T[s].rights = S[s].rights
           /\ S[s].used \/ T[s] = S[s]
  PROVE  SocketsSound(T, F)
<1>1. Shaped(S, F) /\ Mutual(S) /\ Counted(S, F) /\ \A s \in SocketSlots : QueuedOnce(S, s)
  BY DEF SocketsSound
<1>2. /\ Shaped(T, F) /\ Mutual(T)
      /\ \A s \in SocketSlots : Sent(T, s) = Sent(S, s) /\ Queue(T, s) = Queue(S, s)
  BY <1>1, SimilarKeeps
<1>3. Counted(T, F)  BY <1>1, <1>2 DEF Counted
<1>4. \A s \in SocketSlots : QueuedOnce(T, s)  BY <1>1, <1>2 DEF QueuedOnce
<1> QED  BY <1>2, <1>3, <1>4 DEF SocketsSound

WithRefs(S, j, n) == [S EXCEPT ![j].refs = n]
WithPending(S, r, q) == [S EXCEPT ![r].pending = q]
WithRights(S, r, q) == [S EXCEPT ![r].rights = q]

LEMMA RefsSet ==
  ASSUME NEW S, NEW F, Shaped(S, F), Mutual(S), NEW j \in SocketSlots, S[j].used, NEW n \in Nat
  PROVE  LET T == WithRefs(S, j, n) IN
         /\ Shaped(T, F) /\ Mutual(T)
         /\ \A s \in SocketSlots : Sent(T, s) = Sent(S, s) /\ Queue(T, s) = Queue(S, s)
         /\ \A s \in SocketSlots : T[s].used = S[s].used
         /\ T[j].refs = n /\ \A s \in SocketSlots : s # j => T[s].refs = S[s].refs
<1> DEFINE T == WithRefs(S, j, n)
<1>1. S \in Tables  BY DEF Shaped
<1>2. /\ T[j] = [S[j] EXCEPT !.refs = n] /\ \A s \in SocketSlots : s # j => T[s] = S[s]
      /\ DOMAIN T = SocketSlots /\ T = [s \in SocketSlots |-> T[s]]
  BY <1>1 DEF Tables, WithRefs
<1> HIDE DEF T
<1>3. S[j] \in SocketType  BY <1>1 DEF Tables
<1>4. /\ T[j] \in SocketType /\ T[j].used = S[j].used /\ T[j].peer = S[j].peer
      /\ T[j].pending = S[j].pending /\ T[j].rights = S[j].rights /\ T[j].refs = n
  BY ONLY <1>2, <1>3, n \in Nat DEF SocketType
<1>5. T \in Tables  BY <1>1, <1>2, <1>4 DEF Tables
<1>6. \A s \in SocketSlots :
           /\ T[s].used = S[s].used /\ T[s].peer = S[s].peer
           /\ T[s].pending = S[s].pending /\ T[s].rights = S[s].rights
           /\ S[s].used \/ T[s] = S[s]
  BY <1>2, <1>4
<1>7. /\ Shaped(T, F) /\ Mutual(T)
      /\ \A s \in SocketSlots : Sent(T, s) = Sent(S, s) /\ Queue(T, s) = Queue(S, s)
  BY <1>5, <1>6, SimilarKeeps
<1>8. /\ Shaped(T, F) /\ Mutual(T)
      /\ \A s \in SocketSlots : Sent(T, s) = Sent(S, s) /\ Queue(T, s) = Queue(S, s)
      /\ \A s \in SocketSlots : T[s].used = S[s].used
      /\ T[j].refs = n /\ \A s \in SocketSlots : s # j => T[s].refs = S[s].refs
  BY <1>2, <1>4, <1>6, <1>7
<1> QED  BY <1>8 DEF T

LEMMA ShapedFor ==
  ASSUME NEW S, NEW F, NEW G \in Leads, Shaped(S, F)
  PROVE  Shaped(S, G)
BY DEF Shaped

\* One reference more than is held: it is given back.
LEMMA ReleaseKeeps ==
  ASSUME NEW S, NEW F, NEW j \in SocketSlots, Shaped(S, F), Mutual(S),
         \A s \in SocketSlots : QueuedOnce(S, s),
         \A s \in SocketSlots : S[s].refs = Named(F, s) + Sent(S, s) + Is(j, s)
  PROVE  SocketsSound(compat_entry_release(S, j), F)
<1>1. \A s \in SocketSlots : Named(F, s) \in Nat /\ Sent(S, s) \in Nat /\ Queue(S, s) \in Nat
  BY NamedFinite, CountsAreNat
<1>2. S[j].refs = Named(F, j) + Sent(S, j) + 1 /\ S[j].refs \in Nat /\ S[j].refs # 0
      /\ S[j].refs - 1 \in Nat
  BY <1>1 DEF Is
<1>3. S[j].used  BY <1>2, FreeSocketIs DEF Shaped
<1>4. Queue(S, j) = 0  BY <1>2 DEF QueuedOnce, One
<1>5. \A s \in SocketSlots : s # j => S[s].refs = Named(F, s) + Sent(S, s)
  BY <1>1 DEF Is
<1> DEFINE n == S[j].refs - 1
           T == WithRefs(S, j, n)
<1>6. n \in Nat /\ n = Named(F, j) + Sent(S, j)  BY <1>1, <1>2
<1> HIDE DEF n
<1>7. /\ Shaped(T, F) /\ Mutual(T)
      /\ \A s \in SocketSlots : Sent(T, s) = Sent(S, s) /\ Queue(T, s) = Queue(S, s)
      /\ \A s \in SocketSlots : T[s].used = S[s].used
      /\ T[j].refs = n /\ \A s \in SocketSlots : s # j => T[s].refs = S[s].refs
  BY <1>3, <1>6, RefsSet
<1> HIDE DEF T
<1>8. Counted(T, F)  BY <1>5, <1>6, <1>7 DEF Counted
<1>9. \A s \in SocketSlots \ {j} : QueuedOnce(T, s)  BY <1>7 DEF QueuedOnce
<1>10. CASE S[j].refs > 1
  <2>1. compat_entry_release(S, j) = T
    BY <1>2, <1>3, <1>10 DEF compat_entry_release, T, n, WithRefs
  <2>2. n # 0  BY <1>2, <1>10 DEF n
  <2>3. QueuedOnce(T, j)  BY <1>4, <1>7, <2>2 DEF QueuedOnce, One
  <2> QED  BY <1>7, <1>8, <1>9, <2>1, <2>3 DEF SocketsSound
<1>11. CASE S[j].refs = 1
  <2>1. n = 0  BY <1>11 DEF n
  <2>2. compat_entry_release(S, j) = unix_slot_reset(T, j)
    BY <1>3, <1>11, <2>1 DEF compat_entry_release, T, WithRefs
  <2>3. Loose(T, F, j)  BY <1>3, <1>4, <1>7, <1>8, <1>9, <2>1 DEF Loose
  <2> QED  BY <2>2, <2>3, ResetKeeps
<1> QED  BY <1>2, <1>10, <1>11

\* The first connection leaves a backlog.
LEMMA PendingPopped ==
  ASSUME NEW S, NEW F, Shaped(S, F), Mutual(S), NEW r \in SocketSlots, S[r].pending # << >>
  PROVE  LET T == WithPending(S, r, Tail(S[r].pending)) IN
         /\ Shaped(T, F) /\ Mutual(T)
         /\ \A s \in SocketSlots :
              /\ T[s].used = S[s].used /\ T[s].refs = S[s].refs
              /\ Sent(T, s) = Sent(S, s)
              /\ Queue(S, s) = Queue(T, s) + Is(Head(S[r].pending), s)
<1> DEFINE T == WithPending(S, r, Tail(S[r].pending))
           q == S[r].pending
<1>1. S \in Tables /\ S[r] \in SocketType  BY DEF Shaped, Tables
<1>2. /\ T[r] = [S[r] EXCEPT !.pending = Tail(q)] /\ \A s \in SocketSlots : s # r => T[s] = S[s]
      /\ T = [s \in SocketSlots |-> T[s]]
  BY <1>1 DEF Tables, WithPending
<1> HIDE DEF T
<1>3. q \in Seq(SocketSlots) /\ Len(q) \in Nat /\ Len(q) <= Backlog
  BY <1>1 DEF Shaped, SocketType
<1>4. Tail(q) \in Seq(SocketSlots) /\ Len(Tail(q)) <= Len(q)  BY <1>3
<1>5. /\ T[r] \in SocketType /\ T[r].used = S[r].used /\ T[r].peer = S[r].peer
      /\ T[r].pending = Tail(q) /\ T[r].rights = S[r].rights /\ T[r].refs = S[r].refs
  BY ONLY <1>1, <1>2, <1>4 DEF SocketType
<1>6. T \in Tables  BY <1>1, <1>2, <1>5 DEF Tables
<1>7. S[r].used  BY FreeSocketIs DEF Shaped
<1>8. Len(Tail(q)) <= Backlog  BY <1>3
<1>9. \A s \in SocketSlots :
        /\ T[s].used = S[s].used /\ T[s].peer = S[s].peer /\ T[s].refs = S[s].refs
        /\ T[s].rights = S[s].rights
  BY <1>2, <1>5
<1>10. Shaped(T, F)
  <2>1. \A s \in SocketSlots : Len(T[s].pending) <= Backlog /\ Len(T[s].rights) <= RightsQueue
    BY <1>2, <1>5, <1>8 DEF Shaped
  <2>2. \A s \in SocketSlots : T[s].used \/ T[s] = FreeSocket
    BY <1>2, <1>5, <1>7 DEF Shaped
  <2> QED  BY <1>6, <2>1, <2>2 DEF Shaped
<1>11. Mutual(T)  BY <1>9 DEF Mutual
<1>12. RightsOf(T) = RightsOf(S)  BY <1>9 DEF RightsOf
<1>13. PendingOf(S) \in Slotted /\ PendingOf(S)[r] = q /\ q # << >>
  BY <1>1 DEF PendingOf, Slotted, Tables, SocketType
<1>14. PendingOf(T)[r] = Tail(q) /\ \A s \in SocketSlots \ {r} : PendingOf(T)[s] = PendingOf(S)[s]
  BY <1>2, <1>5 DEF PendingOf
<1>15. ASSUME NEW s \in SocketSlots
       PROVE  Sent(T, s) = Sent(S, s) /\ Queue(S, s) = Queue(T, s) + Is(Head(q), s)
  <2>1. Backlog \in Nat  OBVIOUS
  <2> HIDE DEF q
  <2>2. Queue(S, s) = Queue(T, s) + Is(Head(q), s)
    <3> DEFINE P == PendingOf(S)
               R == PendingOf(T)
    <3>1. /\ P \in Slotted /\ P[r] # << >> /\ Len(P[r]) <= Backlog /\ Head(P[r]) = Head(q)
          /\ Shifts(P, R, r)
      BY <1>3, <1>13, <1>14 DEF Shifts
    <3> HIDE DEF P, R, q
    <3>2. Cardinality(Places(P, SocketSlots, Backlog, s))
            = Cardinality(Places(R, SocketSlots, Backlog, s)) + Is(Head(P[r]), s)
      BY ONLY <2>1, <3>1, PlacesTail, r \in SocketSlots
    <3> QED  BY <3>1, <3>2 DEF Queue, P, R
  <2> QED  BY <1>12, <2>2 DEF Sent
<1>16. /\ Shaped(T, F) /\ Mutual(T)
       /\ \A s \in SocketSlots :
            /\ T[s].used = S[s].used /\ T[s].refs = S[s].refs
            /\ Sent(T, s) = Sent(S, s)
            /\ Queue(S, s) = Queue(T, s) + Is(Head(S[r].pending), s)
  BY <1>9, <1>10, <1>11, <1>15 DEF q
<1> QED  BY <1>16 DEF T

\* The first descriptor leaves the messages.
LEMMA RightsPopped ==
  ASSUME NEW S, NEW F, Shaped(S, F), Mutual(S), NEW r \in SocketSlots, S[r].rights # << >>
  PROVE  LET T == WithRights(S, r, Tail(S[r].rights)) IN
         /\ Shaped(T, F) /\ Mutual(T)
         /\ \A s \in SocketSlots :
              /\ T[s].used = S[s].used /\ T[s].refs = S[s].refs
              /\ Queue(T, s) = Queue(S, s)
              /\ Sent(S, s) = Sent(T, s) + Is(Head(S[r].rights), s)
<1> DEFINE T == WithRights(S, r, Tail(S[r].rights))
           q == S[r].rights
<1>1. S \in Tables /\ S[r] \in SocketType  BY DEF Shaped, Tables
<1>2. /\ T[r] = [S[r] EXCEPT !.rights = Tail(q)] /\ \A s \in SocketSlots : s # r => T[s] = S[s]
      /\ T = [s \in SocketSlots |-> T[s]]
  BY <1>1 DEF Tables, WithRights
<1> HIDE DEF T
<1>3. q \in Seq(SocketSlots) /\ Len(q) \in Nat /\ Len(q) <= RightsQueue
  BY <1>1 DEF Shaped, SocketType
<1>4. Tail(q) \in Seq(SocketSlots) /\ Len(Tail(q)) <= Len(q)  BY <1>3
<1>5. /\ T[r] \in SocketType /\ T[r].used = S[r].used /\ T[r].peer = S[r].peer
      /\ T[r].rights = Tail(q) /\ T[r].pending = S[r].pending /\ T[r].refs = S[r].refs
  BY ONLY <1>1, <1>2, <1>4 DEF SocketType
<1>6. T \in Tables  BY <1>1, <1>2, <1>5 DEF Tables
<1>7. S[r].used  BY FreeSocketIs DEF Shaped
<1>8. Len(Tail(q)) <= RightsQueue  BY <1>3
<1>9. \A s \in SocketSlots :
        /\ T[s].used = S[s].used /\ T[s].peer = S[s].peer /\ T[s].refs = S[s].refs
        /\ T[s].pending = S[s].pending
  BY <1>2, <1>5
<1>10. Shaped(T, F)
  <2>1. \A s \in SocketSlots : Len(T[s].pending) <= Backlog /\ Len(T[s].rights) <= RightsQueue
    BY <1>2, <1>5, <1>8 DEF Shaped
  <2>2. \A s \in SocketSlots : T[s].used \/ T[s] = FreeSocket
    BY <1>2, <1>5, <1>7 DEF Shaped
  <2> QED  BY <1>6, <2>1, <2>2 DEF Shaped
<1>11. Mutual(T)  BY <1>9 DEF Mutual
<1>12. PendingOf(T) = PendingOf(S)  BY <1>9 DEF PendingOf
<1>13. RightsOf(S) \in Slotted /\ RightsOf(S)[r] = q /\ q # << >>
  BY <1>1 DEF RightsOf, Slotted, Tables, SocketType
<1>14. RightsOf(T)[r] = Tail(q) /\ \A s \in SocketSlots \ {r} : RightsOf(T)[s] = RightsOf(S)[s]
  BY <1>2, <1>5 DEF RightsOf
<1>15. ASSUME NEW s \in SocketSlots
       PROVE  Queue(T, s) = Queue(S, s) /\ Sent(S, s) = Sent(T, s) + Is(Head(q), s)
  <2>1. RightsQueue \in Nat  OBVIOUS
  <2> HIDE DEF q
  <2>2. Sent(S, s) = Sent(T, s) + Is(Head(q), s)
    <3> DEFINE P == RightsOf(S)
               R == RightsOf(T)
    <3>1. /\ P \in Slotted /\ P[r] # << >> /\ Len(P[r]) <= RightsQueue /\ Head(P[r]) = Head(q)
          /\ Shifts(P, R, r)
      BY <1>3, <1>13, <1>14 DEF Shifts
    <3> HIDE DEF P, R, q
    <3>2. Cardinality(Places(P, SocketSlots, RightsQueue, s))
            = Cardinality(Places(R, SocketSlots, RightsQueue, s)) + Is(Head(P[r]), s)
      BY ONLY <2>1, <3>1, PlacesTail, r \in SocketSlots
    <3> QED  BY <3>1, <3>2 DEF Sent, P, R
  <2> QED  BY <1>12, <2>2 DEF Queue
<1>16. /\ Shaped(T, F) /\ Mutual(T)
       /\ \A s \in SocketSlots :
            /\ T[s].used = S[s].used /\ T[s].refs = S[s].refs
            /\ Queue(T, s) = Queue(S, s)
            /\ Sent(S, s) = Sent(T, s) + Is(Head(S[r].rights), s)
  BY <1>9, <1>10, <1>11, <1>15 DEF q
<1> QED  BY <1>16 DEF T

-----------------------------------------------------------------------------
(* The actions.                                                            *)

LEMMA Parts ==
  ASSUME NEW S, NEW F, SocketsSound(S, F)
  PROVE  /\ Shaped(S, F) /\ Mutual(S) /\ Counted(S, F) /\ \A s \in SocketSlots : QueuedOnce(S, s)
         /\ S \in Tables /\ F \in Leads
         /\ \A s \in SocketSlots :
              /\ S[s] \in SocketType /\ S[s].refs \in Nat
              /\ Named(F, s) \in Nat /\ Sent(S, s) \in Nat /\ Queue(S, s) \in Nat
BY NamedFinite, CountsAreNat DEF SocketsSound, Shaped, Tables, SocketType

Made(p) == [NewSocket EXCEPT !.refs = 1, !.peer = p]

LEMMA NewSocketIs ==
  ASSUME NEW p \in SocketSlots \cup {Nobody}
  PROVE  LET r == Made(p) IN
         /\ r \in SocketType /\ r.used /\ r.refs = 1 /\ r.peer = p
         /\ r.pending = << >> /\ r.rights = << >>
<1>1. 0 \in 0 .. SocketBuffer  OBVIOUS
<1>2. << >> \in Seq(SocketSlots)  OBVIOUS
<1> QED  BY <1>1, <1>2 DEF Made, NewSocket, FreeSocket, SocketType

\* A slot is taken for a descriptor.
LEMMA SocketKeeps ==
  ASSUME SocketsSound(socket, fdSocket), NEW fd \in FreeFds, NEW i \in IdleSlots,
         linux_compat_unix_socket(fd, i)
  PROVE  SocketsSound(socket', fdSocket')
<1> DEFINE S == socket
           T == socket'
           F == fdSocket
           G == fdSocket'
           r == [NewSocket EXCEPT !.refs = 1]
<1>1. /\ fd \in SocketFds /\ F[fd] = Nobody /\ i \in SocketSlots /\ ~ S[i].used /\ i # Nobody
  BY DEF FreeFds, IdleSlots
<1>2. /\ r \in SocketType /\ r.used /\ r.refs = 1 /\ r.peer = Nobody
      /\ r.pending = << >> /\ r.rights = << >>
  <2>1. 0 \in 0 .. SocketBuffer /\ << >> \in Seq(SocketSlots)  OBVIOUS
  <2> QED  BY <2>1 DEF NewSocket, FreeSocket, SocketType
<1>3. T = [S EXCEPT ![i] = r] /\ G = [F EXCEPT ![fd] = i]
  BY DEF linux_compat_unix_socket
<1> HIDE DEF r
<1> USE Parts
<1>4. T \in Tables /\ T[i] = r /\ \A s \in SocketSlots : s # i => T[s] = S[s]
  BY <1>1, <1>2, <1>3 DEF Tables
<1>5. G \in Leads /\ G[fd] = i /\ \A d \in SocketFds \ {fd} : G[d] = F[d]
  BY <1>1, <1>3 DEF Leads
<1> HIDE DEF S, T, F, G
<1>6. S[i] = FreeSocket /\ Shaped(S, F) /\ Mutual(S)  BY <1>1 DEF Shaped, S, F
<1>7. \A s \in SocketSlots : Sent(T, s) = Sent(S, s) /\ Queue(T, s) = Queue(S, s)
  <2>1. \A s \in SocketSlots : T[s].pending = S[s].pending /\ T[s].rights = S[s].rights
    BY <1>2, <1>4, <1>6, FreeSocketIs
  <2> QED  BY <2>1, SameQueues
<1>8. Shaped(T, G)
  <2>1. Len(<< >>) = 0 /\ 0 <= Backlog /\ 0 <= RightsQueue  OBVIOUS
  <2> QED  BY <1>2, <1>4, <1>5, <1>6, <2>1 DEF Shaped
<1>9. Mutual(T)
  <2> SUFFICES ASSUME NEW k \in SocketSlots, T[k].peer # Nobody
               PROVE  T[k].peer \in SocketSlots /\ T[T[k].peer].peer = k
    BY DEF Mutual
  <2>1. k # i /\ T[k].peer = S[k].peer  BY <1>2, <1>4
  <2>2. S[k].peer \in SocketSlots /\ S[S[k].peer].peer = k  BY <1>6, <2>1 DEF Mutual
  <2>3. S[k].peer # i  BY <1>6, <2>2, FreeSocketIs
  <2> QED  BY <1>4, <2>1, <2>2, <2>3
<1>10. ASSUME NEW s \in SocketSlots PROVE T[s].refs = Named(G, s) + Sent(T, s)
  <2>1. Named(G, s) = Named(F, s) + Is(i, s)
    <3>1. Gains(F, G, fd)  BY ONLY <1>1, <1>5 DEF Gains
    <3>2. Named(G, s) = Named(F, s) + Is(G[fd], s)  BY ONLY <1>1, <3>1, NamedMore, s \in SocketSlots
    <3> QED  BY <1>5, <3>2
  <2>2. S[s].refs = Named(F, s) + Sent(S, s) /\ Named(F, s) \in Nat /\ Sent(S, s) \in Nat
    BY DEF Counted, S, F
  <2>3. T[s].refs = S[s].refs + Is(i, s)
    BY <1>2, <1>4, <1>6, <2>2, FreeSocketIs DEF Is
  <2>4. Is(i, s) \in Nat  BY DEF Is
  <2> QED  BY <1>7, <2>1, <2>2, <2>3, <2>4
<1>11. ASSUME NEW s \in SocketSlots PROVE QueuedOnce(T, s)
  <2>1. QueuedOnce(S, s)  BY DEF S, F
  <2>2. One(T[s].used /\ T[s].refs = 0) = One(S[s].used /\ S[s].refs = 0)
    BY <1>1, <1>2, <1>4 DEF One
  <2> QED  BY <1>7, <2>1, <2>2 DEF QueuedOnce
<1>12. SocketsSound(T, G)  BY <1>8, <1>9, <1>10, <1>11 DEF SocketsSound, Counted
<1> QED  BY <1>12 DEF T, G

\* Two slots are each other's peer.
LEMMA SocketpairKeeps ==
  ASSUME SocketsSound(socket, fdSocket), NEW a \in FreeFds, NEW b \in FreeFds,
         NEW i \in IdleSlots, NEW j \in IdleSlots, linux_compat_unix_socketpair(a, b, i, j)
  PROVE  SocketsSound(socket', fdSocket')
<1> DEFINE S == socket
           T == socket'
           F == fdSocket
           G == fdSocket'
           p == Made(j)
           q == Made(i)
           H == [F EXCEPT ![a] = i]
<1>1. /\ a \in SocketFds /\ b \in SocketFds /\ a # b /\ F[a] = Nobody /\ F[b] = Nobody
      /\ i \in SocketSlots /\ j \in SocketSlots /\ i # j /\ ~ S[i].used /\ ~ S[j].used
      /\ i # Nobody /\ j # Nobody
  BY DEF FreeFds, IdleSlots, linux_compat_unix_socketpair
<1>2. /\ p \in SocketType /\ p.used /\ p.refs = 1 /\ p.peer = j
      /\ p.pending = << >> /\ p.rights = << >>
      /\ q \in SocketType /\ q.used /\ q.refs = 1 /\ q.peer = i
      /\ q.pending = << >> /\ q.rights = << >>
  BY <1>1, NewSocketIs
<1>3. T = [S EXCEPT ![i] = p, ![j] = q] /\ G = [F EXCEPT ![a] = i, ![b] = j]
  BY DEF linux_compat_unix_socketpair, Made
<1> HIDE DEF p, q
<1> USE Parts
<1>4. T \in Tables /\ T[i] = p /\ T[j] = q
      /\ \A s \in SocketSlots : s # i /\ s # j => T[s] = S[s]
  BY <1>1, <1>2, <1>3 DEF Tables
<1>5. /\ G \in Leads /\ G[b] = j /\ \A d \in SocketFds \ {b} : G[d] = H[d]
      /\ H[b] = Nobody /\ H[a] = i /\ \A d \in SocketFds \ {a} : H[d] = F[d]
  BY <1>1, <1>3 DEF Leads
<1> HIDE DEF S, T, F, G, H
<1>6. S[i] = FreeSocket /\ S[j] = FreeSocket /\ Shaped(S, F) /\ Mutual(S)
  BY <1>1 DEF Shaped, S, F
<1>7. \A s \in SocketSlots : Sent(T, s) = Sent(S, s) /\ Queue(T, s) = Queue(S, s)
  <2>1. \A s \in SocketSlots : T[s].pending = S[s].pending /\ T[s].rights = S[s].rights
    BY <1>2, <1>4, <1>6, FreeSocketIs
  <2> QED  BY <2>1, SameQueues
<1>8. Shaped(T, G)
  <2>1. Len(<< >>) = 0 /\ 0 <= Backlog /\ 0 <= RightsQueue  OBVIOUS
  <2>2. \A s \in SocketSlots : s = i \/ s = j \/ T[s] = S[s]  BY <1>4
  <2>3. \A s \in SocketSlots : T[s].used \/ T[s] = FreeSocket
    BY <1>2, <1>4, <1>6, <2>2 DEF Shaped
  <2>4. \A s \in SocketSlots : Len(T[s].pending) <= Backlog /\ Len(T[s].rights) <= RightsQueue
    BY <1>2, <1>4, <1>6, <2>1, <2>2 DEF Shaped
  <2> QED  BY <1>4, <1>5, <2>3, <2>4 DEF Shaped
<1>9. Mutual(T)
  <2> SUFFICES ASSUME NEW k \in SocketSlots, T[k].peer # Nobody
               PROVE  T[k].peer \in SocketSlots /\ T[T[k].peer].peer = k
    BY DEF Mutual
  <2>1. CASE k = i \/ k = j  BY <1>1, <1>2, <1>4, <2>1
  <2>2. CASE k # i /\ k # j
    <3>1. T[k].peer = S[k].peer  BY <1>4, <2>2
    <3>2. S[k].peer \in SocketSlots /\ S[S[k].peer].peer = k  BY <1>6, <3>1 DEF Mutual
    <3>3. S[k].peer # i /\ S[k].peer # j  BY <1>6, <3>2, FreeSocketIs
    <3> QED  BY <1>4, <3>1, <3>2, <3>3
  <2> QED  BY <2>1, <2>2
<1>10. ASSUME NEW s \in SocketSlots PROVE T[s].refs = Named(G, s) + Sent(T, s)
  <2>1. Named(H, s) = Named(F, s) + Is(i, s)
    <3>1. Gains(F, H, a)  BY ONLY <1>1, <1>5 DEF Gains
    <3>2. Named(H, s) = Named(F, s) + Is(H[a], s)  BY ONLY <1>1, <3>1, NamedMore, s \in SocketSlots
    <3> QED  BY <1>5, <3>2
  <2>2. Named(G, s) = Named(H, s) + Is(j, s)
    <3>1. Gains(H, G, b)  BY ONLY <1>1, <1>5 DEF Gains
    <3>2. Named(G, s) = Named(H, s) + Is(G[b], s)  BY ONLY <1>1, <3>1, NamedMore, s \in SocketSlots
    <3> QED  BY <1>5, <3>2
  <2>3. S[s].refs = Named(F, s) + Sent(S, s) /\ Named(F, s) \in Nat /\ Sent(S, s) \in Nat
    BY DEF Counted, S, F
  <2>4. T[s].refs = S[s].refs + Is(i, s) + Is(j, s)
    <3>1. CASE s = i
      <4>1. T[s].refs = 1 /\ S[s].refs = 0  BY <1>2, <1>4, <1>6, <3>1, FreeSocketIs
      <4>2. Is(i, s) = 1 /\ Is(j, s) = 0  BY <1>1, <3>1 DEF Is
      <4> QED  BY <4>1, <4>2
    <3>2. CASE s = j
      <4>1. T[s].refs = 1 /\ S[s].refs = 0  BY <1>2, <1>4, <1>6, <3>2, FreeSocketIs
      <4>2. Is(i, s) = 0 /\ Is(j, s) = 1  BY <1>1, <3>2 DEF Is
      <4> QED  BY <4>1, <4>2
    <3>3. CASE s # i /\ s # j
      <4>1. T[s].refs = S[s].refs /\ S[s].refs \in Nat  BY <1>4, <2>3, <3>3
      <4>2. Is(i, s) = 0 /\ Is(j, s) = 0  BY <3>3 DEF Is
      <4> QED  BY <4>1, <4>2
    <3> QED  BY <3>1, <3>2, <3>3
  <2>5. Is(i, s) \in Nat /\ Is(j, s) \in Nat  BY DEF Is
  <2> QED  BY <1>7, <2>1, <2>2, <2>3, <2>4, <2>5
<1>11. ASSUME NEW s \in SocketSlots PROVE QueuedOnce(T, s)
  <2>1. QueuedOnce(S, s)  BY DEF S, F
  <2>2. One(T[s].used /\ T[s].refs = 0) = One(S[s].used /\ S[s].refs = 0)
    BY <1>1, <1>2, <1>4 DEF One
  <2> QED  BY <1>7, <2>1, <2>2 DEF QueuedOnce
<1>12. SocketsSound(T, G)  BY <1>8, <1>9, <1>10, <1>11 DEF SocketsSound, Counted
<1> QED  BY <1>12 DEF T, G

\* What a descriptor of a socket names.
LEMMA SlotIsUsed ==
  ASSUME SocketsSound(socket, fdSocket), NEW fd \in SocketFds, fdSocket[fd] # Nobody
  PROVE  fdSocket[fd] \in SocketSlots /\ socket[fdSocket[fd]].used
<1>1. fdSocket[fd] \in SocketSlots  BY Parts DEF Leads
<1> QED  BY <1>1, Parts, NamedIsUsed

\* One socket is written, in fields that nothing counts or follows.
Rewrites(S, T, i) ==
  /\ T = [S EXCEPT ![i] = T[i]] /\ T[i] \in SocketType
  /\ T[i].used = S[i].used /\ T[i].peer = S[i].peer /\ T[i].refs = S[i].refs
  /\ T[i].pending = S[i].pending /\ T[i].rights = S[i].rights

LEMMA Rewritten ==
  ASSUME NEW S, NEW T, NEW F, NEW i \in SocketSlots, SocketsSound(S, F), S[i].used, Rewrites(S, T, i)
  PROVE  SocketsSound(T, F)
<1>1. S \in Tables  BY Parts
<1>2. T \in Tables /\ \A s \in SocketSlots : s # i => T[s] = S[s]
  BY <1>1 DEF Rewrites, Tables
<1>3. \A s \in SocketSlots :
           /\ T[s].used = S[s].used /\ T[s].peer = S[s].peer /\ T[s].refs = S[s].refs
           /\ T[s].pending = S[s].pending /\ T[s].rights = S[s].rights
           /\ S[s].used \/ T[s] = S[s]
  BY <1>2 DEF Rewrites
<1> QED  BY <1>2, <1>3, SimilarSound

LEMMA BindKeeps ==
  ASSUME SocketsSound(socket, fdSocket), NEW fd \in SocketFds, IsSocket(fd),
         NEW address \in Addresses, linux_compat_unix_bind(fd, address)
  PROVE  SocketsSound(socket', fdSocket')
<1> DEFINE i == fdSocket[fd]
<1>1. i \in SocketSlots /\ socket[i].used /\ socket \in Tables /\ socket[i] \in SocketType
  BY Parts, SlotIsUsed DEF IsSocket
<1>2. socket' = [socket EXCEPT ![i].address = address] /\ fdSocket' = fdSocket
  BY DEF linux_compat_unix_bind
<1> HIDE DEF i
<1>3. socket'[i] = [socket[i] EXCEPT !.address = address]
      /\ socket' = [socket EXCEPT ![i] = socket'[i]]
  BY <1>1, <1>2 DEF Tables
<1>4. Rewrites(socket, socket', i)
  <2> DEFINE r == socket[i]
             t == socket'[i]
  <2>0. r \in SocketType /\ t = [r EXCEPT !.address = address]  BY <1>1, <1>3
  <2> HIDE DEF r, t
  <2>1. /\ t \in SocketType
        /\ t.used = r.used /\ t.peer = r.peer /\ t.refs = r.refs
        /\ t.pending = r.pending /\ t.rights = r.rights
    BY ONLY <2>0, address \in Addresses DEF SocketType
  <2> QED  BY ONLY <1>3, <2>1 DEF Rewrites, r, t
<1> QED  BY <1>1, <1>2, <1>4, Rewritten

LEMMA ListenKeeps ==
  ASSUME SocketsSound(socket, fdSocket), NEW fd \in SocketFds, IsSocket(fd),
         linux_compat_unix_listen(fd)
  PROVE  SocketsSound(socket', fdSocket')
<1> DEFINE i == fdSocket[fd]
<1>1. i \in SocketSlots /\ socket[i].used /\ socket \in Tables /\ socket[i] \in SocketType
  BY Parts, SlotIsUsed DEF IsSocket
<1>2. socket' = [socket EXCEPT ![i].listening = TRUE] /\ fdSocket' = fdSocket
  BY DEF linux_compat_unix_listen
<1> HIDE DEF i
<1>3. socket'[i] = [socket[i] EXCEPT !.listening = TRUE]
      /\ socket' = [socket EXCEPT ![i] = socket'[i]]
  BY <1>1, <1>2 DEF Tables
<1>4. Rewrites(socket, socket', i)
  <2>1. /\ socket'[i] \in SocketType
        /\ socket'[i].used = socket[i].used /\ socket'[i].peer = socket[i].peer
        /\ socket'[i].refs = socket[i].refs /\ socket'[i].pending = socket[i].pending
        /\ socket'[i].rights = socket[i].rights
    BY ONLY <1>1, <1>3 DEF SocketType
  <2> QED  BY ONLY <1>3, <2>1 DEF Rewrites
<1> QED  BY <1>1, <1>2, <1>4, Rewritten

LEMMA ShutdownKeeps ==
  ASSUME SocketsSound(socket, fdSocket), NEW fd \in SocketFds, IsSocket(fd),
         NEW how, linux_compat_unix_shutdown(fd, how)
  PROVE  SocketsSound(socket', fdSocket')
<1> DEFINE i == fdSocket[fd]
           b == how \in {"read", "both"}
           c == how \in {"write", "both"}
<1>1. i \in SocketSlots /\ socket[i].used /\ socket \in Tables /\ socket[i] \in SocketType
  BY Parts, SlotIsUsed DEF IsSocket
<1>2. /\ socket' = [socket EXCEPT ![i].read_shutdown = @ \/ b, ![i].write_shutdown = @ \/ c]
      /\ fdSocket' = fdSocket
  BY DEF linux_compat_unix_shutdown
<1> DEFINE v == socket[i].read_shutdown \/ b
           w == socket[i].write_shutdown \/ c
<1>3. v \in BOOLEAN /\ w \in BOOLEAN  OBVIOUS
<1>4. socket'[i] = [socket[i] EXCEPT !.read_shutdown = v, !.write_shutdown = w]
      /\ socket' = [socket EXCEPT ![i] = socket'[i]]
  BY <1>1, <1>2 DEF Tables
<1> HIDE DEF i, v, w
<1>5. Rewrites(socket, socket', i)
  <2> DEFINE r == socket[i]
             t == socket'[i]
  <2>0. r \in SocketType /\ t = [r EXCEPT !.read_shutdown = v, !.write_shutdown = w]  BY <1>1, <1>4
  <2> HIDE DEF r, t
  <2>1. /\ t \in SocketType
        /\ t.used = r.used /\ t.peer = r.peer /\ t.refs = r.refs
        /\ t.pending = r.pending /\ t.rights = r.rights
    BY ONLY <2>0, <1>3 DEF SocketType
  <2> QED  BY ONLY <1>4, <2>1 DEF Rewrites, r, t
<1> QED  BY <1>1, <1>2, <1>5, Rewritten

\* A byte goes into the buffer of the peer, or is taken from it.
LEMMA TransfersKeeps ==
  ASSUME SocketsSound(socket, fdSocket), NEW op \in {"send", "recv"}, NEW i \in SocketSlots,
         Outcome(op, i) = "byte", Transfers(op, i), UNCHANGED fdSocket
  PROVE  SocketsSound(socket', fdSocket')
<1>1. socket \in Tables /\ \A s \in SocketSlots : socket[s] \in SocketType  BY Parts
<1>2. CASE op = "send"
  <2> DEFINE p == socket[i].peer
             n == socket[p].received + 1
  <2>1. SendOutcome(i) = "byte"  BY <1>2 DEF Outcome
  <2>2. ~ PeerGone(i) /\ socket[p].received # SocketBuffer  BY <2>1 DEF SendOutcome
  <2>3. p \in SocketSlots /\ socket[p].used  BY <1>1, <2>2 DEF PeerGone, SocketType
  <2>4. n \in 0 .. SocketBuffer
    <3>1. socket[p] \in SocketType  BY <1>1, <2>3
    <3>2. socket[p].received \in 0 .. SocketBuffer  BY ONLY <3>1 DEF SocketType
    <3> QED  BY ONLY <2>2, <3>2, UnixAssumption
  <2>5. socket' = [socket EXCEPT ![p].received = n]  BY <1>2 DEF Transfers
  <2> HIDE DEF p, n
  <2>6. socket'[p] = [socket[p] EXCEPT !.received = n]
        /\ socket' = [socket EXCEPT ![p] = socket'[p]]
    BY <1>1, <2>3, <2>5 DEF Tables
  <2>7. Rewrites(socket, socket', p)
    <3>1. socket[p] \in SocketType  BY <1>1, <2>3
    <3>2. /\ socket'[p] \in SocketType
          /\ socket'[p].used = socket[p].used /\ socket'[p].peer = socket[p].peer
          /\ socket'[p].refs = socket[p].refs /\ socket'[p].pending = socket[p].pending
          /\ socket'[p].rights = socket[p].rights
      BY ONLY <2>4, <2>6, <3>1 DEF SocketType
    <3> QED  BY ONLY <2>6, <3>2 DEF Rewrites
  <2> QED  BY <2>3, <2>7, Rewritten
<1>3. CASE op = "recv"
  <2>1. RecvOutcome(i) = "byte"  BY <1>3 DEF Outcome
  <2>2. socket[i].received > 0  BY <2>1 DEF RecvOutcome
  <2>3. socket[i].used
    <3>1. FreeSocket.received = 0  BY DEF FreeSocket
    <3> QED  BY <2>2, <3>1, Parts DEF Shaped
  <2>4. 0 \in 0 .. SocketBuffer  OBVIOUS
  <2>5. socket' = [socket EXCEPT ![i].received = 0]  BY <1>3 DEF Transfers
  <2>6. socket'[i] = [socket[i] EXCEPT !.received = 0]
        /\ socket' = [socket EXCEPT ![i] = socket'[i]]
    BY <1>1, <2>5 DEF Tables
  <2>7. Rewrites(socket, socket', i)
    <3>1. socket[i] \in SocketType  BY <1>1
    <3>2. /\ socket'[i] \in SocketType
          /\ socket'[i].used = socket[i].used /\ socket'[i].peer = socket[i].peer
          /\ socket'[i].refs = socket[i].refs /\ socket'[i].pending = socket[i].pending
          /\ socket'[i].rights = socket[i].rights
      BY ONLY <2>4, <2>6, <3>1 DEF SocketType
    <3> QED  BY ONLY <2>6, <3>2 DEF Rewrites
  <2> QED  BY <2>3, <2>7, Rewritten
<1> QED  BY <1>2, <1>3

LEMMA DupKeeps ==
  ASSUME SocketsSound(socket, fdSocket), NEW fd \in SocketFds, NEW new \in FreeFds,
         DupSocket(fd, new)
  PROVE  SocketsSound(socket', fdSocket')
<1> DEFINE S == socket
           T == socket'
           F == fdSocket
           G == fdSocket'
           j == fdSocket[fd]
           n == S[j].refs + 1
<1>1. /\ j \in SocketSlots /\ S[j].used /\ S[j].refs \in Nat /\ n \in Nat /\ n # 0
      /\ S[j].refs # 0
  <2>1. j \in SocketSlots /\ S[j].used  BY SlotIsUsed DEF DupSocket
  <2>2. S[j].refs >= 1 /\ S[j].refs \in Nat  BY <2>1, Parts, NamedIsUsed
  <2> QED  BY <2>1, <2>2
<1>2. T = WithRefs(S, j, n) /\ G = [F EXCEPT ![new] = j]
  BY DEF DupSocket, Retain, WithRefs
<1>3. new \in SocketFds /\ F[new] = Nobody  BY DEF FreeFds
<1>4. G \in Leads /\ G[new] = j /\ \A d \in SocketFds \ {new} : G[d] = F[d]
  BY <1>1, <1>2, <1>3, Parts DEF Leads
<1>5. Shaped(S, F) /\ Mutual(S) /\ Counted(S, F) /\ \A s \in SocketSlots : QueuedOnce(S, s)
  BY Parts
<1>count. n = S[j].refs + 1  OBVIOUS
<1> HIDE DEF S, T, F, G, j, n
<1>6. /\ Shaped(T, F) /\ Mutual(T)
      /\ \A s \in SocketSlots : Sent(T, s) = Sent(S, s) /\ Queue(T, s) = Queue(S, s)
      /\ \A s \in SocketSlots : T[s].used = S[s].used
      /\ T[j].refs = n /\ \A s \in SocketSlots : s # j => T[s].refs = S[s].refs
  BY <1>1, <1>2, <1>5, RefsSet
<1>7. Shaped(T, G)  BY <1>4, <1>6, ShapedFor
<1>8. ASSUME NEW s \in SocketSlots PROVE T[s].refs = Named(G, s) + Sent(T, s)
  <2>1. Named(G, s) = Named(F, s) + Is(G[new], s)
    <3>1. Gains(F, G, new)  BY ONLY <1>3, <1>4 DEF Gains
    <3> QED  BY ONLY <1>3, <3>1, NamedMore, s \in SocketSlots
  <2>2. S[s].refs = Named(F, s) + Sent(S, s) /\ Named(F, s) \in Nat /\ Sent(S, s) \in Nat
    BY <1>5, NamedFinite, CountsAreNat DEF Counted
  <2>3. T[s].refs = S[s].refs + Is(j, s)  BY <1>count, <1>6, <2>2 DEF Is
  <2>4. Is(j, s) \in Nat  BY DEF Is
  <2> QED  BY <1>4, <1>6, <2>1, <2>2, <2>3, <2>4
<1>9. ASSUME NEW s \in SocketSlots PROVE QueuedOnce(T, s)
  <2>1. QueuedOnce(S, s)  BY <1>5
  <2>2. One(T[s].used /\ T[s].refs = 0) = One(S[s].used /\ S[s].refs = 0)
    BY <1>1, <1>6 DEF One
  <2> QED  BY <1>6, <2>1, <2>2 DEF QueuedOnce
<1>10. SocketsSound(T, G)  BY <1>6, <1>7, <1>8, <1>9 DEF SocketsSound, Counted
<1> QED  BY <1>10 DEF T, G

LEMMA SocketCloseKeeps ==
  ASSUME SocketsSound(socket, fdSocket), NEW fd \in SocketFds, CloseSocket(fd)
  PROVE  SocketsSound(socket', fdSocket')
<1> DEFINE S == socket
           F == fdSocket
           G == fdSocket'
           j == fdSocket[fd]
<1>1. j \in SocketSlots  BY SlotIsUsed DEF CloseSocket
<1>2. socket' = compat_entry_release(S, j) /\ G = [F EXCEPT ![fd] = Nobody]
  BY DEF CloseSocket
<1>3. /\ G \in Leads /\ G[fd] = Nobody /\ \A d \in SocketFds \ {fd} : F[d] = G[d]
      /\ F[fd] = j
  BY <1>2, Parts DEF Leads
<1>4. Shaped(S, F) /\ Mutual(S) /\ Counted(S, F) /\ \A s \in SocketSlots : QueuedOnce(S, s)
  BY Parts
<1> HIDE DEF S, F, G, j
<1>5. Shaped(S, G)  BY <1>3, <1>4, ShapedFor
<1>6. ASSUME NEW s \in SocketSlots PROVE S[s].refs = Named(G, s) + Sent(S, s) + Is(j, s)
  <2>1. Named(F, s) = Named(G, s) + Is(F[fd], s)
    <3>1. Gains(G, F, fd)  BY ONLY <1>3 DEF Gains
    <3> QED  BY ONLY <3>1, NamedMore, s \in SocketSlots, fd \in SocketFds
  <2>2. S[s].refs = Named(F, s) + Sent(S, s)  BY <1>4 DEF Counted
  <2>3. Named(G, s) \in Nat /\ Sent(S, s) \in Nat /\ Is(j, s) \in Nat
    BY NamedFinite, CountsAreNat DEF Is
  <2> QED  BY <1>3, <2>1, <2>2, <2>3
<1>7. SocketsSound(compat_entry_release(S, j), G)
  BY <1>1, <1>4, <1>5, <1>6, ReleaseKeeps
<1> QED  BY <1>2, <1>7 DEF G

WithPeer(S, j, p) == [S EXCEPT ![j].peer = p]

PeerIs(S, T, j, p) ==
  /\ T \in Tables /\ T[j].peer = p /\ \A s \in SocketSlots : s # j => T[s] = S[s]
  /\ T[j].used = S[j].used /\ T[j].refs = S[j].refs
  /\ T[j].pending = S[j].pending /\ T[j].rights = S[j].rights

LEMMA PeerSet ==
  ASSUME NEW S \in Tables, NEW j \in SocketSlots, NEW p \in SocketSlots \cup {Nobody}
  PROVE  PeerIs(S, WithPeer(S, j, p), j, p)
<1> DEFINE T == WithPeer(S, j, p)
           r == [S[j] EXCEPT !.peer = p]
<1>1. S[j] \in SocketType  BY DEF Tables
<1>2. /\ r \in SocketType /\ r.peer = p
      /\ r.used = S[j].used /\ r.refs = S[j].refs
      /\ r.pending = S[j].pending /\ r.rights = S[j].rights
  BY <1>1 DEF SocketType
<1>3. T = [S EXCEPT ![j] = r]  BY DEF WithPeer
<1> HIDE DEF T, r
<1>4. T \in Tables /\ T[j] = r /\ \A s \in SocketSlots : s # j => T[s] = S[s]
  BY <1>2, <1>3 DEF Tables
<1>5. PeerIs(S, T, j, p)  BY <1>2, <1>4 DEF PeerIs
<1> QED  BY <1>5 DEF T

PendingIs(S, T, j, p) ==
  /\ T \in Tables /\ T[j].pending = p /\ \A s \in SocketSlots : s # j => T[s] = S[s]
  /\ T[j].used = S[j].used /\ T[j].refs = S[j].refs
  /\ T[j].peer = S[j].peer /\ T[j].rights = S[j].rights

LEMMA PendingSet ==
  ASSUME NEW S \in Tables, NEW j \in SocketSlots, NEW p \in Seq(SocketSlots)
  PROVE  PendingIs(S, WithPending(S, j, p), j, p)
<1> DEFINE T == WithPending(S, j, p)
           r == [S[j] EXCEPT !.pending = p]
<1>1. S[j] \in SocketType  BY DEF Tables
<1>2. /\ r \in SocketType /\ r.pending = p
      /\ r.used = S[j].used /\ r.refs = S[j].refs
      /\ r.peer = S[j].peer /\ r.rights = S[j].rights
  BY <1>1 DEF SocketType
<1>3. T = [S EXCEPT ![j] = r]  BY DEF WithPending
<1> HIDE DEF T, r
<1>4. T \in Tables /\ T[j] = r /\ \A s \in SocketSlots : s # j => T[s] = S[s]
  BY <1>2, <1>3 DEF Tables
<1>5. PendingIs(S, T, j, p)  BY <1>2, <1>4 DEF PendingIs
<1> QED  BY <1>5 DEF T

RightsIs(S, T, j, p) ==
  /\ T \in Tables /\ T[j].rights = p /\ \A s \in SocketSlots : s # j => T[s] = S[s]
  /\ T[j].used = S[j].used /\ T[j].refs = S[j].refs
  /\ T[j].peer = S[j].peer /\ T[j].pending = S[j].pending

LEMMA RightsSet ==
  ASSUME NEW S \in Tables, NEW j \in SocketSlots, NEW p \in Seq(SocketSlots)
  PROVE  RightsIs(S, WithRights(S, j, p), j, p)
<1> DEFINE T == WithRights(S, j, p)
           r == [S[j] EXCEPT !.rights = p]
<1>1. S[j] \in SocketType  BY DEF Tables
<1>2. /\ r \in SocketType /\ r.rights = p
      /\ r.used = S[j].used /\ r.refs = S[j].refs
      /\ r.peer = S[j].peer /\ r.pending = S[j].pending
  BY <1>1 DEF SocketType
<1>3. T = [S EXCEPT ![j] = r]  BY DEF WithRights
<1> HIDE DEF T, r
<1>4. T \in Tables /\ T[j] = r /\ \A s \in SocketSlots : s # j => T[s] = S[s]
  BY <1>2, <1>3 DEF Tables
<1>5. RightsIs(S, T, j, p)  BY <1>2, <1>4 DEF RightsIs
<1> QED  BY <1>5 DEF T

LEMMA QueueMore ==
  ASSUME NEW S \in Tables, NEW T, NEW l \in SocketSlots, NEW v \in SocketSlots,
         Len(S[l].pending) < Backlog, Appends(PendingOf(S), PendingOf(T), l, v), NEW s
  PROVE  Queue(T, s) = Queue(S, s) + Is(v, s)
<1> DEFINE P == PendingOf(S)
           R == PendingOf(T)
<1>1. P \in Slotted /\ Len(P[l]) < Backlog /\ Appends(P, R, l, v)
  BY DEF PendingOf, Slotted, Tables, SocketType
<1>2. Backlog \in Nat  OBVIOUS
<1> HIDE DEF P, R
<1>3. Cardinality(Places(R, SocketSlots, Backlog, s))
        = Cardinality(Places(P, SocketSlots, Backlog, s)) + Is(v, s)
  BY ONLY <1>1, <1>2, PlacesAppend, l \in SocketSlots, v \in SocketSlots
<1> QED  BY <1>3 DEF Queue, P, R

LEMMA SentMore ==
  ASSUME NEW S \in Tables, NEW T, NEW l \in SocketSlots, NEW v \in SocketSlots,
         Len(S[l].rights) < RightsQueue, Appends(RightsOf(S), RightsOf(T), l, v), NEW s
  PROVE  Sent(T, s) = Sent(S, s) + Is(v, s)
<1> DEFINE P == RightsOf(S)
           R == RightsOf(T)
<1>1. P \in Slotted /\ Len(P[l]) < RightsQueue /\ Appends(P, R, l, v)
  BY DEF RightsOf, Slotted, Tables, SocketType
<1>2. RightsQueue \in Nat  OBVIOUS
<1> HIDE DEF P, R
<1>3. Cardinality(Places(R, SocketSlots, RightsQueue, s))
        = Cardinality(Places(P, SocketSlots, RightsQueue, s)) + Is(v, s)
  BY ONLY <1>1, <1>2, PlacesAppend, l \in SocketSlots, v \in SocketSlots
<1> QED  BY <1>3 DEF Sent, P, R

\* The server's socket waits in the backlog; its client may be the listener.
LEMMA ConnectKeeps ==
  ASSUME SocketsSound(socket, fdSocket), NEW fd \in SocketFds, IsSocket(fd),
         NEW listener \in SocketSlots, NEW server \in IdleSlots,
         linux_compat_unix_connect(fd, listener, server)
  PROVE  SocketsSound(socket', fdSocket')
<1> DEFINE S == socket
           T == socket'
           F == fdSocket
           c == fdSocket[fd]
           l == listener
           v == server
           r == [NewSocket EXCEPT !.address = S[l].address]
           A == [S EXCEPT ![v] = r]
           q == Append(A[l].pending, v)
           B == WithPending(A, l, q)
           C == WithPeer(B, c, v)
<1>1. /\ v \in SocketSlots /\ ~ S[v].used /\ c \in SocketSlots /\ S[c].used /\ S[c].peer = Nobody
      /\ l \in SocketSlots /\ S[l].used /\ Len(S[l].pending) < Backlog
      /\ v # c /\ v # l
  <2>1. v \in SocketSlots /\ ~ S[v].used  BY DEF IdleSlots
  <2>2. c \in SocketSlots /\ c # Nobody  BY DEF IsSocket
  <2>3. S[c].used  BY <2>2, SlotIsUsed
  <2>4. S[c].peer = Nobody /\ S[l].used /\ Len(S[l].pending) < Backlog
    BY DEF linux_compat_unix_connect, SlotOf
  <2> QED  BY <2>1, <2>2, <2>3, <2>4
<1>2. T = WithPeer(C, v, c) /\ fdSocket' = F
  <2>1. S \in [SocketSlots -> SocketType]  BY Parts DEF Tables
  <2>2. A[l].pending = S[l].pending  BY <1>1, <2>1
  <2>3. B = [S EXCEPT ![v] = r, ![l].pending = Append(@, v)]
    <3> HIDE DEF r, S, l, v
    <3> QED  BY <2>2 DEF WithPending
  <2>4. T = Connected(B, c, v) /\ fdSocket' = F
    BY <2>3 DEF linux_compat_unix_connect
  <2>5. Connected(B, c, v) = WithPeer(C, v, c)  BY DEF Connected, WithPeer
  <2> QED  BY <2>4, <2>5
<1>3. /\ Shaped(S, F) /\ Mutual(S) /\ Counted(S, F) /\ \A s \in SocketSlots : QueuedOnce(S, s)
      /\ S \in Tables /\ S[l] \in SocketType
  BY Parts
<1>4. /\ r \in SocketType /\ r.used /\ r.refs = 0 /\ r.pending = << >> /\ r.rights = << >>
  <2>1. S[l].address \in Addresses \cup {Nobody}  BY <1>3 DEF SocketType
  <2>2. 0 \in 0 .. SocketBuffer /\ << >> \in Seq(SocketSlots)  OBVIOUS
  <2> DEFINE a == S[l].address
  <2> HIDE DEF a
  <2>3. a \in Addresses \cup {Nobody}  BY <2>1 DEF a
  <2>4. LET w == [NewSocket EXCEPT !.address = a] IN
        w \in SocketType /\ w.used /\ w.refs = 0 /\ w.pending = << >> /\ w.rights = << >>
    BY ONLY <2>2, <2>3 DEF NewSocket, FreeSocket, SocketType
  <2> QED  BY <2>4 DEF a
<1> HIDE DEF r
<1>5. A \in Tables /\ A[v] = r /\ \A s \in SocketSlots : s # v => A[s] = S[s]
  BY <1>1, <1>3, <1>4 DEF Tables
<1>6. q \in Seq(SocketSlots) /\ q = Append(S[l].pending, v)
  BY <1>1, <1>3, <1>5 DEF SocketType
<1> HIDE DEF A, q
<1>7. /\ B \in Tables /\ B[l].pending = q /\ \A s \in SocketSlots : s # l => B[s] = A[s]
      /\ B[l].used = A[l].used /\ B[l].refs = A[l].refs
      /\ B[l].peer = A[l].peer /\ B[l].rights = A[l].rights
  <2>1. l \in SocketSlots  OBVIOUS
  <2> HIDE DEF l
  <2>2. PendingIs(A, B, l, q)  BY ONLY <1>5, <1>6, <2>1, PendingSet DEF B
  <2> QED  BY ONLY <2>2 DEF PendingIs
<1> HIDE DEF B
<1>8. /\ C \in Tables /\ C[c].peer = v /\ \A s \in SocketSlots : s # c => C[s] = B[s]
      /\ C[c].used = B[c].used /\ C[c].refs = B[c].refs
      /\ C[c].pending = B[c].pending /\ C[c].rights = B[c].rights
  <2>1. c \in SocketSlots /\ v \in SocketSlots \cup {Nobody}  BY <1>1
  <2> HIDE DEF c, v
  <2>2. PeerIs(B, C, c, v)  BY ONLY <1>7, <2>1, PeerSet DEF C
  <2> QED  BY ONLY <2>2 DEF PeerIs
<1> HIDE DEF C
<1>9. /\ T \in Tables /\ T[v].peer = c /\ \A s \in SocketSlots : s # v => T[s] = C[s]
      /\ T[v].used = C[v].used /\ T[v].refs = C[v].refs
      /\ T[v].pending = C[v].pending /\ T[v].rights = C[v].rights
  <2>1. v \in SocketSlots /\ c \in SocketSlots \cup {Nobody}  BY <1>1
  <2> HIDE DEF T, c, v
  <2>2. PeerIs(C, T, v, c)  BY ONLY <1>2, <1>8, <2>1, PeerSet
  <2> QED  BY ONLY <2>2 DEF PeerIs
<1> HIDE DEF S, T, F, c, l, v
<1>10. S[v] = FreeSocket  BY <1>1, <1>3 DEF Shaped
<1>11. /\ T[v].used /\ T[v].refs = 0 /\ T[v].peer = c /\ T[c].peer = v
       /\ T[v].pending = << >> /\ T[v].rights = << >>
  BY <1>1, <1>4, <1>5, <1>7, <1>8, <1>9
<1>12. \A s \in SocketSlots \ {v} :
         /\ T[s].used = S[s].used /\ T[s].refs = S[s].refs /\ T[s].rights = S[s].rights
         /\ s # c => T[s].peer = S[s].peer
         /\ T[s].pending = IF s = l THEN q ELSE S[s].pending
         /\ s # c /\ s # l => T[s] = S[s]
  BY <1>1, <1>5, <1>7, <1>8, <1>9
<1>13. \A s \in SocketSlots : T[s].rights = S[s].rights /\ T[s].refs = S[s].refs
  BY <1>10, <1>11, <1>12, FreeSocketIs
<1>14. ASSUME NEW s \in SocketSlots
       PROVE  Sent(T, s) = Sent(S, s) /\ Queue(T, s) = Queue(S, s) + Is(v, s)
  <2>1. RightsOf(T) = RightsOf(S)  BY <1>13 DEF RightsOf
  <2>2. T[l].pending = Append(S[l].pending, v)  BY <1>1, <1>6, <1>12
  <2>3. \A k \in SocketSlots \ {l} : T[k].pending = S[k].pending
    BY <1>10, <1>11, <1>12, FreeSocketIs
  <2>4. Queue(T, s) = Queue(S, s) + Is(v, s)
    <3>1. Appends(PendingOf(S), PendingOf(T), l, v)
      BY ONLY <1>1, <2>2, <2>3 DEF Appends, PendingOf
    <3> QED  BY ONLY <1>1, <1>3, <3>1, QueueMore
  <2> QED  BY <2>1, <2>4 DEF Sent
<1>15. Shaped(T, F)
  <2>1. Len(<< >>) = 0 /\ 0 <= Backlog /\ 0 <= RightsQueue  OBVIOUS
  <2>2. Len(q) = Len(S[l].pending) + 1 /\ Len(q) <= Backlog
    BY <1>1, <1>3, <1>6 DEF SocketType
  <2>3. \A s \in SocketSlots : Len(S[s].pending) <= Backlog /\ Len(S[s].rights) <= RightsQueue
    BY <1>3 DEF Shaped
  <2>4. \A s \in SocketSlots : Len(T[s].pending) <= Backlog /\ Len(T[s].rights) <= RightsQueue
    BY <1>11, <1>12, <2>1, <2>2, <2>3
  <2>5. \A s \in SocketSlots : T[s].used \/ T[s] = FreeSocket
    BY <1>1, <1>3, <1>11, <1>12 DEF Shaped
  <2> QED  BY <1>3, <1>9, <2>4, <2>5 DEF Shaped
<1>16. Mutual(T)
  <2> SUFFICES ASSUME NEW k \in SocketSlots, T[k].peer # Nobody
               PROVE  T[k].peer \in SocketSlots /\ T[T[k].peer].peer = k
    BY DEF Mutual
  <2>1. CASE k = c \/ k = v  BY <1>1, <1>11, <2>1
  <2>2. CASE k # c /\ k # v
    <3>1. T[k].peer = S[k].peer  BY <1>12, <2>2
    <3>2. S[k].peer \in SocketSlots /\ S[S[k].peer].peer = k  BY <1>3, <3>1 DEF Mutual
    <3>3. S[k].peer # v /\ S[k].peer # c
      <4>1. k # Nobody  OBVIOUS
      <4> QED  BY <1>1, <1>10, <3>2, <4>1, FreeSocketIs
    <3> QED  BY <1>12, <3>1, <3>2, <3>3
  <2> QED  BY <2>1, <2>2
<1>17. Counted(T, F)  BY <1>3, <1>13, <1>14 DEF Counted
<1>18. ASSUME NEW s \in SocketSlots PROVE QueuedOnce(T, s)
  <2>1. Queue(S, s) = One(S[s].used /\ S[s].refs = 0)  BY <1>3 DEF QueuedOnce
  <2>2. CASE s = v
    <3>1. Queue(S, s) = 0 /\ Is(v, s) = 1  BY <1>1, <2>1, <2>2 DEF One, Is
    <3>2. One(T[s].used /\ T[s].refs = 0) = 1  BY <1>11, <2>2 DEF One
    <3> QED  BY <1>14, <3>1, <3>2 DEF QueuedOnce
  <2>3. CASE s # v
    <3>1. Is(v, s) = 0 /\ Queue(S, s) \in Nat  BY <2>3, CountsAreNat DEF Is
    <3>2. One(T[s].used /\ T[s].refs = 0) = One(S[s].used /\ S[s].refs = 0)
      BY <1>12, <2>3
    <3> QED  BY <1>14, <2>1, <3>1, <3>2 DEF QueuedOnce
  <2> QED  BY <2>2, <2>3
<1>19. SocketsSound(T, F)  BY <1>15, <1>16, <1>17, <1>18 DEF SocketsSound
<1> QED  BY <1>2, <1>19 DEF T, F

\* The connection that an accept finds first: in use, held by nobody, and
\* in no other place of a backlog.
LEMMA HeadOfBacklog ==
  ASSUME NEW S, NEW F, SocketsSound(S, F), NEW l \in SocketSlots, S[l].pending # << >>
  PROVE  LET v == Head(S[l].pending)
             T == WithPending(S, l, Tail(S[l].pending)) IN
         /\ v \in SocketSlots /\ S[v].used /\ S[v].refs = 0
         /\ Shaped(T, F) /\ Mutual(T) /\ Counted(T, F)
         /\ T[v].used /\ T[v].refs = 0 /\ Queue(T, v) = 0
         /\ \A s \in SocketSlots \ {v} : QueuedOnce(T, s)
<1> DEFINE v == Head(S[l].pending)
           T == WithPending(S, l, Tail(S[l].pending))
<1>1. Shaped(S, F) /\ Mutual(S) /\ Counted(S, F) /\ \A s \in SocketSlots : QueuedOnce(S, s)
  BY Parts
<1>2. v \in SocketSlots /\ Queue(S, v) >= 1  BY <1>1, HeadsAreCounted
<1>3. /\ Shaped(T, F) /\ Mutual(T)
      /\ \A s \in SocketSlots :
           /\ T[s].used = S[s].used /\ T[s].refs = S[s].refs
           /\ Sent(T, s) = Sent(S, s)
           /\ Queue(S, s) = Queue(T, s) + Is(v, s)
  BY <1>1, PendingPopped
<1> HIDE DEF v, T
<1>4. S[v].used /\ S[v].refs = 0 /\ Queue(S, v) = 1
  <2>1. Queue(S, v) = One(S[v].used /\ S[v].refs = 0) /\ Queue(S, v) # 0
    BY <1>1, <1>2 DEF QueuedOnce
  <2> QED  BY <2>1 DEF One
<1>5. \A s \in SocketSlots : Queue(T, s) \in Nat  BY CountsAreNat
<1>6. Queue(T, v) = 0
  <2>1. Is(v, v) = 1 /\ Queue(S, v) = Queue(T, v) + Is(v, v)  BY <1>2, <1>3 DEF Is
  <2> QED  BY <1>2, <1>4, <1>5, <2>1
<1>7. Counted(T, F)  BY <1>1, <1>3 DEF Counted
<1>8. ASSUME NEW s \in SocketSlots \ {v} PROVE QueuedOnce(T, s)
  <2>1. Is(v, s) = 0 /\ Queue(S, s) = Queue(T, s) + Is(v, s)  BY <1>3 DEF Is
  <2>2. Queue(T, s) = Queue(S, s)  BY <1>5, <2>1
  <2> QED  BY <1>1, <1>3, <2>2 DEF QueuedOnce
<1>9. /\ v \in SocketSlots /\ S[v].used /\ S[v].refs = 0
      /\ Shaped(T, F) /\ Mutual(T) /\ Counted(T, F)
      /\ T[v].used /\ T[v].refs = 0 /\ Queue(T, v) = 0
      /\ \A s \in SocketSlots \ {v} : QueuedOnce(T, s)
  BY <1>2, <1>3, <1>4, <1>6, <1>7, <1>8
<1> QED  BY <1>9 DEF v, T

LEMMA AcceptsKeeps ==
  ASSUME SocketsSound(socket, fdSocket), NEW l \in SocketSlots,
         Accepts(l) \/ AcceptsNobody(l)
  PROVE  SocketsSound(socket', fdSocket')
<1> DEFINE S == socket
           F == fdSocket
           G == fdSocket'
           v == Head(S[l].pending)
           T == WithPending(S, l, Tail(S[l].pending))
<1>1. S[l].pending # << >>  BY DEF Accepts, AcceptsNobody
<1>2. /\ v \in SocketSlots /\ S[v].used /\ S[v].refs = 0
      /\ Shaped(T, F) /\ Mutual(T) /\ Counted(T, F)
      /\ T[v].used /\ T[v].refs = 0 /\ Queue(T, v) = 0
      /\ \A s \in SocketSlots \ {v} : QueuedOnce(T, s)
  BY <1>1, HeadOfBacklog
<1>3. T = [S EXCEPT ![l].pending = Tail(@)]  BY DEF WithPending
<1>4. \/ socket' = unix_slot_reset(T, v) /\ G = F
      \/ /\ socket' = [T EXCEPT ![v].refs = 1]
         /\ \E fd \in FreeFds : G = [F EXCEPT ![fd] = v]
  BY <1>2, <1>3 DEF Accepts, AcceptsNobody
<1>5. F \in Leads  BY Parts
<1> HIDE DEF S, F, G, v, T
<1>6. CASE socket' = unix_slot_reset(T, v) /\ G = F
  <2>1. Loose(T, F, v)  BY <1>2 DEF Loose
  <2>2. SocketsSound(unix_slot_reset(T, v), F)  BY <1>2, <2>1, ResetKeeps
  <2> QED  BY <1>6, <2>2 DEF G
<1>7. CASE /\ socket' = [T EXCEPT ![v].refs = 1]
           /\ \E fd \in FreeFds : G = [F EXCEPT ![fd] = v]
  <2> DEFINE U == WithRefs(T, v, 1)
  <2>1. socket' = U  BY <1>7 DEF WithRefs
  <2>2. PICK fd \in FreeFds : G = [F EXCEPT ![fd] = v]  BY <1>7
  <2>3. fd \in SocketFds /\ F[fd] = Nobody  BY DEF FreeFds, F
  <2>4. G \in Leads /\ G[fd] = v /\ \A d \in SocketFds \ {fd} : G[d] = F[d]
    BY <1>2, <1>5, <2>2, <2>3 DEF Leads
  <2>5. /\ Shaped(U, F) /\ Mutual(U)
        /\ \A s \in SocketSlots : Sent(U, s) = Sent(T, s) /\ Queue(U, s) = Queue(T, s)
        /\ \A s \in SocketSlots : U[s].used = T[s].used
        /\ U[v].refs = 1 /\ \A s \in SocketSlots : s # v => U[s].refs = T[s].refs
    BY <1>2, RefsSet
  <2> HIDE DEF U
  <2>6. Shaped(U, G)  BY <2>4, <2>5, ShapedFor
  <2>7. ASSUME NEW s \in SocketSlots PROVE U[s].refs = Named(G, s) + Sent(U, s)
    <3>1. Named(G, s) = Named(F, s) + Is(G[fd], s)
      <4>1. Gains(F, G, fd)  BY ONLY <2>3, <2>4 DEF Gains
      <4> QED  BY ONLY <2>3, <4>1, NamedMore, s \in SocketSlots
    <3>2. T[s].refs = Named(F, s) + Sent(T, s) /\ Named(F, s) \in Nat /\ Sent(T, s) \in Nat
      BY <1>2, NamedFinite, CountsAreNat DEF Counted
    <3>3. U[s].refs = T[s].refs + Is(v, s)  BY <1>2, <2>5, <3>2 DEF Is
    <3>4. Is(v, s) \in Nat  BY DEF Is
    <3> QED  BY <2>4, <2>5, <3>1, <3>2, <3>3, <3>4
  <2>8. ASSUME NEW s \in SocketSlots PROVE QueuedOnce(U, s)
    <3>1. CASE s = v  BY <1>2, <2>5, <3>1 DEF QueuedOnce, One
    <3>2. CASE s # v  BY <1>2, <2>5, <3>2 DEF QueuedOnce
    <3> QED  BY <3>1, <3>2
  <2>9. SocketsSound(U, G)  BY <2>5, <2>6, <2>7, <2>8 DEF SocketsSound, Counted
  <2> QED  BY <2>1, <2>9 DEF G
<1> QED  BY <1>4, <1>6, <1>7

\* A message holds one reference more to what is sent.
LEMMA SendRightsKeeps ==
  ASSUME SocketsSound(socket, fdSocket), NEW fd \in SocketFds, IsSocket(fd),
         NEW other \in SocketFds, linux_compat_unix_send_rights(fd, other)
  PROVE  SocketsSound(socket', fdSocket')
<1> DEFINE S == socket
           F == fdSocket
           T == socket'
           i == fdSocket[fd]
           l == S[i].peer
           v == fdSocket[other]
           n == S[v].refs + 1
           K == WithRefs(S, v, n)
           q == Append(K[l].rights, v)
<1>1. Shaped(S, F) /\ Mutual(S) /\ Counted(S, F) /\ (\A s \in SocketSlots : QueuedOnce(S, s))
      /\ S \in Tables /\ \A s \in SocketSlots : S[s] \in SocketType /\ S[s].refs \in Nat
  BY Parts
<1>2. i \in SocketSlots  BY DEF IsSocket
<1>3. v \in SocketSlots /\ S[v].used  BY SlotIsUsed DEF linux_compat_unix_send_rights
<1>4. l \in SocketSlots /\ S[l].used /\ Len(S[l].rights) < RightsQueue
  <2>1. l # Nobody /\ S[l].used  BY DEF linux_compat_unix_send_rights, PeerGone
  <2>2. l \in SocketSlots  BY <1>1, <1>2, <2>1 DEF SocketType
  <2> QED  BY <2>1, <2>2 DEF linux_compat_unix_send_rights, SlotOf
<1>5. T = WithRights(K, l, q) /\ fdSocket' = F
  BY DEF linux_compat_unix_send_rights, Retain, SlotOf, WithRefs, WithRights
<1>6. S[v].refs >= 1 /\ n \in Nat /\ n # 0 /\ S[v].refs # 0 /\ n = S[v].refs + 1
  BY <1>1, <1>3, NamedIsUsed DEF linux_compat_unix_send_rights
<1>7. \A s \in SocketSlots : K[s].rights = S[s].rights
  <2>1. S \in [SocketSlots -> SocketType] /\ S[v] \in SocketType
    BY <1>1, <1>3 DEF Tables
  <2> HIDE DEF S, v, n
  <2>2. K[v] = [S[v] EXCEPT !.refs = n] /\ \A s \in SocketSlots : s # v => K[s] = S[s]
    BY <1>3, <2>1 DEF WithRefs
  <2> HIDE DEF K
  <2>3. K[v].rights = S[v].rights  BY <2>1, <2>2 DEF SocketType
  <2> QED  BY <2>2, <2>3
<1> HIDE DEF n, S, F, T, v, l, i
<1>8. /\ Shaped(K, F) /\ Mutual(K)
      /\ \A s \in SocketSlots : Sent(K, s) = Sent(S, s) /\ Queue(K, s) = Queue(S, s)
      /\ \A s \in SocketSlots : K[s].used = S[s].used
      /\ K[v].refs = n /\ \A s \in SocketSlots : s # v => K[s].refs = S[s].refs
  BY <1>1, <1>3, <1>6, RefsSet
<1> HIDE DEF K
<1>9. K \in Tables /\ K[l].rights = S[l].rights /\ q \in Seq(SocketSlots)
      /\ Len(q) = Len(S[l].rights) + 1 /\ Len(S[l].rights) \in Nat
  <2>1. K \in Tables /\ K[l].rights = S[l].rights  BY <1>4, <1>7, <1>8 DEF Shaped
  <2>2. S[l].rights \in Seq(SocketSlots)  BY <1>1, <1>4 DEF SocketType
  <2> QED  BY <1>3, <2>1, <2>2
<1>last. q = Append(K[l].rights, v)  OBVIOUS
<1> HIDE DEF q
<1>10. /\ T \in Tables /\ T[l].rights = q /\ \A s \in SocketSlots : s # l => T[s] = K[s]
       /\ T[l].used = K[l].used /\ T[l].refs = K[l].refs
       /\ T[l].peer = K[l].peer /\ T[l].pending = K[l].pending
  <2>1. RightsIs(K, T, l, q)  BY ONLY <1>4, <1>5, <1>9, RightsSet
  <2> QED  BY ONLY <2>1 DEF RightsIs
<1>11. \A s \in SocketSlots : /\ T[s].used = K[s].used /\ T[s].refs = K[s].refs
                              /\ T[s].peer = K[s].peer /\ T[s].pending = K[s].pending
                              /\ s # l => T[s].rights = K[s].rights
  BY <1>10
<1>12. Shaped(T, F)
  <2>1. Len(q) <= RightsQueue  BY <1>4, <1>9
  <2>2. \A s \in SocketSlots : Len(T[s].pending) <= Backlog /\ Len(T[s].rights) <= RightsQueue
    BY <1>8, <1>10, <1>11, <2>1 DEF Shaped
  <2>3. \A s \in SocketSlots : T[s].used \/ T[s] = FreeSocket
    BY <1>4, <1>8, <1>10 DEF Shaped
  <2> QED  BY <1>8, <1>10, <2>2, <2>3 DEF Shaped
<1>13. Mutual(T)  BY <1>8, <1>11 DEF Mutual
<1>14. PendingOf(T) = PendingOf(K)  BY <1>11 DEF PendingOf
<1>15. ASSUME NEW s \in SocketSlots
       PROVE  Queue(T, s) = Queue(S, s) /\ Sent(T, s) = Sent(S, s) + Is(v, s)
  <2>1. Queue(T, s) = Queue(S, s)  BY <1>8, <1>14 DEF Queue
  <2>2. Len(K[l].rights) < RightsQueue /\ T[l].rights = Append(K[l].rights, v)
    BY <1>4, <1>9, <1>10, <1>last
  <2>3. \A k \in SocketSlots \ {l} : T[k].rights = K[k].rights  BY <1>11
  <2>4. Sent(T, s) = Sent(K, s) + Is(v, s)
    <3>1. Appends(RightsOf(K), RightsOf(T), l, v)
      BY ONLY <1>4, <2>2, <2>3 DEF Appends, RightsOf
    <3> QED  BY ONLY <1>3, <1>4, <1>9, <2>2, <3>1, SentMore
  <2> QED  BY <1>8, <2>1, <2>4
<1>16. ASSUME NEW s \in SocketSlots PROVE T[s].refs = Named(F, s) + Sent(T, s)
  <2>1. S[s].refs = Named(F, s) + Sent(S, s) /\ Named(F, s) \in Nat /\ Sent(S, s) \in Nat
    BY <1>1, NamedFinite, CountsAreNat DEF Counted
  <2>2. T[s].refs = S[s].refs + Is(v, s)  BY <1>6, <1>8, <1>11, <2>1 DEF Is
  <2>3. Is(v, s) \in Nat  BY DEF Is
  <2> QED  BY <1>15, <2>1, <2>2, <2>3
<1>17. ASSUME NEW s \in SocketSlots PROVE QueuedOnce(T, s)
  <2>1. Queue(S, s) = One(S[s].used /\ S[s].refs = 0)  BY <1>1 DEF QueuedOnce
  <2>2. One(T[s].used /\ T[s].refs = 0) = One(S[s].used /\ S[s].refs = 0)
    BY <1>6, <1>8, <1>11 DEF One
  <2> QED  BY <1>15, <2>1, <2>2 DEF QueuedOnce
<1>18. SocketsSound(T, F)  BY <1>12, <1>13, <1>16, <1>17 DEF SocketsSound, Counted
<1> QED  BY <1>5, <1>18 DEF T, F

\* The reference of the message moves to a descriptor, or is given back.
LEMMA RecvRightsKeeps ==
  ASSUME SocketsSound(socket, fdSocket), NEW fd \in SocketFds, IsSocket(fd),
         NEW capacity, linux_compat_unix_recv_rights(fd, capacity)
  PROVE  SocketsSound(socket', fdSocket')
<1> DEFINE S == socket
           F == fdSocket
           G == fdSocket'
           i == fdSocket[fd]
           v == Head(S[i].rights)
           T == WithRights(S, i, Tail(S[i].rights))
<1>1. Shaped(S, F) /\ Mutual(S) /\ Counted(S, F) /\ (\A s \in SocketSlots : QueuedOnce(S, s))
      /\ F \in Leads
  BY Parts
<1>2. i \in SocketSlots /\ S[i].rights # << >>
  BY DEF IsSocket, linux_compat_unix_recv_rights, SlotOf
<1>3. v \in SocketSlots  BY <1>1, <1>2, HeadsAreCounted
<1>4. T = [S EXCEPT ![i].rights = Tail(@)]  BY DEF WithRights
<1>5. \/ socket' = T /\ \E new \in FreeFds : G = [F EXCEPT ![new] = v]
      \/ socket' = compat_entry_release(T, v) /\ G = F
  BY <1>4 DEF linux_compat_unix_recv_rights, SlotOf
<1> HIDE DEF i
<1>6. /\ Shaped(T, F) /\ Mutual(T)
      /\ \A s \in SocketSlots :
           /\ T[s].used = S[s].used /\ T[s].refs = S[s].refs
           /\ Queue(T, s) = Queue(S, s)
           /\ Sent(S, s) = Sent(T, s) + Is(v, s)
  BY <1>1, <1>2, RightsPopped
<1> HIDE DEF S, F, G, v, T
<1>7. \A s \in SocketSlots : QueuedOnce(T, s)  BY <1>1, <1>6 DEF QueuedOnce
<1>8. \A s \in SocketSlots : Named(F, s) \in Nat /\ Sent(T, s) \in Nat /\ Is(v, s) \in Nat
  BY NamedFinite, CountsAreNat DEF Is
<1>9. \A s \in SocketSlots : T[s].refs = Named(F, s) + Sent(T, s) + Is(v, s)
  <2> TAKE s \in SocketSlots
  <2>1. S[s].refs = Named(F, s) + Sent(S, s)  BY <1>1 DEF Counted
  <2> QED  BY <1>6, <1>8, <2>1
<1>10. CASE socket' = compat_entry_release(T, v) /\ G = F
  <2>1. SocketsSound(compat_entry_release(T, v), F)  BY <1>3, <1>6, <1>7, <1>9, ReleaseKeeps
  <2> QED  BY <1>10, <2>1 DEF G
<1>11. CASE socket' = T /\ \E new \in FreeFds : G = [F EXCEPT ![new] = v]
  <2>1. PICK new \in FreeFds : G = [F EXCEPT ![new] = v]  BY <1>11
  <2>2. new \in SocketFds /\ F[new] = Nobody  BY DEF FreeFds, F
  <2>3. G \in Leads /\ G[new] = v /\ \A d \in SocketFds \ {new} : G[d] = F[d]
    BY <1>1, <1>3, <2>1, <2>2 DEF Leads
  <2>4. Shaped(T, G)  BY <1>6, <2>3, ShapedFor
  <2>5. ASSUME NEW s \in SocketSlots PROVE T[s].refs = Named(G, s) + Sent(T, s)
    <3>1. Named(G, s) = Named(F, s) + Is(G[new], s)
      <4>1. Gains(F, G, new)  BY ONLY <2>2, <2>3 DEF Gains
      <4> QED  BY ONLY <2>2, <4>1, NamedMore, s \in SocketSlots
    <3> QED  BY <1>8, <1>9, <2>3, <3>1
  <2>6. SocketsSound(T, G)  BY <1>6, <1>7, <2>4, <2>5 DEF SocketsSound, Counted
  <2> QED  BY <1>11, <2>6 DEF G
<1> QED  BY <1>5, <1>10, <1>11

-----------------------------------------------------------------------------
(* The theorem.                                                            *)

LEMMA UnixStarts == UnixInit => UnixInv
<1> SUFFICES ASSUME UnixInit PROVE UnixInv  OBVIOUS
<1> DEFINE S == socket
           F == fdSocket
<1>1. S = [i \in SocketSlots |-> FreeSocket] /\ F = [fd \in SocketFds |-> Nobody]
      /\ sleeper = Awake
  BY DEF UnixInit
<1> HIDE DEF S, F
<1>2. Shaped(S, F)
  <2>1. Len(<< >>) = 0 /\ 0 <= Backlog /\ 0 <= RightsQueue  OBVIOUS
  <2> QED  BY <1>1, <2>1, FreeSocketIs DEF Shaped, Tables, Leads
<1>3. Mutual(S)  BY <1>1, FreeSocketIs DEF Mutual
<1>4. ASSUME NEW s \in SocketSlots
      PROVE  Named(F, s) = 0 /\ Sent(S, s) = 0 /\ Queue(S, s) = 0 /\ S[s] = FreeSocket
  <2>1. {fd \in SocketFds : F[fd] = s} = {}  BY <1>1
  <2>2. Named(F, s) = 0  BY <2>1, FS_EmptySet DEF Named
  <2>3. \A k \in SocketSlots : RightsOf(S)[k] = << >> /\ PendingOf(S)[k] = << >>
    BY <1>1, FreeSocketIs DEF RightsOf, PendingOf
  <2>4. RightsQueue \in Nat /\ Backlog \in Nat  OBVIOUS
  <2>5. Sent(S, s) = 0 /\ Queue(S, s) = 0  BY <2>3, <2>4, PlacesNone DEF Sent, Queue
  <2> QED  BY <1>1, <2>2, <2>5
<1>5. Counted(S, F)  BY <1>4, FreeSocketIs DEF Counted
<1>6. \A s \in SocketSlots : QueuedOnce(S, s)  BY <1>4, FreeSocketIs DEF QueuedOnce, One
<1> QED  BY <1>1, <1>2, <1>3, <1>5, <1>6 DEF UnixInv, SocketsSound, Sleepers, S, F

\* A call yields with its slot, or goes on.
LEMMA SleeperIs ==
  ASSUME SocketsSound(socket, fdSocket), NEW fd \in SocketFds, IsSocket(fd),
         NEW op \in {"accept", "send", "recv"}
  PROVE  [op |-> op, fd |-> fd, slot |-> fdSocket[fd]] \in Sleepers
BY DEF IsSocket, Sleepers

LEMMA ConnectionsKeep ==
  ASSUME UnixInv, Connections
  PROVE  UnixInv'
<1>1. SocketsSound(socket, fdSocket) /\ sleeper \in Sleepers  BY DEF UnixInv
<1>2. CASE \E fd \in FreeFds, i \in IdleSlots : linux_compat_unix_socket(fd, i)
  <2>1. PICK fd \in FreeFds, i \in IdleSlots : linux_compat_unix_socket(fd, i)  BY <1>2
  <2>2. SocketsSound(socket', fdSocket')  BY <1>1, <2>1, SocketKeeps
  <2>3. UNCHANGED sleeper  BY <2>1 DEF linux_compat_unix_socket
  <2> QED  BY <1>1, <2>2, <2>3 DEF UnixInv
<1>3. CASE \E a, b \in FreeFds, i, j \in IdleSlots : linux_compat_unix_socketpair(a, b, i, j)
  <2>1. PICK a \in FreeFds, b \in FreeFds, i \in IdleSlots, j \in IdleSlots :
          linux_compat_unix_socketpair(a, b, i, j)
    BY <1>3
  <2>2. SocketsSound(socket', fdSocket')  BY <1>1, <2>1, SocketpairKeeps
  <2>3. UNCHANGED sleeper  BY <2>1 DEF linux_compat_unix_socketpair
  <2> QED  BY <1>1, <2>2, <2>3 DEF UnixInv
<1>4. CASE \E fd \in SocketFds : CloseSocket(fd)
  <2>1. PICK fd \in SocketFds : CloseSocket(fd)  BY <1>4
  <2>2. SocketsSound(socket', fdSocket')  BY <1>1, <2>1, SocketCloseKeeps
  <2>3. UNCHANGED sleeper  BY <2>1 DEF CloseSocket
  <2> QED  BY <1>1, <2>2, <2>3 DEF UnixInv
<1>5. CASE \E fd \in SocketFds, new \in FreeFds : DupSocket(fd, new)
  <2>1. PICK fd \in SocketFds, new \in FreeFds : DupSocket(fd, new)  BY <1>5
  <2>2. SocketsSound(socket', fdSocket')  BY <1>1, <2>1, DupKeeps
  <2>3. UNCHANGED sleeper  BY <2>1 DEF DupSocket
  <2> QED  BY <1>1, <2>2, <2>3 DEF UnixInv
<1>6. ASSUME NEW fd \in SocketFds, IsSocket(fd),
             NEW address \in Addresses, linux_compat_unix_bind(fd, address)
      PROVE  UnixInv'
  <2>1. SocketsSound(socket', fdSocket')  BY <1>1, <1>6, BindKeeps
  <2>2. UNCHANGED sleeper  BY <1>6 DEF linux_compat_unix_bind
  <2> QED  BY <1>1, <2>1, <2>2 DEF UnixInv
<1>7. ASSUME NEW fd \in SocketFds, IsSocket(fd), linux_compat_unix_listen(fd)
      PROVE  UnixInv'
  <2>1. SocketsSound(socket', fdSocket')  BY <1>1, <1>7, ListenKeeps
  <2>2. UNCHANGED sleeper  BY <1>7 DEF linux_compat_unix_listen
  <2> QED  BY <1>1, <2>1, <2>2 DEF UnixInv
<1>8. ASSUME NEW fd \in SocketFds, IsSocket(fd), NEW listener \in SocketSlots,
             NEW server \in IdleSlots, linux_compat_unix_connect(fd, listener, server)
      PROVE  UnixInv'
  <2>1. SocketsSound(socket', fdSocket')  BY <1>1, <1>8, ConnectKeeps
  <2>2. UNCHANGED sleeper  BY <1>8 DEF linux_compat_unix_connect
  <2> QED  BY <1>1, <2>1, <2>2 DEF UnixInv
<1>9. ASSUME NEW fd \in SocketFds, IsSocket(fd), linux_compat_unix_accept(fd)
      PROVE  UnixInv'
  <2>1. CASE (Accepts(fdSocket[fd]) \/ AcceptsNobody(fdSocket[fd])) /\ UNCHANGED sleeper
    <3>1. fdSocket[fd] \in SocketSlots  BY <1>9 DEF IsSocket
    <3>2. SocketsSound(socket', fdSocket')  BY <1>1, <2>1, <3>1, AcceptsKeeps
    <3> QED  BY <1>1, <2>1, <3>2 DEF UnixInv
  <2>2. CASE /\ sleeper' = [op |-> "accept", fd |-> fd, slot |-> fdSocket[fd]]
             /\ UNCHANGED <<socket, fdSocket>>
    <3>1. sleeper' \in Sleepers  BY <1>1, <1>9, <2>2, SleeperIs
    <3> QED  BY <1>1, <2>2, <3>1 DEF UnixInv
  <2> QED  BY <1>9, <2>1, <2>2 DEF linux_compat_unix_accept
<1> QED  BY <1>2, <1>3, <1>4, <1>5, <1>6, <1>7, <1>8, <1>9 DEF Connections

LEMMA ResumeKeeps ==
  ASSUME UnixInv, Resume
  PROVE  UnixInv'
<1>1. SocketsSound(socket, fdSocket) /\ sleeper \in Sleepers  BY DEF UnixInv
<1>2. sleeper.op \in {"accept", "send", "recv"} /\ sleeper.slot \in SocketSlots
  BY <1>1 DEF Resume, Sleepers
<1>3. sleeper' \in Sleepers  BY DEF Resume, Sleepers
<1>4. SocketsSound(socket', fdSocket')
  <2>1. CASE UNCHANGED <<socket, fdSocket>>  BY <1>1, <2>1
  <2>2. CASE Accepts(sleeper.slot)  BY <1>1, <1>2, <2>2, AcceptsKeeps
  <2>3. CASE /\ sleeper.op \in {"send", "recv"} /\ Outcome(sleeper.op, sleeper.slot) = "byte"
             /\ Transfers(sleeper.op, sleeper.slot) /\ UNCHANGED fdSocket
    BY <1>1, <1>2, <2>3, TransfersKeeps
  <2> QED  BY <2>1, <2>2, <2>3 DEF Resume
<1> QED  BY <1>3, <1>4 DEF UnixInv

LEMMA DataKeeps ==
  ASSUME UnixInv, Data
  PROVE  UnixInv'
<1>1. SocketsSound(socket, fdSocket) /\ sleeper \in Sleepers  BY DEF UnixInv
<1>2. ASSUME NEW fd \in SocketFds, IsSocket(fd), NEW op \in {"send", "recv"}, SendOrRecv(fd, op)
      PROVE  UnixInv'
  <2> DEFINE i == fdSocket[fd]
  <2>1. i \in SocketSlots  BY <1>2 DEF IsSocket
  <2>2. CASE Outcome(op, i) = "byte" /\ Transfers(op, i) /\ UNCHANGED sleeper
    <3>1. UNCHANGED fdSocket  BY <1>2 DEF SendOrRecv
    <3>2. SocketsSound(socket', fdSocket')  BY <1>1, <2>1, <2>2, <3>1, TransfersKeeps
    <3> QED  BY <1>1, <2>2, <3>2 DEF UnixInv
  <2>3. CASE sleeper' = [op |-> op, fd |-> fd, slot |-> i] /\ UNCHANGED socket
    <3>1. sleeper' \in Sleepers  BY <1>1, <1>2, <2>3, SleeperIs
    <3>2. UNCHANGED fdSocket  BY <1>2 DEF SendOrRecv
    <3> QED  BY <1>1, <2>3, <3>1, <3>2 DEF UnixInv
  <2> QED  BY <1>2, <2>2, <2>3 DEF SendOrRecv
<1>3. ASSUME NEW fd \in SocketFds, IsSocket(fd), NEW how \in Shutdowns,
             linux_compat_unix_shutdown(fd, how)
      PROVE  UnixInv'
  <2>1. SocketsSound(socket', fdSocket')  BY <1>1, <1>3, ShutdownKeeps
  <2>2. UNCHANGED sleeper  BY <1>3 DEF linux_compat_unix_shutdown
  <2> QED  BY <1>1, <2>1, <2>2 DEF UnixInv
<1> QED  BY <1>2, <1>3 DEF Data

LEMMA RightsKeep ==
  ASSUME UnixInv, Rights
  PROVE  UnixInv'
<1>1. SocketsSound(socket, fdSocket) /\ sleeper \in Sleepers  BY DEF UnixInv
<1>2. ASSUME NEW fd \in SocketFds, IsSocket(fd), NEW other \in SocketFds,
             linux_compat_unix_send_rights(fd, other)
      PROVE  UnixInv'
  <2>1. SocketsSound(socket', fdSocket')  BY <1>1, <1>2, SendRightsKeeps
  <2>2. UNCHANGED sleeper  BY <1>2 DEF linux_compat_unix_send_rights
  <2> QED  BY <1>1, <2>1, <2>2 DEF UnixInv
<1>3. ASSUME NEW fd \in SocketFds, IsSocket(fd), NEW capacity \in 0 .. 1,
             linux_compat_unix_recv_rights(fd, capacity)
      PROVE  UnixInv'
  <2>1. SocketsSound(socket', fdSocket')  BY <1>1, <1>3, RecvRightsKeeps
  <2>2. UNCHANGED sleeper  BY <1>3 DEF linux_compat_unix_recv_rights
  <2> QED  BY <1>1, <2>1, <2>2 DEF UnixInv
<1> QED  BY <1>2, <1>3 DEF Rights

LEMMA UnixSteps == UnixInv /\ [UnixNext]_unixVars => UnixInv'
<1> SUFFICES ASSUME UnixInv, [UnixNext]_unixVars PROVE UnixInv'  OBVIOUS
<1>1. CASE Connections  BY <1>1, ConnectionsKeep
<1>2. CASE Resume  BY <1>2, ResumeKeeps
<1>3. CASE Data  BY <1>3, DataKeeps
<1>4. CASE Rights  BY <1>4, RightsKeep
<1>5. CASE UNCHANGED unixVars
  BY <1>5 DEF unixVars, UnixInv
<1> QED  BY <1>1, <1>2, <1>3, <1>4, <1>5 DEF UnixNext

\* A slot that is not used holds nothing, so that the counts of the
\* property, over the used slots, are those of the invariant.
LEMMA UsedCounts ==
  ASSUME NEW S, NEW F, Shaped(S, F), NEW s
  PROVE  /\ Carried(S, UsedIn(S), s) = Sent(S, s)
         /\ Cardinality(Queues(S, UsedIn(S), s)) = Queue(S, s)
<1> DEFINE U == UsedIn(S)
           E == SocketSlots \ U
<1>1. U \in SUBSET SocketSlots /\ E \in SUBSET SocketSlots /\ RightsQueue \in Nat /\ Backlog \in Nat
  BY DEF UsedIn
<1>2. \A k \in E : RightsOf(S)[k] = << >> /\ PendingOf(S)[k] = << >>
  BY FreeSocketIs DEF Shaped, UsedIn, RightsOf, PendingOf
<1> HIDE DEF U
<1>3. Cardinality(Places(RightsOf(S), E, RightsQueue, s)) = 0
  <2>1. \A k \in E : RightsOf(S)[k] = << >>  BY <1>2
  <2> QED  BY ONLY <1>1, <2>1, PlacesNone
<1>4. Cardinality(Places(PendingOf(S), E, Backlog, s)) = 0
  <2>1. \A k \in E : PendingOf(S)[k] = << >>  BY <1>2
  <2> QED  BY ONLY <1>1, <2>1, PlacesNone
<1>5. Sent(S, s) = Cardinality(Places(RightsOf(S), U, RightsQueue, s))
  <2>1. Cardinality(Places(RightsOf(S), SocketSlots, RightsQueue, s))
          = Cardinality(Places(RightsOf(S), U, RightsQueue, s))
              + Cardinality(Places(RightsOf(S), E, RightsQueue, s))
    BY <1>1, PlacesSplit
  <2>2. Cardinality(Places(RightsOf(S), U, RightsQueue, s)) \in Nat  BY <1>1, PlacesFinite
  <2> QED  BY <1>3, <2>1, <2>2 DEF Sent
<1>6. Queue(S, s) = Cardinality(Places(PendingOf(S), U, Backlog, s))
  <2>1. Cardinality(Places(PendingOf(S), SocketSlots, Backlog, s))
          = Cardinality(Places(PendingOf(S), U, Backlog, s))
              + Cardinality(Places(PendingOf(S), E, Backlog, s))
    BY <1>1, PlacesSplit
  <2>2. Cardinality(Places(PendingOf(S), U, Backlog, s)) \in Nat  BY <1>1, PlacesFinite
  <2> QED  BY <1>4, <2>1, <2>2 DEF Queue
<1>7. Carries(S, U, s) = Places(RightsOf(S), U, RightsQueue, s)
      /\ Queues(S, U, s) = Places(PendingOf(S), U, Backlog, s)
  BY <1>1, ArePlaces
<1> QED  BY <1>5, <1>6, <1>7 DEF Carried, U

LEMMA UnixInvIsSafe == UnixInv => UnixSafe
<1> SUFFICES ASSUME UnixInv PROVE UnixSafe  OBVIOUS
<1>1. SocketsSound(socket, fdSocket) /\ sleeper \in Sleepers  BY DEF UnixInv
<1>2. /\ Shaped(socket, fdSocket) /\ Mutual(socket) /\ Counted(socket, fdSocket)
      /\ \A s \in SocketSlots : QueuedOnce(socket, s)
      /\ fdSocket \in Leads /\ \A s \in SocketSlots : socket[s] \in SocketType
  BY <1>1, Parts
<1>3. UnixTypeOK
  BY <1>1, <1>2 DEF UnixTypeOK, Shaped, SocketType, Leads, Sleepers
<1>4. PeersAreMutual
  <2> SUFFICES ASSUME NEW i \in SocketSlots, socket[i].peer # Nobody
               PROVE  /\ socket[i].peer \in SocketSlots /\ socket[socket[i].peer].used
                      /\ socket[socket[i].peer].peer = i
    BY DEF PeersAreMutual, UsedSlots, UsedIn
  <2>1. socket[i].peer \in SocketSlots /\ socket[socket[i].peer].peer = i  BY <1>2 DEF Mutual
  <2>2. i # Nobody  OBVIOUS
  <2>3. socket[socket[i].peer] # FreeSocket  BY <2>1, <2>2, FreeSocketIs
  <2> QED  BY <1>2, <2>1, <2>3 DEF Shaped
<1>5. RefsCountHolders
  <2> SUFFICES ASSUME NEW i \in SocketSlots PROVE socket[i].refs = Holders(i)
    BY DEF RefsCountHolders, UsedSlots, UsedIn
  <2>1. Holders(i) = Named(fdSocket, i) + Sent(socket, i)
    BY <1>2, UsedCounts DEF Holders, UsedSlots, Named
  <2> QED  BY <1>2, <2>1 DEF Counted
<1>6. UnacceptedIsQueued
  <2> SUFFICES ASSUME NEW s \in SocketSlots
               PROVE  Cardinality(Queues(socket, UsedSlots, s)) =
                        IF s \in UsedSlots /\ socket[s].refs = 0 THEN 1 ELSE 0
    BY DEF UnacceptedIsQueued
  <2>1. Cardinality(Queues(socket, UsedSlots, s)) = Queue(socket, s)
    BY <1>2, UsedCounts DEF UsedSlots
  <2>2. s \in UsedSlots <=> socket[s].used  BY DEF UsedSlots, UsedIn
  <2> QED  BY <1>2, <2>1, <2>2 DEF QueuedOnce, One
<1> QED  BY <1>3, <1>4, <1>5, <1>6 DEF UnixSafe

\* However sockets are made, connected, accepted, closed, sent in messages
\* and dropped with them, and whatever a call that yielded finds in its
\* slot: a peer is in use and names the socket back, a socket has exactly
\* the references that descriptors and messages hold, and one that nobody
\* holds is in one backlog, once.
THEOREM UnixIsSafe == UnixSpec => []UnixSafe
<1>1. UnixInit => UnixInv  BY UnixStarts
<1>2. UnixInv /\ [UnixNext]_unixVars => UnixInv'  BY UnixSteps
<1>3. UnixInv => UnixSafe  BY UnixInvIsSafe
<1> QED  BY <1>1, <1>2, <1>3, PTL DEF UnixSpec
=============================================================================
