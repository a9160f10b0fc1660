----------------------------- MODULE TcpProofs -----------------------------
(***************************************************************************)
(* The safety of one TCP connection, for buffers, slots and queues of any  *)
(* size and any number of units.                                           *)
(***************************************************************************)
EXTENDS Tcp, Integers, FiniteSetTheorems, SequenceTheorems, NaturalsInduction, WellFoundedInduction,
        TLAPS

-----------------------------------------------------------------------------
(* The two ends: k is a socket, c its connection, n the next port of its    *)
(* machine, which is also the next sequence number.                         *)

Flags == {"SYN", "ACK", "FIN", "PSH", "RST"}
UnitState == [by : Machines, port : Nat, number : Nat]
ConnState ==
  [used : BOOLEAN, open : BOOLEAN, connecting : BOOLEAN, synack : BOOLEAN, rst : BOOLEAN,
   fin : BOOLEAN, need_ack : BOOLEAN, acked : BOOLEAN, want_ack : Nat, sport : Nat,
   dport : Nat, seq : Nat, ack : Nat, rx : Seq(UnitState)]
PendingState ==
  [in_use : BOOLEAN, peer_port : Nat, peer_seq : Nat, isn : Nat, syn_acked : BOOLEAN,
   established : BOOLEAN, rx : Seq(UnitState)]
Calls == {"none", "connect", "accept", "idle", "send", "recv", "closed"}
SockState ==
  [call : Calls, slot : 0 .. TcpConns, port : Nat, sent : Nat, told : Nat,
   got : Seq(UnitState), eof : BOOLEAN]
SegState ==
  [to : Machines, sport : Nat, dport : Nat, seq : Nat, ack : Nat, flags : SUBSET Flags,
   data : Seq(UnitState)]
HostState ==
  [tcp : [TcpSlots -> ConnState], pending : [PendingSlots -> PendingState],
   next_port : Nat, listening : BOOLEAN]

Own(m) == IF m = "client" THEN 1 ELSE ListenPort
Far(m) == IF m = "client" THEN ListenPort ELSE 1
Live(k) == k.call \in {"connect", "idle", "send", "recv"}
Joined(k) == k.call \in {"idle", "send", "recv", "closed"}
Early(k) == k.call \in {"none", "accept"}
Taken(k, c) == Len(k.got) + Len(c.rx)
Units(m, n) == SentOn(m, 1, n)

\* A connection lies in the slot that its socket names, and a free one in every other.
Holder(h, k, c) ==
  /\ \A i \in TcpSlots : h.tcp[i] = IF i = k.slot THEN c ELSE FreeConn
  /\ k.slot = 0 => c = FreeConn

\* One end by itself.
EndTold(m, k, c, n) ==
  /\ k \in SockState /\ c \in ConnState /\ Len(c.rx) <= RxRoom /\ n \in 1 .. MaxPort + 1
  /\ k.slot # 0 <=> Live(k)
  /\ k.port = IF Early(k) THEN 0 ELSE 1
  /\ Live(k) => c.used /\ c.sport = Own(m) /\ c.dport = Far(m)
  /\ c.connecting <=> k.call = "connect"
  /\ k.call # (IF m = "client" THEN "accept" ELSE "connect")
  /\ m = "client" => n = IF k.call = "none" THEN 1 ELSE 2
  /\ k.call = "connect" => c.seq = 1 /\ c.rx = <<>> /\ ~c.fin /\ ~c.open /\ ~c.need_ack
  /\ ~Joined(k) => k.sent = 0 /\ k.told = 0 /\ k.got = <<>> /\ ~k.eof
  /\ k.told <= k.sent /\ k.sent <= k.told + 1
  /\ k.call = "send" => k.sent = k.told + 1 /\ c.want_ack = c.seq + 1
  /\ c.open /\ k.call # "send" => k.sent = k.told
  /\ Live(k) /\ Joined(k) => c.seq = n + k.told

\* What flows from end x to end y.
FlowTold(x, kx, cx, nx, ky, cy) ==
  /\ ky.got \o cy.rx = Units(x, Taken(ky, cy)) /\ Taken(ky, cy) <= kx.sent
  /\ kx.call = "send" /\ cx.acked => ky.call = "closed" \/ Taken(ky, cy) >= kx.told + 1
  /\ ky.call # "closed" => Taken(ky, cy) >= kx.told
  /\ Live(ky) /\ ~cy.fin => cy.ack = nx + Taken(ky, cy) \/ (cy.ack < nx /\ Taken(ky, cy) = 0)
  /\ Live(ky) /\ cy.fin => kx.call = "closed" /\ cy.ack = nx + kx.told + 1
  /\ ky.eof => kx.call = "closed" /\ Len(ky.got) >= kx.told

\* A segment on its way from x to y.
SegTold(s, x, kx, cx, nx, ky, ny) ==
  /\ s \in SegState /\ s.to = Other(x) /\ s.sport = Own(x) /\ s.dport = Far(x)
  /\ "RST" \notin s.flags
  /\ "SYN" \in s.flags =>
       /\ s.data = <<>> /\ "FIN" \notin s.flags /\ s.seq < nx
       /\ "ACK" \in s.flags <=> x = "server"
       /\ x = "client" => s.seq = 1
  /\ "SYN" \notin s.flags => Joined(kx) /\ "ACK" \in s.flags
  /\ s.data # <<>> =>
       /\ "FIN" \notin s.flags
       /\ \E n \in 1 .. kx.sent : s.data = <<Unit(x, 1, n)>> /\ s.seq = nx + n - 1
  /\ "FIN" \in s.flags => kx.call = "closed" /\ s.seq = nx + kx.told /\ kx.sent = kx.told
  /\ "ACK" \in s.flags /\ kx.call # "closed" /\ ky.call # "closed" => s.ack <= ny + Taken(kx, cx)

\* A connection that waits to be accepted; kc is the client's socket.
WaitsTold(p, kc, ns) ==
  /\ kc.call # "none" /\ p.peer_port = 1 /\ p.peer_seq = 2 + Len(p.rx)
  /\ p.rx = Units("client", Len(p.rx)) /\ Len(p.rx) <= kc.sent
  /\ p.syn_acked => p.isn + 1 = ns
  /\ p.established => p.syn_acked /\ Joined(kc)
  /\ ~p.syn_acked => p.rx = <<>>

QueueTold(ps, kc, ks, ns) ==
  /\ \A i \in PendingSlots : ps[i] \in PendingState /\ Len(ps[i].rx) <= StageRoom
  /\ Early(ks) =>
       /\ \A i, j \in PendingSlots : ps[i].in_use /\ ps[j].in_use => i = j
       /\ \A i \in PendingSlots : ps[i].in_use => WaitsTold(ps[i], kc, ns)

\* The server accepts after the client has connected.
OrderTold(kc, ks) == kc.call \in {"none", "connect"} => Early(ks)

K(m) == sock[m][1]
C(m) == IF K(m).slot = 0 THEN FreeConn ELSE host[m].tcp[K(m).slot]
N(m) == host[m].next_port
P(m) == host[m].pending

ShapeTold ==
  /\ host \in [Machines -> HostState] /\ sock \in [Machines -> [1 .. TcpSockets -> SockState]]
  /\ \A m \in Machines : Holder(host[m], K(m), C(m))

EndsTold ==
  \A m \in Machines :
    /\ EndTold(m, K(m), C(m), N(m))
    /\ FlowTold(m, K(m), C(m), N(m), K(Other(m)), C(Other(m)))

WireTold ==
  \A s \in wire :
    s.to \in Machines
    /\ SegTold(s, Other(s.to), K(Other(s.to)), C(Other(s.to)), N(Other(s.to)), K(s.to), N(s.to))

\* Only the server listens, and nothing is sent before the client connects.
RestTold ==
  /\ QueueTold(P("server"), K("client"), K("server"), N("server"))
  /\ \A i \in PendingSlots : ~P("client")[i].in_use /\ Len(P("client")[i].rx) <= StageRoom
  /\ ~host["client"].listening
  /\ OrderTold(K("client"), K("server"))
  /\ K("client").call = "none" => wire = {}

TcpInv == ShapeTold /\ EndsTold /\ WireTold /\ RestTold

\* What has been sent and is in order finds room when it comes: programs read
\* what they are sent before more of it arrives than their buffers hold.
RoomForArrivals ==
  \A m \in Machines : \A s \in Arrived(m) :
    /\ \A i \in TcpSlots : host[m].tcp[i].used /\ InOrder(host[m].tcp[i], s) =>
         Len(host[m].tcp[i].rx) + Len(s.data) <= RxRoom
    /\ \A i \in PendingSlots, k \in 1 .. TcpSockets :
         sock[m][k].call = "accept" /\ host[m].pending[i].in_use
           /\ s.seq = host[m].pending[i].peer_seq =>
         Len(host[m].pending[i].rx) + Len(s.data) <= StageRoom

-----------------------------------------------------------------------------
(* Units, and streams cut in two                                           *)

LEMMA MachinesAre ==
  /\ \A m \in Machines : Other(m) \in Machines /\ Other(Other(m)) = m /\ Other(m) # m
  /\ Other("client") = "server" /\ Other("server") = "client"
  /\ "client" \in Machines /\ "server" \in Machines
  BY DEF Machines, Other

LEMMA RoomsAre == RxRoom \in Nat /\ StageRoom \in Nat /\ StageRoom <= RxRoom /\ MaxPort \in Nat
                  /\ TcpConns \in Nat /\ PendingMax \in Nat /\ MaxUnits \in Nat
  BY TcpAssumption

LEMMA OwnFar ==
  /\ ListenPort \in Nat
  /\ \A m \in Machines : Own(m) \in Nat /\ Far(m) \in Nat /\ Far(Other(m)) = Own(m)
                         /\ Own(Other(m)) = Far(m)
  BY TcpAssumption DEF Machines, Other, Own, Far

LEMMA UnitsAre ==
  ASSUME NEW m \in Machines, NEW n \in Nat
  PROVE  /\ Units(m, n) \in Seq(UnitState) /\ Len(Units(m, n)) = n
         /\ \A j \in 1 .. n : Units(m, n)[j] = Unit(m, 1, j)
<1>1. \A j \in 1 .. n : Unit(m, 1, j) \in UnitState
  BY DEF Unit, UnitState
<1> QED BY <1>1 DEF Units, SentOn

LEMMA UnitsGrow ==
  ASSUME NEW m \in Machines, NEW n \in Nat
  PROVE  Units(m, n) \o <<Unit(m, 1, n + 1)>> = Units(m, n + 1)
<1>1. Unit(m, 1, n + 1) \in UnitState
  BY DEF Unit, UnitState
<1> DEFINE u == Unit(m, 1, n + 1)
           q == Units(m, n)
           r == Units(m, n + 1)
<1>2. q \in Seq(UnitState) /\ Len(q) = n /\ r \in Seq(UnitState) /\ Len(r) = n + 1
  BY UnitsAre
<1>3. \A j \in 1 .. n : q[j] = r[j]
  BY UnitsAre
<1>4. r[n + 1] = u
  BY UnitsAre
<1>5. u \in UnitState
  BY <1>1
<1> HIDE DEF u, q, r
<1>6. q \o <<u>> \in Seq(UnitState) /\ Len(q \o <<u>>) = n + 1
  BY <1>2, <1>5
<1>7. \A j \in 1 .. n + 1 : (q \o <<u>>)[j] = r[j]
  BY <1>2, <1>3, <1>4, <1>5
<1>8. q \o <<u>> = r
  BY <1>2, <1>6, <1>7, SeqEqual
<1> QED BY <1>8 DEF u, q, r

LEMMA NoUnits == ASSUME NEW m PROVE Units(m, 0) = <<>>
  BY DEF Units, SentOn

\* A stream is what was read and what waits: more may wait, and some may be read.
LEMMA StreamGrows ==
  ASSUME NEW S, NEW got \in Seq(S), NEW rx \in Seq(S), NEW data \in Seq(S)
  PROVE  /\ (got \o rx) \o data = got \o (rx \o data) /\ rx \o data \in Seq(S)
         /\ Len(rx \o data) = Len(rx) + Len(data) /\ Len(got \o rx) = Len(got) + Len(rx)
         /\ Len(got) \in Nat /\ Len(rx) \in Nat /\ Len(data) \in Nat
         /\ got \o rx \in Seq(S) /\ got \o <<>> = got /\ <<>> \o rx = rx
<1>1. (got \o rx) \o data = got \o (rx \o data)
  BY ConcatAssociative
<1>2. got \o <<>> = got /\ <<>> \o rx = rx
  BY ConcatEmptySeq
<1> QED BY <1>1, <1>2

LEMMA StreamRead ==
  ASSUME NEW S, NEW got \in Seq(S), NEW rx \in Seq(S), rx # <<>>
  PROVE  /\ Append(got, Head(rx)) \o Tail(rx) = got \o rx
         /\ Append(got, Head(rx)) \in Seq(S) /\ Tail(rx) \in Seq(S)
         /\ Len(Append(got, Head(rx))) = Len(got) + 1 /\ Len(Tail(rx)) = Len(rx) - 1
         /\ Len(rx) \in Nat \ {0} /\ Len(got) \in Nat
<1>1. Head(rx) \in S /\ Tail(rx) \in Seq(S) /\ Len(Tail(rx)) = Len(rx) - 1 /\ Len(rx) \in Nat \ {0}
      /\ \A n \in 1 .. Len(rx) - 1 : Tail(rx)[n] = rx[n + 1]
  BY HeadTailProperties, EmptySeq
<1> DEFINE g == Append(got, Head(rx))
           t == Tail(rx)
<1>2. g \in Seq(S) /\ Len(g) = Len(got) + 1 /\ Len(got) \in Nat /\ g[Len(got) + 1] = Head(rx)
      /\ \A n \in 1 .. Len(got) : g[n] = got[n]
  BY <1>1, AppendProperties
<1>3. t \in Seq(S) /\ Len(t) = Len(rx) - 1 /\ \A n \in 1 .. Len(t) : t[n] = rx[n + 1]
  BY <1>1
<1>4. Head(rx) = rx[1]
  BY DEF Head
<1> HIDE DEF g, t
<1>5. g \o t \in Seq(S) /\ Len(g \o t) = Len(g) + Len(t)
      /\ \A n \in 1 .. Len(g) + Len(t) : (g \o t)[n] = IF n <= Len(g) THEN g[n] ELSE t[n - Len(g)]
  BY <1>2, <1>3, ConcatProperties
<1>6. got \o rx \in Seq(S) /\ Len(got \o rx) = Len(got) + Len(rx)
      /\ \A n \in 1 .. Len(got) + Len(rx) :
           (got \o rx)[n] = IF n <= Len(got) THEN got[n] ELSE rx[n - Len(got)]
  BY ConcatProperties
<1>7. Len(g) + Len(t) = Len(got) + Len(rx) /\ Len(g) = Len(got) + 1
  BY <1>1, <1>2, <1>3
<1>8. \A n \in 1 .. Len(got) + Len(rx) : (g \o t)[n] = (got \o rx)[n]
  <2> TAKE n \in 1 .. Len(got) + Len(rx)
  <2>1. CASE n <= Len(got)
    BY <2>1, <1>2, <1>5, <1>6, <1>7
  <2>2. CASE n = Len(got) + 1
    BY <2>2, <1>1, <1>2, <1>4, <1>5, <1>6, <1>7
  <2>3. CASE n > Len(got) + 1
    <3>1. n - Len(g) \in 1 .. Len(t) /\ (n - Len(g)) + 1 = n - Len(got)
      BY <2>3, <1>1, <1>2, <1>3, <1>7
    <3>2. (g \o t)[n] = t[n - Len(g)] /\ (got \o rx)[n] = rx[n - Len(got)]
      BY <2>3, <1>1, <1>2, <1>5, <1>6, <1>7
    <3> QED BY <3>1, <3>2, <1>3
  <2>4. n <= Len(got) \/ n = Len(got) + 1 \/ n > Len(got) + 1
    BY <1>1, <1>2
  <2> QED BY <2>1, <2>2, <2>3, <2>4
<1>9. g \o t = got \o rx
  BY <1>5, <1>6, <1>7, <1>8, SeqEqual
<1> QED BY <1>1, <1>2, <1>9 DEF g, t

-----------------------------------------------------------------------------
(* A segment that arrives                                                  *)

LEMMA LengthsAre ==
  ASSUME NEW k \in SockState, NEW c \in ConnState
  PROVE  /\ k.got \in Seq(UnitState) /\ c.rx \in Seq(UnitState) /\ Len(k.got) \in Nat
         /\ Len(c.rx) \in Nat /\ Taken(k, c) \in Nat /\ Taken(k, c) = Len(k.got) + Len(c.rx)
<1> DEFINE a == k.got
           b == c.rx
<1>1. a \in Seq(UnitState) /\ b \in Seq(UnitState)
  BY DEF SockState, ConnState
<1> HIDE DEF a, b
<1>2. Len(a) \in Nat /\ Len(b) \in Nat
  BY <1>1, LenProperties
<1>3. Len(a) + Len(b) \in Nat
  BY <1>2
<1> QED BY <1>1, <1>2, <1>3 DEF Taken, a, b

\* The fields that a segment leaves alone.
SameConn(c, d) ==
  /\ d.used = c.used /\ d.open = c.open /\ d.connecting = c.connecting
  /\ d.want_ack = c.want_ack /\ d.sport = c.sport /\ d.dport = c.dport /\ d.seq = c.seq

Greets(c, s) == c.connecting /\ {"SYN", "ACK"} \subseteq s.flags /\ ~c.synack
Answers(c, s) == "ACK" \in s.flags /\ c.want_ack # 0 /\ s.ack >= c.want_ack

LEMMA DispatchedReset ==
  ASSUME NEW c \in ConnState, NEW s, "RST" \in s.flags
  PROVE  LET d == Dispatched(c, s) IN
         /\ d \in ConnState /\ SameConn(c, d) /\ d.rx = c.rx /\ d.ack = c.ack
         /\ d.fin = c.fin /\ d.acked = c.acked /\ d.synack = c.synack
<1> DEFINE d == [c EXCEPT !.rst = TRUE]
<1>1. d \in ConnState /\ SameConn(c, d) /\ d.rx = c.rx /\ d.ack = c.ack
      /\ d.fin = c.fin /\ d.acked = c.acked /\ d.synack = c.synack
  BY DEF ConnState, SameConn
<1>2. Dispatched(c, s) = d
  BY DEF Dispatched
<1> QED BY <1>1, <1>2

LEMMA DispatchedGreets ==
  ASSUME NEW c \in ConnState, NEW s \in SegState, "RST" \notin s.flags, Greets(c, s)
  PROVE  LET d == Dispatched(c, s) IN
         /\ d \in ConnState /\ SameConn(c, d) /\ d.rx = c.rx /\ d.ack = s.seq + 1
         /\ d.fin = c.fin /\ d.acked = c.acked /\ d.synack = TRUE /\ d.need_ack = c.need_ack
<1> DEFINE d == [c EXCEPT !.ack = s.seq + 1, !.synack = TRUE]
<1>0. s.seq + 1 \in Nat
  BY DEF SegState
<1>1. d \in ConnState /\ SameConn(c, d) /\ d.rx = c.rx /\ d.ack = s.seq + 1
      /\ d.fin = c.fin /\ d.acked = c.acked /\ d.synack = TRUE /\ d.need_ack = c.need_ack
  BY <1>0 DEF ConnState, SameConn
<1>2. Dispatched(c, s) = d
  BY DEF Dispatched, Greets
<1> QED BY <1>1, <1>2

\* What is noted of any other segment.
NotedOf(c, s) == [c EXCEPT !.acked = @ \/ Answers(c, s)]

LEMMA NotedIs ==
  ASSUME NEW c \in ConnState, NEW s \in SegState
  PROVE  LET d == NotedOf(c, s) IN
         /\ d \in ConnState /\ SameConn(c, d) /\ d.rx = c.rx /\ d.ack = c.ack
         /\ d.fin = c.fin /\ d.synack = c.synack /\ d.need_ack = c.need_ack
         /\ d.acked = (c.acked \/ Answers(c, s))
<1>1. (c.acked \/ Answers(c, s)) \in BOOLEAN
  OBVIOUS
<1> DEFINE b == c.acked \/ Answers(c, s)
           d == [c EXCEPT !.acked = b]
<1>2. b \in BOOLEAN
  BY <1>1
<1>3. NotedOf(c, s) = d
  BY DEF NotedOf
<1> HIDE DEF b
<1>4. d \in ConnState /\ SameConn(c, d) /\ d.rx = c.rx /\ d.ack = c.ack
      /\ d.fin = c.fin /\ d.synack = c.synack /\ d.need_ack = c.need_ack /\ d.acked = b
  BY <1>2 DEF ConnState, SameConn
<1> QED BY <1>3, <1>4 DEF b

Ends(s) == IF "FIN" \in s.flags THEN 1 ELSE 0

\* What such a segment does to the stream.
TakesData(c, s, d) ==
  /\ s.data # <<>> /\ s.seq = c.ack /\ d.rx = Received(c, s.data)
  /\ d.ack = c.ack + Len(s.data) + Ends(s) /\ d.fin = (c.fin \/ "FIN" \in s.flags)
TakesFin(c, s, d) == "FIN" \in s.flags /\ d.rx = c.rx /\ d.ack = s.seq + 1 /\ d.fin = TRUE
TakesNothing(c, d) == d.rx = c.rx /\ d.ack = c.ack /\ d.fin = c.fin

LEMMA DispatchedNoted ==
  ASSUME NEW c \in ConnState, NEW s \in SegState, "RST" \notin s.flags, ~Greets(c, s)
  PROVE  LET d == Dispatched(c, s) IN
         /\ d \in ConnState /\ SameConn(c, d) /\ d.synack = c.synack
         /\ d.acked = (c.acked \/ Answers(c, s))
         /\ s.data = <<>> /\ "FIN" \notin s.flags => d.need_ack = c.need_ack
         /\ TakesData(c, s, d) \/ TakesFin(c, s, d) \/ TakesNothing(c, d)
<1> DEFINE n == NotedOf(c, s)
           d == Dispatched(c, s)
           e == c.fin \/ "FIN" \in s.flags
           a == c.ack + Len(s.data) + Ends(s)
           r == Received(c, s.data)
<1>1. /\ n \in ConnState /\ SameConn(c, n) /\ n.rx = c.rx /\ n.ack = c.ack
      /\ n.fin = c.fin /\ n.synack = c.synack /\ n.need_ack = c.need_ack
      /\ n.acked = (c.acked \/ Answers(c, s))
  BY NotedIs
<1>2. d = IF s.data # <<>> /\ s.seq = c.ack
          THEN [n EXCEPT !.rx = r, !.need_ack = TRUE, !.ack = @ + Len(s.data) + Ends(s),
                         !.fin = @ \/ "FIN" \in s.flags]
          ELSE IF s.data # <<>> /\ s.seq < c.ack THEN [n EXCEPT !.need_ack = TRUE]
          ELSE IF "FIN" \in s.flags
          THEN [n EXCEPT !.ack = s.seq + 1, !.fin = TRUE, !.need_ack = TRUE] ELSE n
  BY DEF Dispatched, Greets, NotedOf, Answers, InOrder, Ends
<1>3. r \in Seq(UnitState) /\ a \in Nat /\ e \in BOOLEAN /\ s.seq \in Nat /\ c.ack \in Nat
      /\ c.fin \in BOOLEAN
  BY StreamGrows DEF Received, ConnState, SegState, Ends
<1> HIDE DEF n, r
<1>4. CASE s.data # <<>> /\ s.seq = c.ack
  <2>1. d = [n EXCEPT !.rx = r, !.need_ack = TRUE, !.ack = a, !.fin = e]
    BY <1>1, <1>2, <1>4
  <2> HIDE DEF a, e, d
  <2>2. /\ d \in ConnState /\ SameConn(n, d) /\ d.synack = n.synack /\ d.acked = n.acked
        /\ d.rx = r /\ d.ack = a /\ d.fin = e
    BY <2>1, <1>1, <1>3 DEF ConnState, SameConn
  <2>3. SameConn(c, d)
    BY <2>2, <1>1 DEF SameConn
  <2> QED BY <1>1, <1>4, <2>2, <2>3 DEF a, e, d, r, TakesData
<1>5. CASE s.data # <<>> /\ s.seq < c.ack
  <2>1. d = [n EXCEPT !.need_ack = TRUE]
    BY <1>2, <1>3, <1>5
  <2> HIDE DEF d
  <2>2. /\ d \in ConnState /\ SameConn(n, d) /\ d.synack = n.synack /\ d.acked = n.acked
        /\ d.rx = n.rx /\ d.ack = n.ack /\ d.fin = n.fin
    BY <2>1, <1>1 DEF ConnState, SameConn
  <2>3. SameConn(c, d)
    BY <2>2, <1>1 DEF SameConn
  <2> QED BY <1>1, <1>3, <1>5, <2>2, <2>3 DEF d, TakesNothing
<1>6. CASE (s.data = <<>> \/ s.seq > c.ack) /\ "FIN" \in s.flags
  <2>1. d = [n EXCEPT !.ack = s.seq + 1, !.fin = TRUE, !.need_ack = TRUE]
    BY <1>2, <1>3, <1>6
  <2> DEFINE f == s.seq + 1
  <2>0. f \in Nat
    BY <1>3
  <2> HIDE DEF d, f
  <2>2. /\ d \in ConnState /\ SameConn(n, d) /\ d.synack = n.synack /\ d.acked = n.acked
        /\ d.rx = n.rx /\ d.ack = f /\ d.fin = TRUE
    BY <2>0, <2>1, <1>1 DEF ConnState, SameConn, f
  <2>3. SameConn(c, d)
    BY <2>2, <1>1 DEF SameConn
  <2> QED BY <1>1, <1>6, <2>2, <2>3 DEF d, f, TakesFin
<1>7. CASE (s.data = <<>> \/ s.seq > c.ack) /\ "FIN" \notin s.flags
  <2>1. d = n
    BY <1>2, <1>3, <1>7
  <2> QED BY <1>1, <2>1 DEF TakesNothing
<1>8. s.seq = c.ack \/ s.seq < c.ack \/ s.seq > c.ack
  BY <1>3
<1> QED BY <1>4, <1>5, <1>6, <1>7, <1>8

Fits(c, s) == Len(c.rx) + Len(s.data) <= RxRoom

\* A client that connects does so before the server accepts.
Ordered(k, ko) == k.call = "connect" => Early(ko)

\* What an end takes leaves what it said itself, and what it owes to its buffer.
LEMMA EndKept ==
  ASSUME NEW m, NEW k, NEW c, NEW n, NEW d, EndTold(m, k, c, n),
         d \in ConnState, SameConn(c, d), Len(d.rx) <= RxRoom, Live(k),
         k.call = "connect" => d.rx = <<>> /\ ~d.fin /\ ~d.need_ack
  PROVE  EndTold(m, k, d, n)
  BY DEF EndTold, SameConn

\* Taking a segment that adds nothing to the stream.
LEMMA FlowKept ==
  ASSUME NEW x, NEW kx, NEW cx, NEW nx, NEW ky, NEW cy, NEW d, FlowTold(x, kx, cx, nx, ky, cy),
         d.rx = cy.rx, d.ack = cy.ack, d.fin = cy.fin
  PROVE  FlowTold(x, kx, cx, nx, ky, d) /\ Taken(ky, d) = Taken(ky, cy)
<1>1. Taken(ky, d) = Taken(ky, cy)
  BY DEF Taken
<1> QED BY <1>1 DEF FlowTold

\* The sender's side: an acknowledgement means what it says.
LEMMA AnswerIsTrue ==
  ASSUME NEW m \in Machines, NEW k, NEW c, NEW n, NEW ko, NEW co, NEW no,
         EndTold(m, k, c, n), EndTold(Other(m), ko, co, no), FlowTold(m, k, c, n, ko, co),
         NEW s, SegTold(s, Other(m), ko, co, no, k, n), Live(k),
         NEW d, d.acked = (c.acked \/ Answers(c, s)), d.want_ack = c.want_ack
  PROVE  FlowTold(m, k, d, n, ko, co)
<1>1. Taken(ko, co) \in Nat /\ k.told \in Nat /\ n \in Nat /\ s.ack \in Nat /\ c.want_ack \in Nat
      /\ c.seq \in Nat
  <2>1. ko \in SockState /\ co \in ConnState /\ k \in SockState /\ c \in ConnState
        /\ s \in SegState /\ n \in Nat
    BY DEF EndTold, SegTold
  <2> QED BY <2>1 DEF SockState, ConnState, SegState, Taken
<1>2. ASSUME k.call = "send", Answers(c, s), ko.call # "closed"
      PROVE  Taken(ko, co) >= k.told + 1
  <2>1. c.want_ack = c.seq + 1 /\ c.seq = n + k.told
    BY <1>2 DEF EndTold, Live, Joined
  <2>2. s.ack >= c.want_ack /\ s.ack <= n + Taken(ko, co)
    BY <1>2 DEF Answers, SegTold
  <2> QED BY <1>1, <2>1, <2>2
<1>3. k.call = "send" /\ d.acked => ko.call = "closed" \/ Taken(ko, co) >= k.told + 1
  BY <1>2 DEF FlowTold
<1> QED BY <1>3 DEF FlowTold

\* The receiver's side, by what the segment is.
LEMMA GreetingTaken ==
  ASSUME NEW m \in Machines, NEW k, NEW c, NEW n, NEW ko, NEW co, NEW no,
         EndTold(m, k, c, n), EndTold(Other(m), ko, co, no),
         FlowTold(Other(m), ko, co, no, k, c), NEW s, SegTold(s, Other(m), ko, co, no, k, n),
         Live(k), Greets(c, s),
         NEW d, d.rx = c.rx, d.ack = s.seq + 1, d.fin = c.fin, d.need_ack = c.need_ack
  PROVE  FlowTold(Other(m), ko, co, no, k, d) /\ Taken(k, d) = Taken(k, c)
         /\ (k.call = "connect" => d.rx = <<>> /\ ~d.fin /\ ~d.need_ack) /\ Len(d.rx) <= RxRoom
<1>1. k.call = "connect" /\ c.rx = <<>> /\ ~c.fin /\ k.got = <<>> /\ ~c.need_ack
  BY DEF Greets, EndTold, Joined
<1>2. Taken(k, d) = Taken(k, c) /\ Taken(k, c) = 0
  BY <1>1 DEF Taken
<1>3. s.seq < no /\ s.seq \in Nat /\ no \in Nat
  BY DEF SegTold, SegState, EndTold, Greets
<1>4. d.ack = no + Taken(k, d) \/ (d.ack < no /\ Taken(k, d) = 0)
  BY <1>2, <1>3
<1> QED BY <1>1, <1>2, <1>4 DEF FlowTold, EndTold

LEMMA FinTaken ==
  ASSUME NEW m \in Machines, NEW k, NEW c, NEW n, NEW ko, NEW co, NEW no,
         EndTold(m, k, c, n), EndTold(Other(m), ko, co, no),
         FlowTold(Other(m), ko, co, no, k, c), NEW s, SegTold(s, Other(m), ko, co, no, k, n),
         Live(k), Ordered(k, ko), NEW d, TakesFin(c, s, d)
  PROVE  FlowTold(Other(m), ko, co, no, k, d) /\ Taken(k, d) = Taken(k, c)
         /\ k.call # "connect" /\ Len(d.rx) <= RxRoom
<1>1. Joined(ko) /\ ko.call = "closed" /\ s.seq = no + ko.told
  BY DEF SegTold, TakesFin
<1>2. Taken(k, d) = Taken(k, c)
  BY DEF Taken, TakesFin
<1>3. k.call # "connect"
  BY <1>1 DEF Joined, Early, Ordered
<1> QED BY <1>1, <1>2, <1>3 DEF FlowTold, EndTold, TakesFin

LEMMA DataTaken ==
  ASSUME NEW m \in Machines, NEW k, NEW c, NEW n, NEW ko, NEW co, NEW no,
         EndTold(m, k, c, n), EndTold(Other(m), ko, co, no),
         FlowTold(Other(m), ko, co, no, k, c), NEW s, SegTold(s, Other(m), ko, co, no, k, n),
         Live(k), Ordered(k, ko), Fits(c, s),
         NEW d, TakesData(c, s, d)
  PROVE  FlowTold(Other(m), ko, co, no, k, d) /\ Taken(k, d) = Taken(k, c) + 1
         /\ k.call # "connect" /\ Len(d.rx) <= RxRoom
<1> DEFINE o == Other(m)
           r == Taken(k, c)
<1>0. /\ k \in SockState /\ c \in ConnState /\ s \in SegState /\ no \in Nat /\ ko \in SockState
      /\ o \in Machines
  BY MachinesAre DEF EndTold, SegTold
<1>a. s.data # <<>> /\ s.seq = c.ack /\ d.rx = Received(c, s.data)
      /\ d.ack = c.ack + Len(s.data) + Ends(s) /\ d.fin = (c.fin \/ "FIN" \in s.flags)
  BY DEF TakesData
<1>1. k.got \in Seq(UnitState) /\ c.rx \in Seq(UnitState) /\ s.data \in Seq(UnitState)
      /\ ko.told \in Nat /\ ko.sent \in Nat /\ ko.sent <= ko.told + 1
  BY <1>0 DEF SockState, ConnState, SegState, EndTold
<1>2. r \in Nat
  BY <1>0, LengthsAre
<1>3. "FIN" \notin s.flags /\ Joined(ko)
  BY <1>a DEF SegTold
<1>4. PICK u \in 1 .. ko.sent : s.data = <<Unit(o, 1, u)>> /\ s.seq = no + u - 1
  BY <1>a DEF SegTold
<1>5. k.call # "connect"
  BY <1>3 DEF Joined, Early, Ordered
<1>6. c.ack = no + u - 1 /\ u \in Nat /\ u >= 1 /\ u <= ko.sent
  BY <1>1, <1>4, <1>a
<1>7. ~c.fin
  BY <1>0, <1>1, <1>6 DEF FlowTold
<1>8. c.ack = no + r \/ (c.ack < no /\ r = 0)
  BY <1>7 DEF FlowTold
<1>9. u = r + 1
  BY <1>0, <1>2, <1>6, <1>8
<1>10. d.rx = c.rx \o s.data /\ Len(s.data) = 1
  <2>1. ~(Len(c.rx) + Len(s.data) > RxRoom)
    <3> DEFINE a == Len(c.rx)
               b == Len(s.data)
    <3>1. a \in Nat /\ b \in Nat /\ a + b <= RxRoom
      BY <1>0, <1>4, LengthsAre DEF Fits
    <3> HIDE DEF a, b
    <3>2. ~(a + b > RxRoom)
      BY <3>1, RoomsAre
    <3> QED BY <3>2 DEF a, b
  <2>2. Len(s.data) = 1
    BY <1>4
  <2> QED BY <2>1, <2>2, <1>a DEF Received
<1>11. /\ k.got \o d.rx = (k.got \o c.rx) \o s.data /\ Len(d.rx) = Len(c.rx) + 1
       /\ Len(k.got) \in Nat /\ Len(c.rx) \in Nat
  <2> DEFINE data == s.data
             rx == c.rx
             got == k.got
  <2>1. data \in Seq(UnitState) /\ rx \in Seq(UnitState) /\ got \in Seq(UnitState)
    BY <1>1
  <2> HIDE DEF data, rx, got
  <2>2. (got \o rx) \o data = got \o (rx \o data) /\ Len(rx \o data) = Len(rx) + Len(data)
        /\ Len(got) \in Nat /\ Len(rx) \in Nat
    BY <2>1, StreamGrows
  <2> QED BY <2>2, <1>10 DEF data, rx, got
<1>12. Taken(k, d) = r + 1
  <2> DEFINE x == Len(k.got)
             y == Len(c.rx)
             z == Len(d.rx)
  <2>1. x \in Nat /\ y \in Nat /\ z = y + 1
    BY <1>11
  <2> HIDE DEF x, y, z
  <2>2. x + z = (x + y) + 1
    BY <2>1
  <2> QED BY <2>2 DEF Taken, x, y, z
<1>13. k.got \o d.rx = Units(o, r + 1)
  <2>1. k.got \o c.rx = Units(o, r)
    BY DEF FlowTold
  <2>2. (k.got \o c.rx) \o s.data = Units(o, r) \o <<Unit(o, 1, r + 1)>>
    BY <2>1, <1>4, <1>9
  <2> QED BY <2>2, <1>0, <1>2, <1>11, UnitsGrow
<1>14. d.ack = no + Taken(k, d) /\ ~d.fin
  <2>1. Ends(s) = 0
    BY <1>3 DEF Ends
  <2>2. d.ack = c.ack + 1
    BY <2>1, <1>0, <1>10, <1>a DEF ConnState
  <2>3. ~d.fin
    BY <1>3, <1>7, <1>a
  <2> QED BY <2>2, <2>3, <1>0, <1>2, <1>6, <1>9, <1>12
<1>15. Taken(k, d) <= ko.sent /\ (k.call # "closed" => Taken(k, d) >= ko.told)
  BY <1>1, <1>2, <1>6, <1>9, <1>12 DEF FlowTold
<1>16. FlowTold(o, ko, co, no, k, d)
  <2>1. ko.call = "send" /\ co.acked => k.call = "closed" \/ Taken(k, d) >= ko.told + 1
    BY <1>1, <1>2, <1>12 DEF FlowTold
  <2> QED BY <1>12, <1>13, <1>14, <1>15, <2>1 DEF FlowTold
<1>17. Len(d.rx) <= RxRoom
  <2>1. Len(d.rx) = Len(c.rx) + Len(s.data)
    BY <1>10, <1>11
  <2> QED BY <2>1 DEF Fits
<1> QED BY <1>5, <1>12, <1>16, <1>17

\* An end that takes a segment.
LEMMA SegmentTaken ==
  ASSUME NEW m \in Machines, NEW k, NEW c, NEW n, NEW ko, NEW co, NEW no,
         EndTold(m, k, c, n), EndTold(Other(m), ko, co, no),
         FlowTold(Other(m), ko, co, no, k, c), FlowTold(m, k, c, n, ko, co),
         NEW s, SegTold(s, Other(m), ko, co, no, k, n),
         Live(k), Ordered(k, ko),
         InOrder(c, s) => Fits(c, s)
  PROVE  LET d == Dispatched(c, s) IN
         /\ EndTold(m, k, d, n) /\ FlowTold(Other(m), ko, co, no, k, d)
         /\ FlowTold(m, k, d, n, ko, co) /\ Taken(k, d) >= Taken(k, c) /\ SameConn(c, d)
<1> DEFINE d == Dispatched(c, s)
<1>0. c \in ConnState /\ s \in SegState /\ k \in SockState /\ "RST" \notin s.flags
      /\ Len(c.rx) <= RxRoom
  BY DEF EndTold, SegTold
<1>1. Taken(k, c) \in Nat
  BY <1>0 DEF Taken, SockState, ConnState
<1>2. CASE Greets(c, s)
  <2>1. d \in ConnState /\ SameConn(c, d) /\ d.rx = c.rx /\ d.ack = s.seq + 1
        /\ d.fin = c.fin /\ d.acked = c.acked /\ d.need_ack = c.need_ack
    BY <1>0, <1>2, DispatchedGreets
  <2> HIDE DEF d
  <2>2. /\ FlowTold(Other(m), ko, co, no, k, d) /\ Taken(k, d) = Taken(k, c)
        /\ (k.call = "connect" => d.rx = <<>> /\ ~d.fin /\ ~d.need_ack) /\ Len(d.rx) <= RxRoom
    BY <1>2, <2>1, GreetingTaken
  <2>3. FlowTold(m, k, d, n, ko, co)
    BY <2>1 DEF FlowTold
  <2>4. EndTold(m, k, d, n)
    BY <2>1, <2>2, EndKept
  <2> QED BY <1>1, <2>1, <2>2, <2>3, <2>4 DEF d
<1>3. CASE ~Greets(c, s)
  <2>1. /\ d \in ConnState /\ SameConn(c, d)
        /\ d.acked = (c.acked \/ Answers(c, s))
        /\ s.data = <<>> /\ "FIN" \notin s.flags => d.need_ack = c.need_ack
        /\ TakesData(c, s, d) \/ TakesFin(c, s, d) \/ TakesNothing(c, d)
    BY <1>0, <1>3, DispatchedNoted
  <2> HIDE DEF d
  <2>2. FlowTold(m, k, d, n, ko, co)
    BY <2>1, AnswerIsTrue DEF SameConn
  <2>3. /\ FlowTold(Other(m), ko, co, no, k, d) /\ Taken(k, d) >= Taken(k, c)
        /\ (k.call = "connect" => d.rx = <<>> /\ ~d.fin /\ ~d.need_ack) /\ Len(d.rx) <= RxRoom
    <3>1. CASE TakesData(c, s, d)
      <4>1. Fits(c, s)
        BY <3>1 DEF InOrder, TakesData
      <4>2. /\ FlowTold(Other(m), ko, co, no, k, d) /\ Taken(k, d) = Taken(k, c) + 1
            /\ k.call # "connect" /\ Len(d.rx) <= RxRoom
        BY <3>1, <4>1, DataTaken
      <4> QED BY <1>1, <4>2
    <3>2. CASE TakesFin(c, s, d)
      <4>1. /\ FlowTold(Other(m), ko, co, no, k, d) /\ Taken(k, d) = Taken(k, c)
            /\ k.call # "connect" /\ Len(d.rx) <= RxRoom
        BY <3>2, FinTaken
      <4> QED BY <1>1, <4>1
    <3>3. CASE TakesNothing(c, d)
      <4>1. FlowTold(Other(m), ko, co, no, k, d) /\ Taken(k, d) = Taken(k, c)
        BY <3>3, FlowKept DEF TakesNothing
      <4>2. k.call = "connect" => d.rx = <<>> /\ ~d.fin /\ ~d.need_ack
        <5> SUFFICES ASSUME k.call = "connect"
                     PROVE  d.rx = <<>> /\ ~d.fin /\ ~d.need_ack
          OBVIOUS
        <5>1. "SYN" \in s.flags
          BY DEF Ordered, Joined, Early, SegTold
        <5>2. s.data = <<>> /\ "FIN" \notin s.flags
          BY <5>1 DEF SegTold
        <5>3. d.need_ack = c.need_ack
          BY <2>1, <5>2
        <5> QED BY <3>3, <5>3 DEF EndTold, TakesNothing
      <4> QED BY <1>0, <1>1, <3>3, <4>1, <4>2 DEF TakesNothing
    <3> QED BY <2>1, <3>1, <3>2, <3>3
  <2>4. EndTold(m, k, d, n)
    BY <2>1, <2>3, EndKept
  <2> QED BY <2>1, <2>2, <2>3, <2>4 DEF d
<1> QED BY <1>2, <1>3

-----------------------------------------------------------------------------
(* What a step of one end leaves true of segments that are on their way    *)

Later(k, c, n, k2, c2, n2) ==
  /\ k2.sent >= k.sent /\ n2 >= n /\ (Joined(k) => Joined(k2) /\ n2 = n)
  /\ k.call = "closed" => k2.call = "closed" /\ k2.sent = k.sent /\ k2.told = k.told
  /\ k2.call # "closed" => Taken(k2, c2) >= Taken(k, c)
  /\ k.call # "none" => k2.call # "none" \/ Early(k)

LEMMA SenderMoved ==
  ASSUME NEW x \in Machines, NEW k, NEW c, NEW n, NEW k2, NEW c2, NEW n2, NEW ky, NEW ny,
         EndTold(x, k, c, n), EndTold(x, k2, c2, n2), Later(k, c, n, k2, c2, n2), ny \in Nat,
         NEW s, SegTold(s, x, k, c, n, ky, ny)
  PROVE  SegTold(s, x, k2, c2, n2, ky, ny)
<1>1. k \in SockState /\ k2 \in SockState /\ c \in ConnState /\ c2 \in ConnState /\ s \in SegState
      /\ n \in Nat /\ n2 \in Nat
  BY DEF EndTold, SegTold
<1>2. k.sent \in Nat /\ k2.sent \in Nat /\ s.seq \in Nat /\ s.ack \in Nat
      /\ Taken(k, c) \in Nat /\ Taken(k2, c2) \in Nat
  BY <1>1, LengthsAre DEF SockState, SegState
<1>3. "SYN" \in s.flags => s.seq < n2
  BY <1>1, <1>2 DEF SegTold, Later
<1>4. "SYN" \notin s.flags => Joined(k2) /\ "ACK" \in s.flags
  BY DEF SegTold, Later
<1>5. ASSUME s.data # <<>>
      PROVE  "FIN" \notin s.flags
             /\ \E u \in 1 .. k2.sent : s.data = <<Unit(x, 1, u)>> /\ s.seq = n2 + u - 1
  <2>1. PICK u \in 1 .. k.sent : s.data = <<Unit(x, 1, u)>> /\ s.seq = n + u - 1
    BY <1>5 DEF SegTold
  <2>2. Joined(k) /\ "FIN" \notin s.flags
    BY <1>5 DEF SegTold
  <2>3. u \in 1 .. k2.sent /\ n2 = n
    BY <1>2, <2>2 DEF Later
  <2> QED BY <2>1, <2>2, <2>3
<1>6. "FIN" \in s.flags => k2.call = "closed" /\ s.seq = n2 + k2.told /\ k2.sent = k2.told
  BY DEF SegTold, Later, Joined
<1>7. "ACK" \in s.flags /\ k2.call # "closed" /\ ky.call # "closed" => s.ack <= ny + Taken(k2, c2)
  BY <1>2 DEF SegTold, Later
<1> QED BY <1>1, <1>3, <1>4, <1>5, <1>6, <1>7 DEF SegTold

LEMMA ReceiverMoved ==
  ASSUME NEW x \in Machines, NEW kx, NEW cx, NEW nx, NEW k, NEW n, NEW k2, NEW n2,
         n \in Nat, n2 \in Nat, n2 >= n, k.call = "closed" => k2.call = "closed",
         EndTold(x, kx, cx, nx), NEW s, SegTold(s, x, kx, cx, nx, k, n)
  PROVE  SegTold(s, x, kx, cx, nx, k2, n2)
<1>1. kx \in SockState /\ cx \in ConnState /\ s \in SegState
  BY DEF EndTold, SegTold
<1>2. s.ack \in Nat /\ Taken(kx, cx) \in Nat
  BY <1>1, LengthsAre DEF SegState
<1>3. "ACK" \in s.flags /\ kx.call # "closed" /\ k2.call # "closed" => s.ack <= n2 + Taken(kx, cx)
  <2> SUFFICES ASSUME "ACK" \in s.flags, kx.call # "closed", k2.call # "closed"
               PROVE  s.ack <= n2 + Taken(kx, cx)
    OBVIOUS
  <2>1. s.ack <= n + Taken(kx, cx)
    BY DEF SegTold
  <2> QED BY <2>1, <1>2
<1> QED BY <1>3 DEF SegTold

\* The connections that wait do not mind what the client does next.
LEMMA QueueKept ==
  ASSUME NEW ps, NEW kc, NEW cc, NEW nc, NEW kc2, NEW cc2, NEW nc2, NEW ks, NEW ns,
         QueueTold(ps, kc, ks, ns), Later(kc, cc, nc, kc2, cc2, nc2),
         EndTold("client", kc, cc, nc), EndTold("client", kc2, cc2, nc2)
  PROVE  QueueTold(ps, kc2, ks, ns)
<1>1. kc.sent \in Nat /\ kc2.sent \in Nat /\ kc2.sent >= kc.sent
  BY DEF EndTold, SockState, Later
<1>2. ASSUME NEW i \in PendingSlots, WaitsTold(ps[i], kc, ns), ps[i] \in PendingState
      PROVE  WaitsTold(ps[i], kc2, ns)
  <2>1. Len(ps[i].rx) \in Nat
    <3> DEFINE q == ps[i].rx
    <3>1. q \in Seq(UnitState)
      BY <1>2 DEF PendingState
    <3> HIDE DEF q
    <3>2. Len(q) \in Nat
      BY <3>1, LenProperties
    <3> QED BY <3>2 DEF q
  <2>2. Len(ps[i].rx) <= kc2.sent
    BY <1>1, <1>2, <2>1 DEF WaitsTold
  <2>3. kc2.call # "none"
    BY <1>2 DEF WaitsTold, Later, Early, EndTold
  <2>4. ps[i].established => ps[i].syn_acked /\ Joined(kc2)
    BY <1>2 DEF WaitsTold, Later
  <2> QED BY <1>2, <2>2, <2>3, <2>4 DEF WaitsTold
<1> QED BY <1>2 DEF QueueTold

-----------------------------------------------------------------------------
(* A step of one machine                                                   *)

LEMMA HostBecomes ==
  ASSUME TcpSockets = 1, ShapeTold, NEW m \in Machines, NEW h2 \in HostState, NEW k2 \in SockState,
         NEW c2, Holder(h2, k2, c2),
         host' = [host EXCEPT ![m] = h2], sock' = [sock EXCEPT ![m] = [@ EXCEPT ![1] = k2]]
  PROVE  /\ ShapeTold' /\ K(m)' = k2 /\ C(m)' = c2 /\ N(m)' = h2.next_port /\ P(m)' = h2.pending
         /\ host'[m] = h2
         /\ \A o \in Machines \ {m} : K(o)' = K(o) /\ C(o)' = C(o) /\ N(o)' = N(o)
                                      /\ P(o)' = P(o) /\ host'[o] = host[o]
<1>1. host \in [Machines -> HostState] /\ sock \in [Machines -> [1 .. 1 -> SockState]]
  BY DEF ShapeTold
<1>2. host' \in [Machines -> HostState] /\ host'[m] = h2
      /\ \A o \in Machines \ {m} : host'[o] = host[o]
  BY <1>1
<1>3. sock' \in [Machines -> [1 .. 1 -> SockState]] /\ sock'[m][1] = k2
      /\ \A o \in Machines \ {m} : sock'[o] = sock[o]
  <2>1. [sock[m] EXCEPT ![1] = k2] \in [1 .. 1 -> SockState] /\ [sock[m] EXCEPT ![1] = k2][1] = k2
    BY <1>1
  <2> QED BY <1>1, <2>1
<1>4. \A o \in Machines \ {m} : K(o)' = K(o) /\ C(o)' = C(o) /\ N(o)' = N(o) /\ P(o)' = P(o)
  BY <1>2, <1>3 DEF K, C, N, P
<1>5. K(m)' = k2 /\ N(m)' = h2.next_port /\ P(m)' = h2.pending
  BY <1>2, <1>3 DEF K, N, P
<1>6. C(m)' = c2
  <2>1. CASE k2.slot = 0
    BY <2>1, <1>5 DEF C, Holder
  <2>2. CASE k2.slot # 0
    <3>1. k2.slot \in TcpSlots
      BY <2>2, RoomsAre DEF SockState, TcpSlots
    <3>2. h2.tcp[k2.slot] = c2
      BY <3>1 DEF Holder
    <3> QED BY <2>2, <3>2, <1>2, <1>5 DEF C
  <2> QED BY <2>1, <2>2
<1>7. \A o \in Machines : Holder(host'[o], K(o)', C(o)')
  <2> TAKE o \in Machines
  <2>1. CASE o = m
    BY <2>1, <1>2, <1>5, <1>6
  <2>2. CASE o # m
    <3>1. Holder(host[o], K(o), C(o))
      BY DEF ShapeTold
    <3> QED BY <2>2, <3>1, <1>2, <1>4
  <2> QED BY <2>1, <2>2
<1>8. ShapeTold'
  BY <1>2, <1>3, <1>7 DEF ShapeTold, Holder
<1> QED BY <1>2, <1>4, <1>5, <1>6, <1>8

\* One end moves: both streams, and what is on the wire, are as they should be.
LEMMA Stepped ==
  ASSUME TcpSockets = 1, TcpInv, NEW m \in Machines, NEW h2 \in HostState, NEW k2 \in SockState,
         NEW c2, Holder(h2, k2, c2),
         host' = [host EXCEPT ![m] = h2], sock' = [sock EXCEPT ![m] = [@ EXCEPT ![1] = k2]],
         EndTold(m, k2, c2, h2.next_port),
         FlowTold(m, k2, c2, h2.next_port, K(Other(m)), C(Other(m))),
         FlowTold(Other(m), K(Other(m)), C(Other(m)), N(Other(m)), k2, c2),
         Later(K(m), C(m), N(m), k2, c2, h2.next_port),
         \A s \in wire' \ wire : SegTold(s, m, k2, c2, h2.next_port, K(Other(m)), N(Other(m))),
         RestTold'
  PROVE  TcpInv'
<1> DEFINE o == Other(m)
           n2 == h2.next_port
<1>1. o \in Machines \ {m} /\ Other(o) = m /\ \A x \in Machines : x = m \/ x = o
  BY DEF Machines, Other
<1>2. ShapeTold /\ EndsTold /\ WireTold
  BY DEF TcpInv
<1>3. /\ ShapeTold' /\ K(m)' = k2 /\ C(m)' = c2 /\ N(m)' = n2
      /\ K(o)' = K(o) /\ C(o)' = C(o) /\ N(o)' = N(o)
  BY ZenonT(40), <1>1, <1>2, HostBecomes
<1>4. EndTold(m, K(m), C(m), N(m)) /\ EndTold(o, K(o), C(o), N(o)) /\ N(o) \in Nat /\ N(m) \in Nat
      /\ n2 \in Nat
  BY <1>1, <1>2, RoomsAre DEF EndsTold, EndTold
<1>5. EndsTold'
  <2>1. EndTold(m, K(m)', C(m)', N(m)') /\ EndTold(o, K(o)', C(o)', N(o)')
    BY <1>3, <1>4
  <2>2. FlowTold(m, K(m)', C(m)', N(m)', K(o)', C(o)')
        /\ FlowTold(o, K(o)', C(o)', N(o)', K(m)', C(m)')
    BY <1>3
  <2>3. ASSUME NEW x \in Machines
        PROVE  EndTold(x, K(x)', C(x)', N(x)')
               /\ FlowTold(x, K(x)', C(x)', N(x)', K(Other(x))', C(Other(x))')
    <3>1. CASE x = m
      BY <3>1, <2>1, <2>2
    <3>2. CASE x = o
      BY <3>2, <1>1, <2>1, <2>2
    <3> QED BY <1>1, <3>1, <3>2
  <2> QED BY <2>3 DEF EndsTold, EndTold, FlowTold
<1>6. WireTold'
  <2>1. ASSUME NEW s \in wire'
        PROVE  s.to \in Machines
               /\ SegTold(s, Other(s.to), K(Other(s.to))', C(Other(s.to))', N(Other(s.to))',
                          K(s.to)', N(s.to)')
    <3>1. CASE s \notin wire
      <4>1. SegTold(s, m, k2, c2, n2, K(o), N(o))
        BY <3>1
      <4>2. s.to = o
        BY <4>1 DEF SegTold
      <4> QED BY <4>1, <4>2, <1>1, <1>3
    <3>2. CASE s \in wire
      <4>1. s.to \in Machines
            /\ SegTold(s, Other(s.to), K(Other(s.to)), C(Other(s.to)), N(Other(s.to)), K(s.to), N(s.to))
        BY <3>2, <1>2 DEF WireTold
      <4>2. CASE s.to = o
        <5>1. SegTold(s, m, K(m), C(m), N(m), K(o), N(o))
          BY <4>1, <4>2, <1>1
        <5>2. SegTold(s, m, k2, c2, n2, K(o), N(o))
          BY <5>1, <1>4, SenderMoved
        <5> QED BY <4>2, <5>2, <1>1, <1>3
      <4>3. CASE s.to = m
        <5>1. SegTold(s, o, K(o), C(o), N(o), K(m), N(m))
          BY <4>1, <4>3
        <5>2. SegTold(s, o, K(o), C(o), N(o), k2, n2)
          BY <5>1, <1>1, <1>4, ReceiverMoved DEF Later
        <5> QED BY <4>3, <5>2, <1>3
      <4> QED BY <4>1, <4>2, <4>3, <1>1
    <3> QED BY <3>1, <3>2
  <2> QED BY <2>1 DEF WireTold, SegTold
<1> QED BY <1>3, <1>5, <1>6 DEF TcpInv

LEMMA InvFacts ==
  ASSUME TcpInv, NEW m \in Machines
  PROVE  /\ ShapeTold /\ host[m] \in HostState /\ K(m) \in SockState /\ C(m) \in ConnState
         /\ Holder(host[m], K(m), C(m)) /\ Other(m) \in Machines
         /\ EndTold(m, K(m), C(m), N(m)) /\ EndTold(Other(m), K(Other(m)), C(Other(m)), N(Other(m)))
         /\ FlowTold(m, K(m), C(m), N(m), K(Other(m)), C(Other(m)))
         /\ FlowTold(Other(m), K(Other(m)), C(Other(m)), N(Other(m)), K(m), C(m))
<1>1. host[m] \in HostState /\ Holder(host[m], K(m), C(m))
  BY DEF TcpInv, ShapeTold
<1>2. Other(m) \in Machines /\ Other(Other(m)) = m
  BY MachinesAre
<1>3. EndTold(m, K(m), C(m), N(m)) /\ EndTold(Other(m), K(Other(m)), C(Other(m)), N(Other(m)))
      /\ FlowTold(m, K(m), C(m), N(m), K(Other(m)), C(Other(m)))
  BY <1>2 DEF TcpInv, EndsTold
<1>4. FlowTold(Other(m), K(Other(m)), C(Other(m)), N(Other(m)), K(m), C(m))
  <2>1. FlowTold(Other(m), K(Other(m)), C(Other(m)), N(Other(m)), K(Other(Other(m))), C(Other(Other(m))))
    BY <1>2 DEF TcpInv, EndsTold
  <2> QED BY <2>1, <1>2
<1>5. K(m) \in SockState /\ C(m) \in ConnState
  BY <1>3 DEF EndTold
<1> QED BY <1>1, <1>2, <1>3, <1>4, <1>5 DEF TcpInv

\* A step of an end that has a slot, and that leaves the queue alone.
LEMMA Acted ==
  ASSUME TcpSockets = 1, TcpInv, NEW m \in Machines, NEW h2 \in HostState, NEW k2 \in SockState,
         NEW c2, Holder(h2, k2, c2), Live(K(m)), k2.call = K(m).call \/ Joined(k2),
         h2.pending = P(m), h2.next_port = N(m), h2.listening = host[m].listening,
         host' = [host EXCEPT ![m] = h2], sock' = [sock EXCEPT ![m] = [@ EXCEPT ![1] = k2]],
         EndTold(m, k2, c2, N(m)),
         FlowTold(m, k2, c2, N(m), K(Other(m)), C(Other(m))),
         FlowTold(Other(m), K(Other(m)), C(Other(m)), N(Other(m)), k2, c2),
         Later(K(m), C(m), N(m), k2, c2, N(m)),
         \A s \in wire' \ wire : SegTold(s, m, k2, c2, N(m), K(Other(m)), N(Other(m)))
  PROVE  TcpInv'
<1>1. /\ K(m)' = k2 /\ C(m)' = c2 /\ N(m)' = N(m) /\ P(m)' = P(m) /\ host'[m] = h2
      /\ \A o \in Machines \ {m} : K(o)' = K(o) /\ C(o)' = C(o) /\ N(o)' = N(o) /\ P(o)' = P(o)
                                   /\ host'[o] = host[o]
  BY HostBecomes, InvFacts
<1>2. RestTold /\ EndTold("client", K("client"), C("client"), N("client"))
  BY InvFacts, MachinesAre DEF TcpInv
<1>3. ASSUME m = "client"
      PROVE  RestTold'
  <2>1. QueueTold(P("server")', K("client")', K("server")', N("server")')
    <3>1. QueueTold(P("server"), k2, K("server"), N("server"))
      BY <1>2, <1>3, QueueKept DEF RestTold
    <3> QED BY <3>1, <1>1, <1>3, MachinesAre
  <2>2. P("client")' = P("client") /\ host'["client"].listening = host["client"].listening
        /\ K("client")'.call # "none" /\ K("server")' = K("server")
    BY <1>1, <1>3, MachinesAre DEF Live, Joined
  <2>3. OrderTold(K("client")', K("server")')
    BY <1>1, <1>2, <1>3, <2>2 DEF RestTold, OrderTold, Joined, Live
  <2> QED BY <1>2, <2>1, <2>2, <2>3 DEF RestTold, QueueTold, WaitsTold, OrderTold
<1>4. ASSUME m = "server"
      PROVE  RestTold'
  <2>1. P("client")' = P("client") /\ host'["client"].listening = host["client"].listening
        /\ K("client")' = K("client") /\ P("server")' = P("server") /\ N("server")' = N("server")
        /\ K("server")' = k2 /\ ~Early(K("server")) /\ ~Early(k2)
    BY <1>1, <1>4, MachinesAre DEF Live, Joined, Early
  <2>2. QueueTold(P("server")', K("client")', K("server")', N("server")')
    BY <2>1, <1>2 DEF RestTold, QueueTold
  <2>3. OrderTold(K("client")', K("server")') /\ K("client")'.call # "none"
    BY <2>1, <1>2 DEF RestTold, OrderTold
  <2> QED BY <1>2, <2>1, <2>2, <2>3 DEF RestTold, QueueTold, WaitsTold, OrderTold
<1>5. RestTold'
  BY <1>3, <1>4 DEF Machines
<1> QED BY <1>5, Stepped

-----------------------------------------------------------------------------
(* Slots, and the segments that find them                                  *)

LEMMA FreeConnIs == FreeConn \in ConnState /\ ~FreeConn.used /\ ~FreeConn.need_ack
                    /\ FreeConn.rx = <<>> /\ Len(FreeConn.rx) = 0 /\ ~FreeConn.connecting
                    /\ ~FreeConn.open
  BY DEF FreeConn, ConnState

LEMMA SlotIs ==
  ASSUME NEW m, NEW k, NEW c, NEW n, EndTold(m, k, c, n)
  PROVE  /\ k.slot \in TcpSlots <=> Live(k)
         /\ k.slot = 0 <=> ~Live(k)
  BY RoomsAre DEF EndTold, SockState, TcpSlots

\* The connection in the slot changes.
LEMMA Placed ==
  ASSUME NEW h \in HostState, NEW k, NEW c, Holder(h, k, c), k.slot \in TcpSlots,
         NEW d \in ConnState
  PROVE  LET h2 == WithConn(h, k.slot, d) IN
         /\ h2 \in HostState /\ h2.pending = h.pending /\ h2.next_port = h.next_port
         /\ h2.listening = h.listening
         /\ \A k2 : k2.slot = k.slot => Holder(h2, k2, d)
         /\ \A k2 : k2.slot = 0 /\ d = FreeConn => Holder(h2, k2, d)
         /\ h.tcp[k.slot] = c
<1> DEFINE h2 == WithConn(h, k.slot, d)
           t2 == [h.tcp EXCEPT ![k.slot] = d]
<1>0. k.slot # 0 /\ 0 \notin TcpSlots
  BY RoomsAre DEF TcpSlots
<1>1. h.tcp \in [TcpSlots -> ConnState]
  BY DEF HostState
<1>2. t2 \in [TcpSlots -> ConnState] /\ t2[k.slot] = d
      /\ \A i \in TcpSlots : i # k.slot => t2[i] = h.tcp[i]
  BY <1>1
<1>3. h2 = [h EXCEPT !.tcp = t2]
  BY DEF WithConn
<1> HIDE DEF t2, h2
<1>4. h2 \in HostState /\ h2.pending = h.pending /\ h2.next_port = h.next_port
      /\ h2.listening = h.listening /\ h2.tcp = t2
  BY <1>2, <1>3 DEF HostState
<1>5. \A i \in TcpSlots : h.tcp[i] = IF i = k.slot THEN c ELSE FreeConn
  BY DEF Holder
<1>6. \A i \in TcpSlots : h2.tcp[i] = IF i = k.slot THEN d ELSE FreeConn
  BY <1>2, <1>4, <1>5
<1>7. \A k2 : k2.slot = k.slot => Holder(h2, k2, d)
  BY <1>0, <1>6 DEF Holder
<1>8. \A k2 : k2.slot = 0 /\ d = FreeConn => Holder(h2, k2, d)
  BY <1>0, <1>6 DEF Holder
<1> QED BY <1>4, <1>5, <1>7, <1>8 DEF h2

LEMMA LowestOfOne == ASSUME NEW i \in Nat PROVE Lowest({i}) = i
  BY DEF Lowest

LEMMA DispatchedTo ==
  ASSUME NEW m, NEW h \in HostState, NEW k, NEW c, NEW n, Holder(h, k, c), EndTold(m, k, c, n),
         NEW s, s.dport = Own(m)
  PROVE  tcp_dispatch_cb(h, s) = IF Live(k) THEN WithConn(h, k.slot, Dispatched(c, s)) ELSE h
<1> DEFINE found == {i \in TcpSlots : h.tcp[i].used /\ h.tcp[i].sport = s.dport}
<1>1. \A i \in TcpSlots : h.tcp[i] = IF i = k.slot THEN c ELSE FreeConn
  BY DEF Holder
<1>2. tcp_dispatch_cb(h, s) = IF found = {} THEN h
        ELSE WithConn(h, Lowest(found), Dispatched(h.tcp[Lowest(found)], s))
  BY DEF tcp_dispatch_cb
<1>3. CASE Live(k)
  <2>1. k.slot \in TcpSlots /\ c.used /\ c.sport = Own(m)
    BY <1>3, SlotIs DEF EndTold
  <2>2. found = {k.slot}
    BY <1>1, <2>1, FreeConnIs
  <2>3. k.slot \in Nat
    BY <2>1, RoomsAre DEF TcpSlots
  <2>4. Lowest(found) = k.slot
    BY <2>2, <2>3, LowestOfOne
  <2>5. h.tcp[k.slot] = c
    BY <1>1, <2>1
  <2> HIDE DEF found
  <2> QED BY <1>2, <1>3, <2>2, <2>4, <2>5
<1>4. CASE ~Live(k)
  <2>1. k.slot \notin TcpSlots
    BY <1>4, SlotIs
  <2>2. found = {}
    BY <1>1, <2>1, FreeConnIs
  <2> QED BY <1>2, <1>4, <2>2
<1> QED BY <1>3, <1>4

\* The acknowledgements that one machine owes.
Paid(c) == [c EXCEPT !.need_ack = FALSE]

LEMMA PaidIs ==
  ASSUME NEW c \in ConnState
  PROVE  LET d == Paid(c) IN
         /\ d \in ConnState /\ SameConn(c, d) /\ TakesNothing(c, d) /\ d.acked = c.acked
         /\ ~d.need_ack
  BY DEF Paid, ConnState, SameConn, TakesNothing

LEMMA PaidFree == Paid(FreeConn) = FreeConn
<1> DEFINE f == FreeConn
           d == Paid(f)
<1>1. f \in ConnState /\ d \in ConnState /\ f.need_ack = FALSE /\ d.need_ack = FALSE
  BY FreeConnIs, PaidIs DEF FreeConn, ConnState
<1>2. /\ d.used = f.used /\ d.open = f.open /\ d.connecting = f.connecting /\ d.synack = f.synack
      /\ d.rst = f.rst /\ d.fin = f.fin /\ d.acked = f.acked /\ d.want_ack = f.want_ack
      /\ d.sport = f.sport /\ d.dport = f.dport /\ d.seq = f.seq /\ d.ack = f.ack /\ d.rx = f.rx
  <2> HIDE DEF f
  <2> QED BY <1>1 DEF Paid, ConnState
<1> HIDE DEF d, f
<1>3. d = f
  BY <1>1, <1>2 DEF ConnState
<1> QED BY <1>3 DEF d, f

LEMMA Drained ==
  ASSUME NEW m, NEW h \in HostState, NEW k, NEW c, NEW n, Holder(h, k, c), EndTold(m, k, c, n)
  PROVE  LET h2 == [h EXCEPT !.tcp = [i \in TcpSlots |-> [@[i] EXCEPT !.need_ack = FALSE]]] IN
         /\ h2 \in HostState /\ h2.pending = h.pending /\ h2.next_port = h.next_port
         /\ h2.listening = h.listening /\ Holder(h2, k, Paid(c))
         /\ Owing(h) = IF c.need_ack THEN {k.slot} ELSE {}
         /\ c.need_ack => Live(k) /\ h.tcp[k.slot] = c
<1> DEFINE t2 == [i \in TcpSlots |-> Paid(h.tcp[i])]
           h2 == [h EXCEPT !.tcp = t2]
<1>1. \A i \in TcpSlots : h.tcp[i] = IF i = k.slot THEN c ELSE FreeConn
  BY DEF Holder
<1>2. h.tcp \in [TcpSlots -> ConnState] /\ c \in ConnState /\ (~Live(k) => c = FreeConn)
  BY SlotIs DEF HostState, EndTold, Holder
<1>3. t2 \in [TcpSlots -> ConnState]
  BY <1>2, PaidIs
<1>4. Paid(FreeConn) = FreeConn
  BY PaidFree
<1>5. \A i \in TcpSlots : t2[i] = IF i = k.slot THEN Paid(c) ELSE FreeConn
  BY <1>1, <1>4
<1>6. [h EXCEPT !.tcp = [i \in TcpSlots |-> [@[i] EXCEPT !.need_ack = FALSE]]] = h2
  BY DEF Paid
<1> HIDE DEF t2
<1>7. h2 \in HostState /\ h2.pending = h.pending /\ h2.next_port = h.next_port
      /\ h2.listening = h.listening /\ h2.tcp = t2
  BY <1>3 DEF HostState
<1>8. Holder(h2, k, Paid(c))
  BY <1>2, <1>4, <1>5, <1>7, SlotIs DEF Holder
<1>9. c.need_ack => Live(k) /\ k.slot \in TcpSlots /\ c.used
  BY <1>2, FreeConnIs, SlotIs DEF EndTold
<1>10. Owing(h) = IF c.need_ack THEN {k.slot} ELSE {}
  BY <1>1, <1>9, FreeConnIs DEF Owing
<1> QED BY <1>1, <1>6, <1>7, <1>8, <1>9, <1>10

-----------------------------------------------------------------------------
(* Polling                                                                 *)

LEMMA SockKept ==
  ASSUME TcpSockets = 1, TcpInv, NEW m \in Machines
  PROVE  sock = [sock EXCEPT ![m] = [@ EXCEPT ![1] = K(m)]]
<1>1. sock \in [Machines -> [1 .. 1 -> SockState]]
  BY DEF TcpInv, ShapeTold
<1> QED BY <1>1 DEF K

LEMMA ArrivedTold ==
  ASSUME TcpInv, NEW m \in Machines, NEW s \in Arrived(m)
  PROVE  /\ SegTold(s, Other(m), K(Other(m)), C(Other(m)), N(Other(m)), K(m), N(m))
         /\ s.dport = Own(m) /\ s.sport = Far(m)
<1>1. s \in wire /\ s.to = m
  BY DEF Arrived
<1>2. SegTold(s, Other(m), K(Other(m)), C(Other(m)), N(Other(m)), K(m), N(m))
  BY <1>1 DEF TcpInv, WireTold
<1> QED BY <1>2, OwnFar, MachinesAre DEF SegTold

LEMMA ArrivedFits ==
  ASSUME TcpInv, RoomForArrivals, NEW m \in Machines, NEW s \in Arrived(m), Live(K(m)),
         InOrder(C(m), s)
  PROVE  Fits(C(m), s)
<1>0. EndTold(m, K(m), C(m), N(m))
  BY InvFacts
<1>1. K(m).slot \in TcpSlots /\ C(m).used
  BY <1>0, SlotIs DEF EndTold
<1>2. host[m].tcp[K(m).slot] = C(m)
  BY <1>1, InvFacts DEF Holder
<1> QED BY <1>1, <1>2 DEF RoomForArrivals, Fits

LEMMA OrderedEnds ==
  ASSUME TcpInv, NEW m \in Machines
  PROVE  Ordered(K(m), K(Other(m)))
<1>1. K(m).call = "connect" => m = "client"
  BY InvFacts DEF EndTold, Machines
<1>2. OrderTold(K("client"), K("server"))
  BY DEF TcpInv, RestTold
<1> QED BY <1>1, <1>2, MachinesAre DEF OrderTold, Ordered

\* The same socket, with no less in its stream.
LEMMA LaterSame ==
  ASSUME NEW k, NEW c, NEW n \in Nat, NEW d, k \in SockState, Taken(k, d) >= Taken(k, c)
  PROVE  Later(k, c, n, k, d, n)
  BY DEF Later, SockState

\* The connection of an end that has a slot takes a segment.
LEMMA SlotTakes ==
  ASSUME TcpInv, RoomForArrivals, NEW m \in Machines, NEW s \in Arrived(m), Live(K(m))
  PROVE  LET d == Dispatched(C(m), s)
             h2 == tcp_dispatch_cb(host[m], s) IN
         /\ EndTold(m, K(m), d, N(m))
         /\ FlowTold(Other(m), K(Other(m)), C(Other(m)), N(Other(m)), K(m), d)
         /\ FlowTold(m, K(m), d, N(m), K(Other(m)), C(Other(m)))
         /\ Taken(K(m), d) >= Taken(K(m), C(m))
         /\ h2 \in HostState /\ Holder(h2, K(m), d) /\ h2.pending = P(m)
         /\ h2.next_port = N(m) /\ h2.listening = host[m].listening
<1> DEFINE d == Dispatched(C(m), s)
           h2 == tcp_dispatch_cb(host[m], s)
           k == K(m)
           c == C(m)
           n == N(m)
           ko == K(Other(m))
           co == C(Other(m))
           no == N(Other(m))
<1>1. /\ EndTold(m, k, c, n) /\ EndTold(Other(m), ko, co, no)
      /\ FlowTold(Other(m), ko, co, no, k, c) /\ FlowTold(m, k, c, n, ko, co)
      /\ host[m] \in HostState /\ Holder(host[m], k, c)
  BY InvFacts
<1>2. SegTold(s, Other(m), ko, co, no, k, n) /\ s.dport = Own(m)
  BY ArrivedTold
<1>3. Live(k) /\ Ordered(k, ko) /\ (InOrder(c, s) => Fits(c, s))
  BY OrderedEnds, ArrivedFits
<1>4. k.slot \in TcpSlots
  BY <1>1, <1>3, SlotIs
<1> HIDE DEF k, c, n, ko, co, no, d, h2
<1>5. /\ EndTold(m, k, d, n) /\ FlowTold(Other(m), ko, co, no, k, d)
      /\ FlowTold(m, k, d, n, ko, co) /\ Taken(k, d) >= Taken(k, c)
  BY <1>1, <1>2, <1>3, SegmentTaken DEF d, c
<1>6. h2 = WithConn(host[m], k.slot, d)
  BY <1>1, <1>2, <1>3, DispatchedTo DEF d, h2, c
<1>7. d \in ConnState
  BY <1>5 DEF EndTold
<1>8. /\ h2 \in HostState /\ h2.pending = P(m) /\ h2.next_port = N(m)
      /\ h2.listening = host[m].listening /\ Holder(h2, k, d)
  BY <1>1, <1>4, <1>6, <1>7, Placed DEF P, N
<1> QED BY <1>5, <1>8 DEF k, c, n, ko, co, no, d, h2

LEMMA Unchanged ==
  ASSUME TcpInv, UNCHANGED tcpVars
  PROVE  TcpInv'
<1>1. host' = host /\ sock' = sock /\ wire' = wire
  BY DEF tcpVars
<1>2. \A m : K(m)' = K(m) /\ C(m)' = C(m) /\ N(m)' = N(m) /\ P(m)' = P(m)
  BY <1>1 DEF K, C, N, P
<1>3. ShapeTold'
  BY <1>1, <1>2 DEF TcpInv, ShapeTold, Holder
<1>4. EndsTold'
  <2>1. ASSUME NEW m \in Machines
        PROVE  EndTold(m, K(m)', C(m)', N(m)')
               /\ FlowTold(m, K(m)', C(m)', N(m)', K(Other(m))', C(Other(m))')
    BY <1>2 DEF TcpInv, EndsTold
  <2> QED BY <2>1 DEF EndsTold, EndTold, FlowTold
<1>5. WireTold'
  BY <1>1, <1>2 DEF TcpInv, WireTold, SegTold
<1>6. RestTold'
  BY <1>1, <1>2 DEF TcpInv, RestTold, QueueTold, WaitsTold, OrderTold
<1> QED BY <1>3, <1>4, <1>5, <1>6 DEF TcpInv

LEMMA PumpKeeps ==
  ASSUME TcpSockets = 1, TcpInv, RoomForArrivals, NEW m \in Machines, net_pump(m)
  PROVE  TcpInv'
<1>1. PICK s \in Arrived(m) : host' = [host EXCEPT ![m] = tcp_dispatch_cb(host[m], s)]
  BY DEF net_pump
<1>2. sock' = sock /\ wire' = wire
  BY DEF net_pump
<1>3. CASE Live(K(m))
  <2> DEFINE d == Dispatched(C(m), s)
             h2 == tcp_dispatch_cb(host[m], s)
  <2>1. /\ EndTold(m, K(m), d, N(m))
        /\ FlowTold(Other(m), K(Other(m)), C(Other(m)), N(Other(m)), K(m), d)
        /\ FlowTold(m, K(m), d, N(m), K(Other(m)), C(Other(m)))
        /\ Taken(K(m), d) >= Taken(K(m), C(m))
        /\ h2 \in HostState /\ Holder(h2, K(m), d) /\ h2.pending = P(m)
        /\ h2.next_port = N(m) /\ h2.listening = host[m].listening
    BY <1>3, SlotTakes
  <2> HIDE DEF d, h2
  <2>2. Later(K(m), C(m), N(m), K(m), d, N(m)) /\ K(m) \in SockState
    BY <2>1, InvFacts, LaterSame, RoomsAre DEF EndTold
  <2>3. host' = [host EXCEPT ![m] = h2] /\ sock' = [sock EXCEPT ![m] = [@ EXCEPT ![1] = K(m)]]
    BY <1>1, <1>2, SockKept DEF h2
  <2>4. wire' \ wire = {}
    BY <1>2
  <2> QED BY <1>3, <2>1, <2>2, <2>3, <2>4, Acted
<1>4. CASE ~Live(K(m))
  <2>1. tcp_dispatch_cb(host[m], s) = host[m]
    BY <1>4, InvFacts, ArrivedTold, DispatchedTo
  <2>2. host' = host
    BY <1>1, <2>1 DEF TcpInv, ShapeTold
  <2> QED BY <1>2, <2>2, Unchanged DEF tcpVars
<1> QED BY <1>3, <1>4

\* An acknowledgement says what was taken.
LEMMA AckTold ==
  ASSUME NEW m \in Machines, NEW k, NEW c, NEW n, NEW ko, NEW co, NEW no, EndTold(m, k, c, n),
         EndTold(Other(m), ko, co, no), FlowTold(Other(m), ko, co, no, k, c), Live(k), Joined(k)
  PROVE  SegTold(send_tcp(m, c, {"ACK"}, <<>>), m, k, c, n, ko, no)
         /\ (ko.call # "closed" => c.ack <= no + Taken(k, c))
<1> DEFINE s == send_tcp(m, c, {"ACK"}, <<>>)
<1>1. /\ k \in SockState /\ c \in ConnState /\ no \in Nat /\ c.sport = Own(m) /\ c.dport = Far(m)
  BY RoomsAre DEF EndTold
<1>2. s.to = Other(m) /\ s.sport = Own(m) /\ s.dport = Far(m) /\ s.flags = {"ACK"} /\ s.data = <<>>
      /\ s.ack = c.ack /\ s \in SegState
  BY <1>1, MachinesAre DEF send_tcp, Segment, SegState, Flags, ConnState
<1>3. Taken(k, c) \in Nat /\ c.ack \in Nat
  BY <1>1, LengthsAre DEF ConnState
<1>4. ko.call # "closed" => c.ack <= no + Taken(k, c)
  BY <1>1, <1>3 DEF FlowTold
<1> HIDE DEF s
<1>5. SegTold(s, m, k, c, n, ko, no)
  BY <1>2, <1>4 DEF SegTold
<1> QED BY <1>4, <1>5 DEF s

LEMMA SegSame ==
  ASSUME NEW s, NEW m, NEW k, NEW c, NEW n, NEW ko, NEW no, NEW d, Taken(k, d) = Taken(k, c),
         SegTold(s, m, k, c, n, ko, no)
  PROVE  SegTold(s, m, k, d, n, ko, no)
  BY DEF SegTold

\* What an end owes is sent.
LEMMA DrainKeeps ==
  ASSUME TcpSockets = 1, TcpInv, NEW m \in Machines, Live(K(m)), NEW c, NEW h \in HostState,
         Holder(h, K(m), c), h.pending = P(m), h.next_port = N(m),
         h.listening = host[m].listening, EndTold(m, K(m), c, N(m)),
         FlowTold(m, K(m), c, N(m), K(Other(m)), C(Other(m))),
         FlowTold(Other(m), K(Other(m)), C(Other(m)), N(Other(m)), K(m), c),
         Taken(K(m), c) >= Taken(K(m), C(m)), tcp_drain_acks(m, h), UNCHANGED sock
  PROVE  TcpInv'
<1> DEFINE h2 == [h EXCEPT !.tcp = [i \in TcpSlots |-> [@[i] EXCEPT !.need_ack = FALSE]]]
           d == Paid(c)
           k == K(m)
<1>1. /\ h2 \in HostState /\ h2.pending = h.pending /\ h2.next_port = h.next_port
      /\ h2.listening = h.listening /\ Holder(h2, k, d)
      /\ Owing(h) = IF c.need_ack THEN {k.slot} ELSE {}
      /\ c.need_ack => Live(k) /\ h.tcp[k.slot] = c
  BY Drained
<1>2. host' = [host EXCEPT ![m] = h2]
  BY DEF tcp_drain_acks
<1>3. c \in ConnState
  BY DEF EndTold
<1>4. d \in ConnState /\ SameConn(c, d) /\ TakesNothing(c, d) /\ d.acked = c.acked /\ ~d.need_ack
  BY <1>3, PaidIs
<1> HIDE DEF h2, d
<1>5. /\ FlowTold(Other(m), K(Other(m)), C(Other(m)), N(Other(m)), k, d)
      /\ Taken(k, d) = Taken(k, c)
  BY <1>4, FlowKept DEF TakesNothing
<1>6. FlowTold(m, k, d, N(m), K(Other(m)), C(Other(m)))
  BY <1>4 DEF FlowTold
<1>7. EndTold(m, k, d, N(m))
  <2>1. Len(d.rx) <= RxRoom /\ (k.call = "connect" => d.rx = <<>> /\ ~d.fin /\ ~d.need_ack)
    BY <1>4 DEF EndTold, TakesNothing
  <2> QED BY <2>1, <1>4, EndKept
<1>8. Later(k, C(m), N(m), k, d, N(m)) /\ k \in SockState
  BY <1>5, InvFacts, LaterSame, RoomsAre DEF EndTold
<1>9. ASSUME NEW s \in wire' \ wire
      PROVE  SegTold(s, m, k, d, N(m), K(Other(m)), N(Other(m)))
  <2>1. s \in {send_tcp(m, h.tcp[i], {"ACK"}, <<>>) : i \in Owing(h)}
    BY <1>9 DEF tcp_drain_acks
  <2>2. c.need_ack /\ s = send_tcp(m, c, {"ACK"}, <<>>)
    BY <2>1, <1>1
  <2>3. Joined(k)
    BY <2>2 DEF EndTold, Live, Joined
  <2>4. SegTold(s, m, k, c, N(m), K(Other(m)), N(Other(m)))
    BY <2>2, <2>3, AckTold, InvFacts
  <2> QED BY <2>4, <1>5, SegSame
<1>10. sock' = [sock EXCEPT ![m] = [@ EXCEPT ![1] = k]]
  BY SockKept
<1> QED BY <1>1, <1>2, <1>5, <1>6, <1>7, <1>8, <1>9, <1>10, Acted

LEMMA PollKeeps ==
  ASSUME TcpSockets = 1, TcpInv, RoomForArrivals, NEW m \in Machines, Live(K(m)), PollRound(m)
  PROVE  TcpInv'
<1>1. CASE tcp_drain_acks(m, host[m])
  <2>0. Taken(K(m), C(m)) \in Nat
    BY InvFacts, LengthsAre
  <2>1. Taken(K(m), C(m)) >= Taken(K(m), C(m))
    BY <2>0
  <2> QED BY <1>1, <2>1, InvFacts, DrainKeeps DEF PollRound, P, N
<1>2. ASSUME NEW s \in Arrived(m), tcp_drain_acks(m, tcp_dispatch_cb(host[m], s))
      PROVE  TcpInv'
  <2> DEFINE d == Dispatched(C(m), s)
             h2 == tcp_dispatch_cb(host[m], s)
  <2>1. /\ EndTold(m, K(m), d, N(m))
        /\ FlowTold(Other(m), K(Other(m)), C(Other(m)), N(Other(m)), K(m), d)
        /\ FlowTold(m, K(m), d, N(m), K(Other(m)), C(Other(m)))
        /\ Taken(K(m), d) >= Taken(K(m), C(m))
        /\ h2 \in HostState /\ Holder(h2, K(m), d) /\ h2.pending = P(m)
        /\ h2.next_port = N(m) /\ h2.listening = host[m].listening
    BY SlotTakes
  <2>2. tcp_drain_acks(m, h2) /\ UNCHANGED sock
    BY <1>2 DEF PollRound
  <2> HIDE DEF d, h2
  <2> QED BY <2>1, <2>2, DrainKeeps
<1> QED BY <1>1, <1>2 DEF PollRound

-----------------------------------------------------------------------------
(* The calls of a program                                                  *)

\* A call changes the socket and its connection, in its slot or out of it.
LEMMA InPlace ==
  ASSUME TcpSockets = 1, TcpInv, NEW m \in Machines, Live(K(m)), NEW k2 \in SockState,
         NEW c2 \in ConnState, k2.slot = K(m).slot \/ (k2.slot = 0 /\ c2 = FreeConn),
         k2.call = K(m).call \/ Joined(k2),
         host' = [host EXCEPT ![m] = WithConn(@, K(m).slot, c2)],
         sock' = [sock EXCEPT ![m] = [@ EXCEPT ![1] = k2]],
         EndTold(m, k2, c2, N(m)),
         FlowTold(m, k2, c2, N(m), K(Other(m)), C(Other(m))),
         FlowTold(Other(m), K(Other(m)), C(Other(m)), N(Other(m)), k2, c2),
         Later(K(m), C(m), N(m), k2, c2, N(m)),
         \A s \in wire' \ wire : SegTold(s, m, k2, c2, N(m), K(Other(m)), N(Other(m)))
  PROVE  TcpInv'
<1> DEFINE h2 == WithConn(host[m], K(m).slot, c2)
<1>1. host[m] \in HostState /\ Holder(host[m], K(m), C(m)) /\ EndTold(m, K(m), C(m), N(m))
  BY InvFacts
<1>2. K(m).slot \in TcpSlots
  BY <1>1, SlotIs
<1>3. /\ h2 \in HostState /\ h2.pending = host[m].pending /\ h2.next_port = host[m].next_port
      /\ h2.listening = host[m].listening /\ Holder(h2, k2, c2)
  BY <1>1, <1>2, Placed
<1> HIDE DEF h2
<1>4. host' = [host EXCEPT ![m] = h2]
  BY DEF h2
<1> QED BY <1>3, <1>4, Acted DEF P, N

\* What a live end knows of its slot.
LEMMA LiveIs ==
  ASSUME TcpSockets = 1, TcpInv, NEW m \in Machines, Live(K(m))
  PROVE  /\ Conn(m, 1) = C(m) /\ C(m) \in ConnState /\ K(m) \in SockState
         /\ K(m).slot \in TcpSlots /\ K(m).slot # 0 /\ K(m).port = 1
         /\ host[m].tcp[K(m).slot] = C(m) /\ sock[m][1] = K(m) /\ N(m) \in Nat
<1>1. EndTold(m, K(m), C(m), N(m)) /\ Holder(host[m], K(m), C(m))
  BY InvFacts
<1>2. K(m).slot \in TcpSlots /\ K(m).slot # 0
  BY <1>1, SlotIs
<1>3. K(m).port = 1
  BY <1>1 DEF EndTold, Live, Early
<1>4. C(m) \in ConnState /\ K(m) \in SockState /\ N(m) \in Nat
  BY <1>1, RoomsAre DEF EndTold
<1> QED BY <1>1, <1>2, <1>3, <1>4 DEF Holder, Conn, C, K

LEMMA FinishKeeps ==
  ASSUME TcpSockets = 1, TcpInv, net_tcp_finish_connect(1)
  PROVE  TcpInv'
<1> DEFINE m == "client"
           k == K(m)
           c == C(m)
           k2 == [k EXCEPT !.call = "idle"]
           c2 == [c EXCEPT !.seq = @ + 1, !.connecting = FALSE, !.open = TRUE]
<1>0. m \in Machines /\ Other(m) = "server"
  BY MachinesAre
<1>1. k.call = "connect" /\ Live(k)
  BY DEF net_tcp_finish_connect, K, Live
<1>2. /\ Conn(m, 1) = c /\ c \in ConnState /\ k \in SockState
      /\ k.slot \in TcpSlots /\ k.slot # 0 /\ k.port = 1 /\ sock[m][1] = k
  BY <1>0, <1>1, LiveIs
<1>3. EndTold(m, k, c, N(m)) /\ FlowTold(m, k, c, N(m), K("server"), C("server"))
      /\ FlowTold("server", K("server"), C("server"), N("server"), k, c)
      /\ EndTold("server", K("server"), C("server"), N("server"))
  BY <1>0, InvFacts
<1>4. /\ host' = [host EXCEPT ![m] = WithConn(@, k.slot, c2)]
      /\ sock' = [sock EXCEPT ![m] = [@ EXCEPT ![1] = k2]]
      /\ wire' = wire \cup {send_tcp(m, c2, {"ACK"}, <<>>)}
  BY <1>2 DEF net_tcp_finish_connect
<1> DEFINE q == c.seq + 1
<1>5. q \in Nat /\ q = 2 /\ c.seq = 1
  BY <1>1, <1>3 DEF EndTold
<1> HIDE DEF k, c, m, q
<1>6. /\ k2 \in SockState /\ k2.call = "idle" /\ k2.slot = k.slot /\ k2.port = k.port
      /\ k2.sent = k.sent /\ k2.told = k.told /\ k2.got = k.got /\ k2.eof = k.eof
  BY <1>2 DEF SockState, Calls
<1>7. /\ c2 \in ConnState /\ c2.seq = 2 /\ c2.connecting = FALSE /\ c2.open = TRUE
      /\ c2.used = c.used /\ c2.sport = c.sport /\ c2.dport = c.dport /\ c2.ack = c.ack
      /\ c2.rx = c.rx /\ c2.fin = c.fin
  <2>1. c2 = [c EXCEPT !.seq = q, !.connecting = FALSE, !.open = TRUE]
    BY DEF q
  <2> QED BY <1>2, <1>5, <2>1 DEF ConnState
<1> HIDE DEF k2, c2
<1>8. EndTold(m, k2, c2, N(m)) /\ Joined(k2) /\ Live(k2)
  BY <1>1, <1>2, <1>3, <1>6, <1>7 DEF EndTold, Joined, Live, Early, m
<1>9. Taken(k2, c2) = Taken(k, c) /\ Taken(k, c) \in Nat
  BY <1>2, <1>6, <1>7, LengthsAre DEF Taken
<1>10. FlowTold(m, k2, c2, N(m), K("server"), C("server"))
  BY <1>1, <1>3, <1>6 DEF FlowTold
<1>11. FlowTold("server", K("server"), C("server"), N("server"), k2, c2)
  BY <1>1, <1>3, <1>6, <1>7, <1>8, <1>9 DEF FlowTold
<1>12. Later(k, c, N(m), k2, c2, N(m))
  BY <1>1, <1>3, <1>6, <1>9 DEF Later, Joined, EndTold, SockState
<1>13. SegTold(send_tcp(m, c2, {"ACK"}, <<>>), m, k2, c2, N(m), K("server"), N("server"))
  BY <1>0, <1>3, <1>8, <1>11, AckTold
<1> QED BY <1>0, <1>1, <1>4, <1>6, <1>7, <1>8, <1>10, <1>11, <1>12, <1>13, InPlace DEF k, c

\* The state of the two ends before a call of one that has a slot.
LEMMA CallStarts ==
  ASSUME TcpSockets = 1, TcpInv, NEW m \in Machines, Live(K(m))
  PROVE  /\ EndTold(m, K(m), C(m), N(m)) /\ EndTold(Other(m), K(Other(m)), C(Other(m)), N(Other(m)))
         /\ FlowTold(m, K(m), C(m), N(m), K(Other(m)), C(Other(m)))
         /\ FlowTold(Other(m), K(Other(m)), C(Other(m)), N(Other(m)), K(m), C(m))
         /\ Taken(K(m), C(m)) \in Nat /\ Taken(K(Other(m)), C(Other(m))) \in Nat
         /\ K(m).sent \in Nat /\ K(m).told \in Nat /\ C(m).seq \in Nat
<1>1. /\ EndTold(m, K(m), C(m), N(m)) /\ EndTold(Other(m), K(Other(m)), C(Other(m)), N(Other(m)))
      /\ FlowTold(m, K(m), C(m), N(m), K(Other(m)), C(Other(m)))
      /\ FlowTold(Other(m), K(Other(m)), C(Other(m)), N(Other(m)), K(m), C(m))
  BY InvFacts
<1>2. K(m) \in SockState /\ C(m) \in ConnState /\ K(Other(m)) \in SockState
      /\ C(Other(m)) \in ConnState
  BY <1>1 DEF EndTold
<1> QED BY <1>1, <1>2, LengthsAre DEF SockState, ConnState

\* The slot is given back: by a connect that fails, or by close.
LEMMA FreedKeeps ==
  ASSUME TcpSockets = 1, TcpInv, NEW m \in Machines, Live(K(m)),
         NEW k2, k2 = [K(m) EXCEPT !.call = "closed", !.slot = 0],
         host' = [host EXCEPT ![m] = WithConn(@, K(m).slot, FreeConn)],
         sock' = [sock EXCEPT ![m] = [@ EXCEPT ![1] = k2]],
         \A s \in wire' \ wire : SegTold(s, m, k2, FreeConn, N(m), K(Other(m)), N(Other(m)))
  PROVE  TcpInv'
<1> DEFINE k == K(m)
           c == C(m)
           f == FreeConn
           o == Other(m)
           ko == K(Other(m))
           co == C(Other(m))
<1>1. /\ EndTold(m, k, c, N(m)) /\ EndTold(o, ko, co, N(o)) /\ FlowTold(m, k, c, N(m), ko, co)
      /\ FlowTold(o, ko, co, N(o), k, c) /\ k.sent \in Nat /\ k.told \in Nat
      /\ k.port = 1 /\ k \in SockState /\ c \in ConnState /\ o \in Machines
      /\ Live(k) /\ ko \in SockState
  BY CallStarts, LiveIs, MachinesAre DEF EndTold
<1>2. f \in ConnState /\ f.rx = <<>> /\ ~f.connecting /\ ~f.open /\ Len(f.rx) = 0
  BY FreeConnIs
<1>3. K(m).slot = k.slot
  OBVIOUS
<1> HIDE DEF k, c, f, o, ko, co
<1>4. k2 = [k EXCEPT !.call = "closed", !.slot = 0]
  BY DEF k
<1>5. /\ k2 \in SockState /\ k2.call = "closed" /\ k2.slot = 0 /\ k2.port = 1
      /\ k2.sent = k.sent /\ k2.told = k.told /\ k2.got = k.got /\ k2.eof = k.eof
  <2>1. 0 \in 0 .. TcpConns
    BY RoomsAre
  <2>2. k \in SockState /\ k.port = 1
    BY <1>1
  <2> QED BY <1>4, <2>1, <2>2 DEF SockState, Calls
<1>6. EndTold(m, k2, f, N(m)) /\ Joined(k2) /\ ~Live(k2)
  BY SMTT(40), <1>1, <1>2, <1>5, RoomsAre DEF EndTold, Joined, Live, Early
<1>7. FlowTold(m, k2, f, N(m), ko, co)
  BY <1>1, <1>5 DEF FlowTold, Live
<1>8. k.got \in Seq(UnitState) /\ c.rx \in Seq(UnitState) /\ Len(k.got) \in Nat /\ Len(c.rx) \in Nat
      /\ Taken(k, c) = Len(k.got) + Len(c.rx)
  BY <1>1, LengthsAre
<1>9. Taken(k2, f) = Len(k.got)
  <2> DEFINE l == Len(k.got)
  <2>1. l + 0 = l
    BY <1>8
  <2> QED BY <2>1, <1>2, <1>5 DEF Taken
<1>10. k.got = Units(o, Len(k.got))
  <2> DEFINE g == k.got
             r == c.rx
             u == Units(o, Taken(k, c))
             v == Units(o, Len(g))
  <2>1. g \o r = u /\ g \in Seq(UnitState) /\ r \in Seq(UnitState) /\ Len(g) \in Nat
        /\ Len(g) <= Taken(k, c) /\ Taken(k, c) \in Nat
    <3> DEFINE a == Len(k.got)
               b == Len(c.rx)
               t == Taken(k, c)
    <3>1. a \in Nat /\ b \in Nat /\ t = a + b
      BY <1>8
    <3> HIDE DEF a, b, t
    <3>2. t \in Nat /\ a <= t
      BY <3>1
    <3>3. g \o r = u
      BY <1>1 DEF FlowTold
    <3> QED BY <1>8, <3>2, <3>3 DEF a, b, t
  <2>2. /\ v \in Seq(UnitState) /\ Len(v) = Len(g) /\ \A j \in 1 .. Len(g) : v[j] = Unit(o, 1, j)
        /\ \A j \in 1 .. Taken(k, c) : u[j] = Unit(o, 1, j)
    BY <1>1, <2>1, UnitsAre
  <2> HIDE DEF g, r, u, v
  <2>3. \A j \in 1 .. Len(g) : g[j] = (g \o r)[j]
    BY <2>1
  <2>4. \A j \in 1 .. Len(g) : g[j] = v[j]
    BY <2>1, <2>2, <2>3
  <2>5. g = v
    BY <2>1, <2>2, <2>4, SeqEqual
  <2> QED BY <2>5 DEF g, v
<1>11. FlowTold(o, ko, co, N(o), k2, f)
  <2>1. k2.got \o f.rx = Units(o, Taken(k2, f))
    BY <1>2, <1>5, <1>8, <1>9, <1>10, StreamGrows
  <2>2. Taken(k2, f) <= ko.sent
    <3>1. Taken(k, c) <= ko.sent /\ ko.sent \in Nat
      BY <1>1 DEF FlowTold, SockState
    <3> DEFINE a == Len(k.got)
               b == Len(c.rx)
    <3>2. a \in Nat /\ b \in Nat /\ a + b <= ko.sent /\ Taken(k2, f) = a
      BY <3>1, <1>8, <1>9
    <3> HIDE DEF a, b
    <3> QED BY <3>1, <3>2
  <2> QED BY <1>1, <1>5, <1>6, <2>1, <2>2 DEF FlowTold
<1>12. Later(k, c, N(m), k2, f, N(m))
  BY <1>1, <1>5, <1>6, RoomsAre DEF Later, Live, EndTold
<1> QED BY <1>2, <1>5, <1>6, <1>7, <1>11, <1>12, InPlace DEF k, c, f, o, ko, co

LEMMA ConnectFailsKeeps ==
  ASSUME TcpSockets = 1, TcpInv, ConnectFails(1)
  PROVE  TcpInv'
<1> DEFINE m == "client"
           k2 == [K(m) EXCEPT !.call = "closed", !.slot = 0]
<1>0. m \in Machines
  BY MachinesAre
<1>1. K(m).call = "connect" /\ Live(K(m))
  BY DEF ConnectFails, K, Live
<1>2. sock[m][1] = K(m)
  BY <1>0, <1>1, LiveIs
<1>3. host' = [host EXCEPT ![m] = WithConn(@, K(m).slot, FreeConn)]
  BY <1>2 DEF ConnectFails, WithConn, tcp_conn_free
<1>4. sock' = [sock EXCEPT ![m] = [@ EXCEPT ![1] = k2]] /\ wire' \ wire = {}
  BY <1>2 DEF ConnectFails
<1> QED BY <1>0, <1>1, <1>3, <1>4, FreedKeeps

LEMMA CloseKeeps ==
  ASSUME TcpSockets = 1, TcpInv, NEW m \in Machines, net_tcp_close(m, 1)
  PROVE  TcpInv'
<1> DEFINE k == K(m)
           c == C(m)
           k2 == [K(m) EXCEPT !.call = "closed", !.slot = 0]
           s == send_tcp(m, c, {"FIN", "ACK"}, <<>>)
<1>1. k.call = "idle" /\ Live(k) /\ Joined(k)
  BY DEF net_tcp_close, K, Live, Joined
<1>2. Conn(m, 1) = c /\ sock[m][1] = K(m)
  BY <1>1, LiveIs
<1>3. host' = [host EXCEPT ![m] = WithConn(@, K(m).slot, FreeConn)]
  BY <1>2 DEF net_tcp_close, tcp_conn_free
<1>4. sock' = [sock EXCEPT ![m] = [@ EXCEPT ![1] = k2]]
      /\ wire' = IF c.open THEN wire \cup {s} ELSE wire
  BY <1>2 DEF net_tcp_close
<1>5. ASSUME c.open
      PROVE  SegTold(s, m, k2, FreeConn, N(m), K(Other(m)), N(Other(m)))
  <2>1. EndTold(m, k, c, N(m)) /\ k \in SockState /\ c \in ConnState
    BY <1>1, CallStarts DEF EndTold
  <2>2. c.seq = N(m) + k.told /\ k.sent = k.told /\ c.sport = Own(m) /\ c.dport = Far(m)
    BY <1>1, <1>5, <2>1 DEF EndTold
  <2>3. s.to = Other(m) /\ s.sport = Own(m) /\ s.dport = Far(m) /\ s.flags = {"FIN", "ACK"}
        /\ s.data = <<>> /\ s.seq = c.seq /\ s \in SegState
    BY <2>1, <2>2, MachinesAre DEF send_tcp, Segment, SegState, Flags, ConnState
  <2>4. k2.call = "closed" /\ k2.told = k.told /\ k2.sent = k.sent /\ Joined(k2)
    BY <2>1 DEF SockState, Joined
  <2> HIDE DEF s, k2
  <2> QED BY <2>2, <2>3, <2>4 DEF SegTold
<1>6. \A x \in wire' \ wire : SegTold(x, m, k2, FreeConn, N(m), K(Other(m)), N(Other(m)))
  BY <1>4, <1>5
<1> QED BY <1>1, <1>3, <1>4, <1>6, FreedKeeps

\* The unit that an end sends next.
LEMMA DataTold ==
  ASSUME NEW m \in Machines, NEW k, NEW c, NEW n, NEW ko, NEW co, NEW no, EndTold(m, k, c, n),
         EndTold(Other(m), ko, co, no), FlowTold(Other(m), ko, co, no, k, c), k.call = "send"
  PROVE  SegTold(send_tcp(m, c, {"PSH", "ACK"}, <<Unit(m, 1, k.sent)>>), m, k, c, n, ko, no)
<1> DEFINE s == send_tcp(m, c, {"PSH", "ACK"}, <<Unit(m, 1, k.sent)>>)
<1>0. Live(k) /\ Joined(k)
  BY DEF Live, Joined
<1>1. /\ k \in SockState /\ c \in ConnState /\ c.sport = Own(m) /\ c.dport = Far(m)
      /\ c.seq = n + k.told /\ k.sent = k.told + 1 /\ n \in Nat
  BY <1>0, RoomsAre DEF EndTold
<1>2. k.sent \in Nat /\ k.told \in Nat /\ k.sent \in 1 .. k.sent /\ n + k.sent - 1 = c.seq
  BY <1>1 DEF SockState
<1>3. Unit(m, 1, k.sent) \in UnitState
  BY <1>2 DEF Unit, UnitState
<1>4. s.to = Other(m) /\ s.sport = Own(m) /\ s.dport = Far(m) /\ s.flags = {"PSH", "ACK"}
      /\ s.data = <<Unit(m, 1, k.sent)>> /\ s.ack = c.ack /\ s.seq = c.seq /\ s \in SegState
  BY <1>1, <1>3, MachinesAre DEF send_tcp, Segment, SegState, Flags, ConnState
<1>5. ko.call # "closed" => c.ack <= no + Taken(k, c)
  BY <1>0, AckTold
<1> HIDE DEF s
<1>6. SegTold(s, m, k, c, n, ko, no)
  BY <1>0, <1>2, <1>4, <1>5 DEF SegTold
<1> QED BY <1>6 DEF s

LEMMA SendKeeps ==
  ASSUME TcpSockets = 1, TcpInv, NEW m \in Machines, net_tcp_send(m, 1)
  PROVE  TcpInv'
<1> DEFINE k == K(m)
           c == C(m)
           o == Other(m)
           ko == K(o)
           co == C(o)
           w == c.seq + 1
           t == k.sent + 1
           k2 == [k EXCEPT !.call = "send", !.sent = t]
           c2 == [c EXCEPT !.want_ack = w, !.acked = FALSE]
<1>1. k.call = "idle" /\ Live(k) /\ Joined(k)
  BY DEF net_tcp_send, K, Live, Joined
<1>2. /\ Conn(m, 1) = c /\ sock[m][1] = k /\ k \in SockState /\ c \in ConnState /\ k.port = 1
      /\ k.slot \in TcpSlots
  BY <1>1, LiveIs
<1>3. /\ EndTold(m, k, c, N(m)) /\ EndTold(o, ko, co, N(o)) /\ FlowTold(m, k, c, N(m), ko, co)
      /\ FlowTold(o, ko, co, N(o), k, c) /\ k.sent \in Nat /\ k.told \in Nat /\ c.seq \in Nat
      /\ Taken(ko, co) \in Nat
  BY <1>1, CallStarts
<1>4. /\ host' = [host EXCEPT ![m] = WithConn(@, k.slot, c2)]
      /\ sock' = [sock EXCEPT ![m] = [@ EXCEPT ![1] = k2]]
      /\ wire' = wire \cup {send_tcp(m, c2, {"PSH", "ACK"}, <<Unit(m, 1, t)>>)}
  <2> DEFINE d == [Conn(m, 1) EXCEPT !.want_ack = Conn(m, 1).seq + 1, !.acked = FALSE]
  <2>1. /\ host' = [host EXCEPT ![m] = WithConn(@, sock[m][1].slot, d)]
        /\ sock' = [sock EXCEPT ![m][1].call = "send", ![m][1].sent = @ + 1]
        /\ wire' = wire \cup {send_tcp(m, d, {"PSH", "ACK"},
                                      <<Unit(m, sock[m][1].port, sock[m][1].sent + 1)>>)}
    BY DEF net_tcp_send
  <2>2. d = c2
    BY <1>2
  <2>3. sock \in [Machines -> [1 .. 1 -> SockState]]
    BY DEF TcpInv, ShapeTold
  <2>4. sock' = [sock EXCEPT ![m] = [@ EXCEPT ![1] = k2]]
    <3>1. sock' = [sock EXCEPT ![m] = [@ EXCEPT ![1] = [sock[m][1] EXCEPT !.call = "send",
                                                                        !.sent = sock[m][1].sent + 1]]]
      BY <2>1, <2>3
    <3> QED BY <3>1, <1>2
  <2> QED BY <1>2, <2>1, <2>2, <2>4
<1>5. c.open
  <2>1. [Conn(m, 1) EXCEPT !.want_ack = Conn(m, 1).seq + 1, !.acked = FALSE].open
    BY DEF net_tcp_send
  <2> QED BY <2>1, <1>2 DEF ConnState
<1>6. w \in Nat /\ t \in Nat /\ t > k.sent /\ k.sent = k.told
  BY <1>1, <1>3, <1>5 DEF EndTold
<1>w. w = c.seq + 1 /\ t = k.sent + 1
  OBVIOUS
<1> HIDE DEF k, c, o, ko, co, w, t
<1>7. /\ k2 \in SockState /\ k2.call = "send" /\ k2.slot = k.slot /\ k2.port = k.port
      /\ k2.sent = t /\ k2.told = k.told /\ k2.got = k.got /\ k2.eof = k.eof
  BY <1>2, <1>6 DEF SockState, Calls
<1>8. /\ c2 \in ConnState /\ SameConn([c EXCEPT !.want_ack = w], c2) /\ c2.want_ack = w
      /\ c2.acked = FALSE /\ c2.rx = c.rx /\ c2.ack = c.ack /\ c2.fin = c.fin /\ c2.seq = c.seq
      /\ c2.used = c.used /\ c2.sport = c.sport /\ c2.dport = c.dport
      /\ c2.connecting = c.connecting
  BY <1>2, <1>6 DEF ConnState, SameConn
<1> HIDE DEF k2, c2
<1>9. EndTold(m, k2, c2, N(m)) /\ Joined(k2) /\ Live(k2)
  BY <1>1, <1>2, <1>3, <1>6, <1>w, <1>7, <1>8 DEF EndTold, Joined, Live, Early
<1>10. Taken(k2, c2) = Taken(k, c) /\ Taken(k, c) \in Nat
  BY <1>2, <1>7, <1>8, LengthsAre DEF Taken
<1>11. FlowTold(m, k2, c2, N(m), ko, co)
  <2>1. Taken(ko, co) <= k2.sent
    BY <1>3, <1>6, <1>7 DEF FlowTold
  <2> QED BY <2>1, <1>1, <1>3, <1>7, <1>8 DEF FlowTold
<1>12. FlowTold(o, ko, co, N(o), k2, c2)
  BY <1>1, <1>3, <1>7, <1>8, <1>9, <1>10 DEF FlowTold
<1>13. Later(k, c, N(m), k2, c2, N(m))
  BY <1>1, <1>3, <1>6, <1>7, <1>9, <1>10, RoomsAre DEF Later, EndTold
<1>14. SegTold(send_tcp(m, c2, {"PSH", "ACK"}, <<Unit(m, 1, t)>>), m, k2, c2, N(m), ko, N(o))
  BY <1>3, <1>7, <1>9, <1>12, DataTold DEF o
<1> QED BY <1>1, <1>4, <1>7, <1>8, <1>9, <1>11, <1>12, <1>13, <1>14, InPlace DEF k, c, o, ko, co

LEMMA SendAgainKeeps ==
  ASSUME TcpSockets = 1, TcpInv, NEW m \in Machines, SendAgain(m, 1)
  PROVE  TcpInv'
<1> DEFINE k == K(m)
           c == C(m)
           o == Other(m)
<1>1. k.call = "send" /\ Live(k) /\ Joined(k)
  BY DEF SendAgain, K, Live, Joined
<1>2. Conn(m, 1) = c /\ sock[m][1] = k /\ k \in SockState /\ c \in ConnState /\ k.port = 1
      /\ N(m) \in Nat
  BY <1>1, LiveIs
<1>3. wire' = wire \cup {send_tcp(m, c, {"PSH", "ACK"}, <<Unit(m, 1, k.sent)>>)}
  BY <1>2 DEF SendAgain, LastUnit
<1>4. SegTold(send_tcp(m, c, {"PSH", "ACK"}, <<Unit(m, 1, k.sent)>>), m, k, c, N(m), K(o), N(o))
  BY <1>1, CallStarts, DataTold
<1>5. host' = [host EXCEPT ![m] = host[m]]
  BY DEF SendAgain, TcpInv, ShapeTold
<1>6. sock' = [sock EXCEPT ![m] = [@ EXCEPT ![1] = k]]
  BY SockKept DEF SendAgain
<1>7. Taken(k, c) \in Nat
  BY <1>1, CallStarts
<1>8. Later(k, c, N(m), k, c, N(m))
  BY <1>2, <1>7, LaterSame
<1>9. /\ EndTold(m, k, c, N(m)) /\ FlowTold(m, k, c, N(m), K(o), C(o))
      /\ FlowTold(o, K(o), C(o), N(o), k, c) /\ host[m] \in HostState /\ Holder(host[m], k, c)
      /\ host[m].pending = P(m) /\ host[m].next_port = N(m)
  BY InvFacts DEF P, N
<1>10. \A s \in wire' \ wire : SegTold(s, m, k, c, N(m), K(o), N(o))
  BY <1>3, <1>4
<1> DEFINE h2 == host[m]
<1>11. h2.listening = host[m].listening
  OBVIOUS
<1> HIDE DEF h2
<1>12. /\ h2 \in HostState /\ Holder(h2, k, c) /\ h2.pending = P(m) /\ h2.next_port = N(m)
       /\ host' = [host EXCEPT ![m] = h2]
  BY <1>5, <1>9 DEF h2
<1> QED BY <1>1, <1>2, <1>6, <1>8, <1>9, <1>10, <1>11, <1>12, Acted

\* A send returns: the connection was reset, or the unit was acknowledged.
LEMMA SendReturnsKeeps ==
  ASSUME TcpSockets = 1, GivesUp = FALSE, TcpInv, NEW m \in Machines, SendReturns(m, 1)
  PROVE  TcpInv'
<1> DEFINE k == K(m)
           c == C(m)
           o == Other(m)
           ko == K(o)
           co == C(o)
           q == c.seq + 1
           t == k.told + 1
<1>1. k.call = "send" /\ Live(k) /\ Joined(k)
  BY DEF SendReturns, K, Live, Joined
<1>2. /\ Conn(m, 1) = c /\ sock[m][1] = k /\ k \in SockState /\ c \in ConnState
      /\ k.slot \in TcpSlots /\ host[m].tcp[k.slot] = c /\ wire' \ wire = {}
  BY <1>1, LiveIs DEF SendReturns
<1>3. /\ EndTold(m, k, c, N(m)) /\ EndTold(o, ko, co, N(o)) /\ FlowTold(m, k, c, N(m), ko, co)
      /\ FlowTold(o, ko, co, N(o), k, c) /\ k.sent \in Nat /\ k.told \in Nat /\ c.seq \in Nat
      /\ Taken(k, c) \in Nat
  BY <1>1, CallStarts
<1>4. host \in [Machines -> HostState]
  BY DEF TcpInv, ShapeTold
<1>5. ASSUME NEW k2, NEW c2, k2 \in SockState, c2 \in ConnState, k2.call = "idle",
             k2.slot = k.slot, k2.port = k.port, k2.sent = k.sent, k2.got = k.got, k2.eof = k.eof,
             c2.used = c.used, c2.sport = c.sport, c2.dport = c.dport, c2.connecting = c.connecting,
             c2.rx = c.rx, c2.ack = c.ack, c2.fin = c.fin, k2.told \in Nat,
             c2.seq = N(m) + k2.told, k2.told <= k2.sent, k2.sent <= k2.told + 1,
             c2.open => k2.sent = k2.told,
             ko.call # "closed" => Taken(ko, co) >= k2.told,
             host' = [host EXCEPT ![m] = WithConn(@, k.slot, c2)],
             sock' = [sock EXCEPT ![m] = [@ EXCEPT ![1] = k2]]
      PROVE  TcpInv'
  <2> HIDE DEF k, c, o, ko, co
  <2>1. EndTold(m, k2, c2, N(m)) /\ Joined(k2) /\ Live(k2)
    BY <1>1, <1>2, <1>3, <1>5 DEF EndTold, Joined, Live, Early
  <2>2. Taken(k2, c2) = Taken(k, c)
    BY <1>5 DEF Taken
  <2>3. FlowTold(m, k2, c2, N(m), ko, co)
    BY <1>1, <1>3, <1>5 DEF FlowTold
  <2>4. FlowTold(o, ko, co, N(o), k2, c2)
    BY <1>1, <1>3, <1>5, <2>1, <2>2 DEF FlowTold
  <2>5. Later(k, c, N(m), k2, c2, N(m))
    <3>1. k2.sent >= k.sent /\ N(m) >= N(m)
      BY SMTT(40), <1>3, <1>5, RoomsAre DEF EndTold
    <3>2. Taken(k2, c2) >= Taken(k, c)
      BY <1>3, <2>2
    <3> QED BY <1>1, <1>5, <2>1, <3>1, <3>2 DEF Later
  <2> QED BY <1>1, <1>2, <1>5, <2>1, <2>3, <2>4, <2>5, InPlace DEF k, c, o, ko, co
<1>6. CASE /\ host' = [host EXCEPT ![m].tcp[k.slot].open = FALSE]
           /\ sock' = [sock EXCEPT ![m][1].call = "idle"]
  <2> DEFINE k2 == [k EXCEPT !.call = "idle"]
             c2 == [c EXCEPT !.open = FALSE]
  <2>1. host' = [host EXCEPT ![m] = WithConn(@, k.slot, c2)]
        /\ sock' = [sock EXCEPT ![m] = [@ EXCEPT ![1] = k2]]
    BY <1>2, <1>4, <1>6 DEF WithConn
  <2> HIDE DEF k, c, o, ko, co
  <2>2. /\ k2 \in SockState /\ k2.call = "idle" /\ k2.slot = k.slot /\ k2.port = k.port
        /\ k2.sent = k.sent /\ k2.got = k.got /\ k2.eof = k.eof /\ k2.told = k.told
    BY <1>2 DEF SockState, Calls
  <2>3. /\ c2 \in ConnState /\ c2.used = c.used /\ c2.sport = c.sport /\ c2.dport = c.dport
        /\ c2.connecting = c.connecting /\ c2.rx = c.rx /\ c2.ack = c.ack /\ c2.fin = c.fin
        /\ c2.seq = c.seq /\ c2.open = FALSE
    BY <1>2 DEF ConnState
  <2> HIDE DEF k2, c2
  <2>4. c2.seq = N(m) + k2.told /\ k2.told <= k2.sent /\ k2.sent <= k2.told + 1
    BY <1>1, <1>3, <2>2, <2>3 DEF EndTold
  <2>5. ko.call # "closed" => Taken(ko, co) >= k2.told
    BY <1>3, <2>2 DEF FlowTold
  <2> QED BY <1>3, <1>5, <2>1, <2>2, <2>3, <2>4, <2>5
<1>7. CASE /\ ~c.rst /\ c.acked
           /\ host' = [host EXCEPT ![m].tcp[k.slot].seq = @ + 1]
           /\ sock' = [sock EXCEPT ![m][1].call = "idle", ![m][1].told = @ + 1]
  <2> DEFINE k2 == [k EXCEPT !.call = "idle", !.told = t]
             c2 == [c EXCEPT !.seq = q]
  <2>1. host' = [host EXCEPT ![m] = WithConn(@, k.slot, c2)]
        /\ sock' = [sock EXCEPT ![m] = [@ EXCEPT ![1] = k2]]
    <3>1. [host[m].tcp[k.slot] EXCEPT !.seq = @ + 1] = c2
      BY <1>2
    <3>2. c2 = [c EXCEPT !.seq = c.seq + 1] /\ c = host[m].tcp[k.slot]
      BY <1>2
    <3>3. host' = [host EXCEPT ![m].tcp[k.slot] = c2]
      BY <1>7, <3>2, <1>4
    <3>4. sock \in [Machines -> [1 .. 1 -> SockState]]
      BY DEF TcpInv, ShapeTold
    <3>5. sock' = [sock EXCEPT ![m] = [@ EXCEPT ![1] = [sock[m][1] EXCEPT !.call = "idle",
                                                                        !.told = sock[m][1].told + 1]]]
      BY <1>7, <3>4
    <3> QED BY <3>3, <3>5, <1>2 DEF WithConn
  <2>a. q = c.seq + 1 /\ t = k.told + 1 /\ q \in Nat /\ t \in Nat /\ k.sent = t
        /\ c.seq = N(m) + k.told /\ N(m) \in Nat
    BY SMTT(40), <1>1, <1>3, RoomsAre DEF EndTold
  <2>b. ko.call # "closed" => Taken(ko, co) >= t
    BY <1>1, <1>3, <1>7 DEF FlowTold
  <2> HIDE DEF k, c, o, ko, co, q, t
  <2>2. /\ k2 \in SockState /\ k2.call = "idle" /\ k2.slot = k.slot /\ k2.port = k.port
        /\ k2.sent = k.sent /\ k2.got = k.got /\ k2.eof = k.eof /\ k2.told = t
    BY <1>2, <2>a DEF SockState, Calls
  <2>3. /\ c2 \in ConnState /\ c2.used = c.used /\ c2.sport = c.sport /\ c2.dport = c.dport
        /\ c2.connecting = c.connecting /\ c2.rx = c.rx /\ c2.ack = c.ack /\ c2.fin = c.fin
        /\ c2.seq = q
    BY <1>2, <2>a DEF ConnState
  <2> HIDE DEF k2, c2
  <2>4. c2.seq = N(m) + k2.told /\ k2.told <= k2.sent /\ k2.sent <= k2.told + 1
        /\ k2.sent = k2.told
    BY <1>3, <2>a, <2>2, <2>3
  <2> QED BY <1>5, <2>1, <2>2, <2>3, <2>4, <2>a, <2>b
<1> QED BY <1>2, <1>6, <1>7 DEF SendReturns

\* A read moves what waits, or only the call and the ends of the stream.
LEMMA ReadMoves ==
  ASSUME TcpSockets = 1, TcpInv, NEW m \in Machines, K(m).call \in {"idle", "recv"},
         NEW k2 \in SockState, NEW c2 \in ConnState, k2.call \in {"idle", "recv"},
         k2.slot = K(m).slot, k2.port = K(m).port, k2.sent = K(m).sent, k2.told = K(m).told,
         c2.open => C(m).open, c2.used = C(m).used, c2.sport = C(m).sport, c2.dport = C(m).dport,
         c2.connecting = C(m).connecting, c2.seq = C(m).seq, c2.ack = C(m).ack,
         c2.fin = C(m).fin, Len(c2.rx) <= RxRoom, Taken(k2, c2) = Taken(K(m), C(m)),
         k2.got \o c2.rx = K(m).got \o C(m).rx,
         k2.eof => K(Other(m)).call = "closed" /\ Len(k2.got) >= K(Other(m)).told,
         host' = [host EXCEPT ![m] = WithConn(@, K(m).slot, c2)],
         sock' = [sock EXCEPT ![m] = [@ EXCEPT ![1] = k2]], wire' = wire
  PROVE  TcpInv'
<1> DEFINE k == K(m)
           c == C(m)
           o == Other(m)
           ko == K(o)
           co == C(o)
<1>1. k.call \in {"idle", "recv"} /\ Live(k) /\ Joined(k)
  BY DEF Live, Joined
<1>2. /\ EndTold(m, k, c, N(m)) /\ EndTold(o, ko, co, N(o)) /\ FlowTold(m, k, c, N(m), ko, co)
      /\ FlowTold(o, ko, co, N(o), k, c) /\ Taken(k, c) \in Nat
  BY <1>1, CallStarts
<1>3. /\ k2.slot = k.slot /\ k2.port = k.port /\ k2.sent = k.sent /\ k2.told = k.told
      /\ (c2.open => c.open) /\ c2.used = c.used /\ c2.sport = c.sport /\ c2.dport = c.dport
      /\ c2.connecting = c.connecting /\ c2.seq = c.seq /\ c2.ack = c.ack /\ c2.fin = c.fin
      /\ Taken(k2, c2) = Taken(k, c) /\ k2.got \o c2.rx = k.got \o c.rx
      /\ (k2.eof => ko.call = "closed" /\ Len(k2.got) >= ko.told)
  OBVIOUS
<1> HIDE DEF k, c, o, ko, co
<1>4. EndTold(m, k2, c2, N(m)) /\ Joined(k2) /\ Live(k2)
  BY <1>1, <1>2, <1>3 DEF EndTold, Joined, Live, Early
<1>5. FlowTold(m, k2, c2, N(m), ko, co)
  BY <1>1, <1>2, <1>3 DEF FlowTold
<1>6. FlowTold(o, ko, co, N(o), k2, c2)
  BY <1>1, <1>2, <1>3, <1>4 DEF FlowTold
<1>7. Later(k, c, N(m), k2, c2, N(m))
  <2>a. k.sent \in Nat /\ N(m) \in Nat
    BY <1>1, CallStarts, LiveIs DEF k
  <2>1. k2.sent >= k.sent /\ N(m) >= N(m)
    BY <1>3, <2>a
  <2>2. Taken(k2, c2) >= Taken(k, c)
    BY <1>2, <1>3
  <2> QED BY <1>1, <1>3, <1>4, <2>1, <2>2 DEF Later
<1>8. wire' \ wire = {}
  OBVIOUS
<1> QED BY <1>1, <1>3, <1>4, <1>5, <1>6, <1>7, <1>8, InPlace DEF k, c, o, ko, co

LEMMA UnitReadKeeps ==
  ASSUME TcpSockets = 1, TcpInv, NEW m \in Machines, K(m).call \in {"idle", "recv"},
         C(m).rx # <<>>, UnitRead(m, 1), wire' = wire
  PROVE  TcpInv'
<1> DEFINE k == K(m)
           c == C(m)
           g == Append(k.got, Head(c.rx))
           t == Tail(c.rx)
           k2 == [k EXCEPT !.call = "idle", !.got = g]
           c2 == [c EXCEPT !.rx = t]
<1>1. Live(k)
  BY DEF Live
<1>2. /\ Conn(m, 1) = c /\ sock[m][1] = k /\ k \in SockState /\ c \in ConnState
      /\ k.slot \in TcpSlots /\ host[m].tcp[k.slot] = c
  BY <1>1, LiveIs
<1>3. host \in [Machines -> HostState] /\ sock \in [Machines -> [1 .. 1 -> SockState]]
  BY DEF TcpInv, ShapeTold
<1>4. /\ EndTold(m, k, c, N(m)) /\ FlowTold(Other(m), K(Other(m)), C(Other(m)), N(Other(m)), k, c)
      /\ EndTold(Other(m), K(Other(m)), C(Other(m)), N(Other(m)))
  BY <1>1, CallStarts
<1>5. host' = [host EXCEPT ![m] = WithConn(@, k.slot, c2)]
  <2>1. host' = [host EXCEPT ![m].tcp[k.slot].rx = Tail(host[m].tcp[k.slot].rx)]
    BY <1>2 DEF UnitRead
  <2>2. host' = [host EXCEPT ![m].tcp[k.slot] = [host[m].tcp[k.slot] EXCEPT !.rx = t]]
    BY <1>2, <2>1
  <2> QED BY <1>2, <2>2 DEF WithConn
<1>6. sock' = [sock EXCEPT ![m] = [@ EXCEPT ![1] = k2]]
  <2>1. sock' = [sock EXCEPT ![m][1].call = "idle", ![m][1].got = Append(@, Head(Conn(m, 1).rx))]
    BY DEF UnitRead
  <2>2. sock' = [sock EXCEPT ![m][1].call = "idle", ![m][1].got = Append(@, Head(c.rx))]
    BY <1>2, <2>1
  <2>3. sock' = [sock EXCEPT ![m] = [@ EXCEPT ![1] = [sock[m][1] EXCEPT !.call = "idle",
                                                 !.got = Append(sock[m][1].got, Head(c.rx))]]]
    BY <2>2, <1>3
  <2> QED BY <1>2, <2>3
<1>7. k.got \in Seq(UnitState) /\ c.rx \in Seq(UnitState) /\ c.rx # <<>>
  BY <1>2, LengthsAre
<1>8. g \o t = k.got \o c.rx /\ g \in Seq(UnitState) /\ t \in Seq(UnitState)
      /\ Len(g) = Len(k.got) + 1 /\ Len(t) = Len(c.rx) - 1
      /\ Len(c.rx) \in Nat \ {0} /\ Len(k.got) \in Nat
  <2> DEFINE got == k.got
             rx == c.rx
  <2>1. got \in Seq(UnitState) /\ rx \in Seq(UnitState) /\ rx # <<>>
    BY <1>7
  <2> HIDE DEF got, rx
  <2>2. /\ Append(got, Head(rx)) \o Tail(rx) = got \o rx
        /\ Append(got, Head(rx)) \in Seq(UnitState) /\ Tail(rx) \in Seq(UnitState)
        /\ Len(Append(got, Head(rx))) = Len(got) + 1 /\ Len(Tail(rx)) = Len(rx) - 1
        /\ Len(rx) \in Nat \ {0} /\ Len(got) \in Nat
    BY <2>1, StreamRead
  <2> QED BY <2>2 DEF got, rx
<1> HIDE DEF k, c, g, t
<1>9. /\ k2 \in SockState /\ k2.call = "idle" /\ k2.slot = k.slot /\ k2.port = k.port
      /\ k2.sent = k.sent /\ k2.told = k.told /\ k2.got = g /\ k2.eof = k.eof
  BY <1>2, <1>8 DEF SockState, Calls
<1>10. /\ c2 \in ConnState /\ c2.rx = t /\ c2.open = c.open /\ c2.used = c.used
       /\ c2.sport = c.sport /\ c2.dport = c.dport /\ c2.connecting = c.connecting
       /\ c2.seq = c.seq /\ c2.ack = c.ack /\ c2.fin = c.fin
  BY <1>2, <1>8 DEF ConnState
<1> HIDE DEF k2, c2
<1>11. Taken(k2, c2) = Taken(k, c) /\ Len(c2.rx) <= RxRoom /\ Len(k2.got) > Len(k.got)
  <2> DEFINE x == Len(k.got)
             y == Len(c.rx)
             z == Len(g)
             v == Len(t)
  <2>1. x \in Nat /\ y \in Nat /\ z = x + 1 /\ v = y - 1 /\ y <= RxRoom
    BY <1>4, <1>8 DEF EndTold
  <2> HIDE DEF x, y, z, v
  <2>2. z + v = x + y /\ v <= RxRoom /\ z > x
    BY <2>1, RoomsAre
  <2> QED BY <2>2, <1>9, <1>10 DEF Taken, x, y, z, v
<1>12. k2.eof => K(Other(m)).call = "closed" /\ Len(k2.got) >= K(Other(m)).told
  <2> DEFINE x == Len(k.got)
             z == Len(k2.got)
             u == K(Other(m)).told
  <2>1. x \in Nat /\ z > x /\ z = x + 1 /\ u \in Nat
    BY <1>4, <1>8, <1>9, <1>11 DEF EndTold, SockState
  <2>2. k2.eof => K(Other(m)).call = "closed" /\ x >= u
    BY <1>4, <1>9 DEF FlowTold
  <2> HIDE DEF x, z, u
  <2>3. k2.eof => K(Other(m)).call = "closed" /\ z >= u
    BY <2>1, <2>2
  <2> QED BY <2>3 DEF z, u
<1> QED BY <1>5, <1>6, <1>8, <1>9, <1>10, <1>11, <1>12, ReadMoves DEF k, c

\* The call of an end that reads begins, or ends with nothing.
LEMMA CallMovesKeeps ==
  ASSUME TcpSockets = 1, TcpInv, NEW m \in Machines, K(m).call \in {"idle", "recv"},
         NEW a \in {"idle", "recv"}, sock' = [sock EXCEPT ![m][1].call = a], host' = host,
         wire' = wire
  PROVE  TcpInv'
<1> DEFINE k == K(m)
           c == C(m)
           k2 == [k EXCEPT !.call = a]
<1>1. Live(k)
  BY DEF Live
<1>2. /\ sock[m][1] = k /\ k \in SockState /\ c \in ConnState
      /\ k.slot \in TcpSlots /\ host[m].tcp[k.slot] = c
  BY <1>1, LiveIs
<1>3. host \in [Machines -> HostState]
  BY DEF TcpInv, ShapeTold
<1>4. host' = [host EXCEPT ![m] = WithConn(@, k.slot, c)]
  <2>1. host[m] \in HostState
    BY <1>3
  <2>2. host[m].tcp \in [TcpSlots -> ConnState]
    BY <2>1 DEF HostState
  <2>3. [host[m].tcp EXCEPT ![k.slot] = c] = host[m].tcp
    BY <1>2, <2>2
  <2>4. [host[m] EXCEPT !.tcp = host[m].tcp] = host[m]
    BY <2>1 DEF HostState
  <2>5. WithConn(host[m], k.slot, c) = host[m]
    BY <2>3, <2>4 DEF WithConn
  <2> QED BY <2>5, <1>3
<1>5. sock' = [sock EXCEPT ![m] = [@ EXCEPT ![1] = k2]]
  BY <1>2
<1>6. /\ EndTold(m, k, c, N(m)) /\ FlowTold(Other(m), K(Other(m)), C(Other(m)), N(Other(m)), k, c)
  BY <1>1, CallStarts
<1> HIDE DEF k, c
<1>7. /\ k2 \in SockState /\ k2.call = a /\ k2.slot = k.slot /\ k2.port = k.port
      /\ k2.sent = k.sent /\ k2.told = k.told /\ k2.got = k.got /\ k2.eof = k.eof
  BY <1>2 DEF SockState, Calls
<1> HIDE DEF k2
<1>8. Taken(k2, c) = Taken(k, c) /\ Len(c.rx) <= RxRoom
  BY <1>6, <1>7 DEF Taken, EndTold
<1>9. k2.eof => K(Other(m)).call = "closed" /\ Len(k2.got) >= K(Other(m)).told
  BY <1>6, <1>7 DEF FlowTold
<1> QED BY <1>2, <1>4, <1>5, <1>7, <1>8, <1>9, ReadMoves DEF k, c

LEMMA RecvKeeps ==
  ASSUME TcpSockets = 1, TcpInv, NEW m \in Machines, net_tcp_recv(m, 1)
  PROVE  TcpInv'
<1>1. K(m).call = "idle" /\ Live(K(m)) /\ wire' = wire
  BY DEF net_tcp_recv, K, Live
<1>2. Conn(m, 1) = C(m)
  BY <1>1, LiveIs
<1>3. CASE C(m).rx # <<>> /\ UnitRead(m, 1)
  BY <1>1, <1>3, UnitReadKeeps
<1>4. CASE sock' = [sock EXCEPT ![m][1].call = "recv"] /\ host' = host
  BY <1>1, <1>4, CallMovesKeeps
<1> QED BY <1>2, <1>3, <1>4 DEF net_tcp_recv

\* End of file comes from a FIN, and after everything before it was read.
LEMMA RecvReturnsKeeps ==
  ASSUME TcpSockets = 1, TcpInv, NEW m \in Machines, RecvReturns(m, 1)
  PROVE  TcpInv'
<1> DEFINE k == K(m)
           c == C(m)
           o == Other(m)
<1>1. k.call = "recv" /\ Live(k) /\ wire' = wire
  BY DEF RecvReturns, K, Live
<1>2. /\ Conn(m, 1) = c /\ sock[m][1] = k /\ k \in SockState /\ c \in ConnState
      /\ k.slot \in TcpSlots /\ host[m].tcp[k.slot] = c
  BY <1>1, LiveIs
<1>3. CASE c.rx # <<>> /\ UnitRead(m, 1)
  BY <1>1, <1>3, UnitReadKeeps
<1>4. CASE sock' = [sock EXCEPT ![m][1].call = "idle"] /\ host' = host
  BY <1>1, <1>4, CallMovesKeeps
<1>5. CASE /\ c.rst \/ AtEnd(c)
           /\ host' = [host EXCEPT ![m].tcp[k.slot].open = FALSE]
           /\ sock' = [sock EXCEPT ![m][1] = [@ EXCEPT !.call = "idle", !.eof = ~c.rst]]
  <2> DEFINE e == ~c.rst
             k2 == [k EXCEPT !.call = "idle", !.eof = e]
             c2 == [c EXCEPT !.open = FALSE]
  <2>1. host' = [host EXCEPT ![m] = WithConn(@, k.slot, c2)]
        /\ sock' = [sock EXCEPT ![m] = [@ EXCEPT ![1] = k2]]
    BY <1>2, <1>5 DEF WithConn
  <2>2. /\ EndTold(m, k, c, N(m)) /\ FlowTold(o, K(o), C(o), N(o), k, c)
        /\ EndTold(o, K(o), C(o), N(o)) /\ e \in BOOLEAN
    BY <1>1, CallStarts
  <2>3. e => AtEnd(c)
    BY <1>5
  <2> HIDE DEF k, c, e
  <2>4. /\ k2 \in SockState /\ k2.call = "idle" /\ k2.slot = k.slot /\ k2.port = k.port
        /\ k2.sent = k.sent /\ k2.told = k.told /\ k2.got = k.got /\ k2.eof = e
    BY <1>2, <2>2 DEF SockState, Calls
  <2>5. /\ c2 \in ConnState /\ c2.open = FALSE /\ c2.used = c.used /\ c2.sport = c.sport
        /\ c2.dport = c.dport /\ c2.connecting = c.connecting /\ c2.seq = c.seq
        /\ c2.ack = c.ack /\ c2.fin = c.fin /\ c2.rx = c.rx
    BY <1>2 DEF ConnState
  <2> HIDE DEF k2, c2
  <2>6. Taken(k2, c2) = Taken(k, c) /\ Len(c2.rx) <= RxRoom
    BY <2>2, <2>4, <2>5 DEF Taken, EndTold
  <2>7. ASSUME e
        PROVE  K(o).call = "closed" /\ Len(k2.got) >= K(o).told
    <3>1. c.fin /\ c.rx = <<>>
      BY <2>3, <2>7 DEF AtEnd
    <3>2. K(o).call = "closed" /\ Taken(k, c) >= K(o).told
      BY <1>1, <2>2, <3>1 DEF FlowTold
    <3>3. Taken(k, c) = Len(k.got)
      <4> DEFINE x == Len(k.got)
      <4>1. x \in Nat /\ Taken(k, c) = x + Len(c.rx) /\ Len(c.rx) = 0
        BY <1>2, <3>1, LengthsAre
      <4> HIDE DEF x
      <4>2. x + 0 = x
        BY <4>1
      <4> QED BY <4>1, <4>2 DEF x
    <3> QED BY <2>4, <3>2, <3>3
  <2> QED BY <1>1, <2>1, <2>4, <2>5, <2>6, <2>7, ReadMoves DEF k, c
<1> QED BY <1>2, <1>3, <1>4, <1>5 DEF RecvReturns

-----------------------------------------------------------------------------
(* The queue of the server                                                 *)

LEMMA LowestIs ==
  ASSUME NEW S \in SUBSET Nat, S # {}
  PROVE  Lowest(S) \in S
<1>1. PICK n \in S : \A m \in S : ~ (<<m, n>> \in OpToRel(<, Nat))
  BY NatLessThanWellFounded, WFMin
<1>2. \A m \in S : ~ m < n
  BY <1>1 DEF OpToRel
<1>3. n \in S /\ \A m \in S : n <= m
  BY <1>2
<1> QED BY <1>3 DEF Lowest

LEMMA LowestSlot ==
  /\ \A S \in SUBSET TcpSlots : S # {} => Lowest(S) \in S
  /\ \A S \in SUBSET PendingSlots : S # {} => Lowest(S) \in S
<1>1. TcpSlots \subseteq Nat /\ PendingSlots \subseteq Nat
  BY RoomsAre DEF TcpSlots, PendingSlots
<1>2. ASSUME NEW S \in SUBSET Nat, S # {}
      PROVE  Lowest(S) \in S
  BY <1>2, LowestIs
<1> QED BY <1>1, <1>2

\* One place of the queue changes.
LEMMA QueuePut ==
  ASSUME NEW h \in HostState, NEW i \in PendingSlots, NEW p2 \in PendingState, NEW kc, NEW ks,
         NEW n, NEW n2, QueueTold(h.pending, kc, ks, n), Len(p2.rx) <= StageRoom,
         Early(ks) /\ p2.in_use => /\ WaitsTold(p2, kc, n2)
                                   /\ \A j \in PendingSlots \ {i} : ~h.pending[j].in_use,
         n2 = n \/ p2.in_use
  PROVE  LET h2 == [h EXCEPT !.pending[i] = p2] IN
         /\ h2 \in HostState /\ h2.tcp = h.tcp /\ h2.next_port = h.next_port
         /\ h2.listening = h.listening /\ h2.pending = [h.pending EXCEPT ![i] = p2]
         /\ QueueTold(h2.pending, kc, ks, n2)
<1> DEFINE q == [h.pending EXCEPT ![i] = p2]
           h2 == [h EXCEPT !.pending = q]
<1>1. h.pending \in [PendingSlots -> PendingState]
  BY DEF HostState
<1>2. q \in [PendingSlots -> PendingState] /\ q[i] = p2
      /\ \A j \in PendingSlots : j # i => q[j] = h.pending[j]
  BY <1>1
<1>3. [h EXCEPT !.pending[i] = p2] = h2
  OBVIOUS
<1>4. q = [h.pending EXCEPT ![i] = p2]
  OBVIOUS
<1> HIDE DEF q
<1>5. h2 \in HostState /\ h2.tcp = h.tcp /\ h2.next_port = h.next_port
      /\ h2.listening = h.listening /\ h2.pending = q
  BY <1>2 DEF HostState
<1>6. QueueTold(q, kc, ks, n2)
  <2>1. \A j \in PendingSlots : q[j] \in PendingState /\ Len(q[j].rx) <= StageRoom
    BY <1>2 DEF QueueTold
  <2>2. ASSUME Early(ks)
        PROVE  /\ \A a, b \in PendingSlots : q[a].in_use /\ q[b].in_use => a = b
               /\ \A a \in PendingSlots : q[a].in_use => WaitsTold(q[a], kc, n2)
    <3>1. CASE p2.in_use
      BY <1>2, <2>2, <3>1
    <3>2. CASE ~p2.in_use
      BY <1>2, <2>2, <3>2 DEF QueueTold
    <3> QED BY <3>1, <3>2
  <2> QED BY <2>1, <2>2 DEF QueueTold
<1> QED BY <1>3, <1>4, <1>5, <1>6

\* A place is given back.
LEMMA QueueLeft ==
  ASSUME NEW h \in HostState, NEW i \in PendingSlots, NEW kc, NEW ks, NEW n,
         QueueTold(h.pending, kc, ks, n)
  PROVE  LET h2 == [h EXCEPT !.pending[i].in_use = FALSE] IN
         /\ h2 \in HostState /\ h2.tcp = h.tcp /\ h2.next_port = h.next_port
         /\ h2.listening = h.listening /\ QueueTold(h2.pending, kc, ks, n)
<1> DEFINE p == h.pending[i]
           p2 == [p EXCEPT !.in_use = FALSE]
<1>1. p \in PendingState /\ Len(p.rx) <= StageRoom
  BY DEF QueueTold
<1>2. [h EXCEPT !.pending[i].in_use = FALSE] = [h EXCEPT !.pending[i] = p2]
  OBVIOUS
<1> HIDE DEF p
<1>3. p2 \in PendingState /\ p2.rx = p.rx /\ ~p2.in_use
  BY <1>1 DEF PendingState
<1> HIDE DEF p2
<1>4. Len(p2.rx) <= StageRoom
  BY <1>1, <1>3
<1> DEFINE h2 == [h EXCEPT !.pending[i] = p2]
<1>5. /\ h2 \in HostState /\ h2.tcp = h.tcp /\ h2.next_port = h.next_port
      /\ h2.listening = h.listening /\ QueueTold(h2.pending, kc, ks, n)
  <2>1. Early(ks) /\ p2.in_use => /\ WaitsTold(p2, kc, n)
                                  /\ \A j \in PendingSlots \ {i} : ~h.pending[j].in_use
    BY <1>3
  <2>2. n = n \/ p2.in_use
    OBVIOUS
  <2>3. p2 \in PendingState
    BY <1>3
  <2> HIDE DEF h2
  <2> QED BY <1>4, <2>1, <2>2, <2>3, QueuePut DEF h2
<1> HIDE DEF h2
<1>6. [h EXCEPT !.pending[i].in_use = FALSE] = h2
  BY <1>2 DEF h2
<1> QED BY <1>5, <1>6

\* What the server's queue does while the server's end stays as it is, or waits.
LEMMA QueueMoves ==
  ASSUME TcpSockets = 1, TcpInv, NEW h2 \in HostState, h2.tcp = host["server"].tcp,
         NEW k2 \in SockState, NEW a \in {"none", "accept"},
         \/ k2 = K("server") /\ h2.next_port = N("server")
         \/ Early(K("server")) /\ k2 = [K("server") EXCEPT !.call = a],
         h2.next_port \in 1 .. MaxPort + 1, h2.next_port >= N("server"),
         host' = [host EXCEPT !["server"] = h2],
         sock' = [sock EXCEPT !["server"] = [@ EXCEPT ![1] = k2]],
         QueueTold(h2.pending, K("client"), k2, h2.next_port),
         \A s \in wire' \ wire : SegTold(s, "server", k2, C("server"), h2.next_port,
                                         K("client"), N("client")),
         K("client").call = "none" => wire' = {}
  PROVE  TcpInv'
<1> DEFINE k == K("server")
           c == C("server")
           n2 == h2.next_port
           kc == K("client")
           cc == C("client")
<1>0. "server" \in Machines /\ "client" \in Machines /\ Other("server") = "client"
      /\ "client" # "server"
  BY MachinesAre
<1>1. /\ EndTold("server", k, c, N("server")) /\ EndTold("client", kc, cc, N("client"))
      /\ FlowTold("server", k, c, N("server"), kc, cc)
      /\ FlowTold("client", kc, cc, N("client"), k, c) /\ Holder(host["server"], k, c)
      /\ ShapeTold /\ RestTold
  BY <1>0, InvFacts DEF TcpInv
<1>2. k \in SockState /\ c \in ConnState /\ kc \in SockState /\ cc \in ConnState
      /\ N("server") \in Nat /\ n2 \in Nat /\ n2 >= N("server")
  BY <1>1, RoomsAre DEF EndTold
<1>3. Taken(k, c) \in Nat /\ Taken(kc, cc) \in Nat /\ k.sent \in Nat /\ cc.ack \in Nat
  BY <1>2, LengthsAre DEF SockState, ConnState
<1>4. (k2 = k /\ n2 = N("server")) \/ (Early(k) /\ k2 = [k EXCEPT !.call = a])
  OBVIOUS
<1> HIDE DEF k, c, kc, cc, n2
<1>5. CASE k2 = k /\ n2 = N("server")
  <2>1. Taken(k, c) >= Taken(k, c)
    BY <1>3
  <2>2. Later(k, c, N("server"), k2, c, n2)
    BY <1>2, <1>5, <2>1, LaterSame
  <2>3. Holder(h2, k2, c)
    BY <1>1, <1>5 DEF Holder
  <2>4. RestTold'
    <3>1. /\ P("server")' = h2.pending /\ N("server")' = n2 /\ K("server")' = k2
          /\ K("client")' = kc /\ P("client")' = P("client") /\ host'["client"] = host["client"]
      BY <1>0, <1>1, <2>3, HostBecomes DEF n2, kc
    <3> QED BY <1>1, <1>5, <3>1 DEF RestTold, QueueTold, WaitsTold, OrderTold, n2, kc, k
  <2> QED BY <1>0, <1>1, <1>5, <2>2, <2>3, <2>4, Stepped DEF k, c, n2, kc, cc
<1>6. CASE Early(k) /\ k2 = [k EXCEPT !.call = a]
  <2>1. /\ k2.call = a /\ k2.slot = k.slot /\ k2.port = k.port /\ k2.sent = k.sent
        /\ k2.told = k.told /\ k2.got = k.got /\ k2.eof = k.eof /\ Early(k2) /\ ~Joined(k)
        /\ ~Live(k) /\ ~Live(k2) /\ ~Joined(k2)
    BY <1>2, <1>6 DEF SockState, Early, Joined, Live
  <2>2. EndTold("server", k2, c, n2)
    BY <1>1, <1>6, <2>1 DEF EndTold, Early, n2
  <2>3. Taken(k2, c) = Taken(k, c) /\ k.sent = 0 /\ k.told = 0
    BY <1>1, <2>1 DEF Taken, EndTold
  <2>4. FlowTold("client", kc, cc, N("client"), k2, c)
    <3>1. k.call # "closed" /\ k2.call # "closed" /\ k2.got \o c.rx = k.got \o c.rx
      BY <1>6, <2>1 DEF Early
    <3>2. k2.got \o c.rx = Units("client", Taken(k2, c)) /\ Taken(k2, c) <= kc.sent
          /\ Taken(k2, c) >= kc.told
      BY <1>1, <2>3, <3>1 DEF FlowTold
    <3>3. kc.call = "send" /\ cc.acked => Taken(k2, c) >= kc.told + 1
      BY <1>1, <2>3, <3>1 DEF FlowTold
    <3>4. k2.eof => kc.call = "closed" /\ Len(k2.got) >= kc.told
      BY <1>1, <2>1 DEF FlowTold
    <3> QED BY <2>1, <3>2, <3>3, <3>4 DEF FlowTold
  <2>5. FlowTold("server", k2, c, n2, kc, cc)
    <3>1. Taken(kc, cc) = 0
      BY <1>1, <1>3, <2>3 DEF FlowTold
    <3>2. Live(kc) /\ ~cc.fin => cc.ack = n2 + Taken(kc, cc) \/ (cc.ack < n2 /\ Taken(kc, cc) = 0)
      BY <1>1, <1>2, <1>3, <3>1 DEF FlowTold
    <3>3. ~cc.fin \/ ~Live(kc)
      BY <1>1, <1>6 DEF FlowTold, Early
    <3>4. ~kc.eof
      BY <1>1, <1>6 DEF FlowTold, Early
    <3>5. k2.call # "send"
      BY <2>1 DEF Early
    <3> QED BY <1>1, <2>1, <2>3, <3>1, <3>2, <3>3, <3>4, <3>5 DEF FlowTold
  <2>6. Later(k, c, N("server"), k2, c, n2)
    <3>1. k2.sent >= k.sent /\ Taken(k2, c) >= Taken(k, c)
      BY <1>3, <2>1, <2>3
    <3> QED BY <1>2, <1>6, <2>1, <3>1 DEF Later, Early
  <2>7. Holder(h2, k2, c)
    BY <1>1, <2>1 DEF Holder
  <2>8. RestTold'
    <3>1. /\ P("server")' = h2.pending /\ N("server")' = n2 /\ K("server")' = k2
          /\ K("client")' = kc /\ P("client")' = P("client") /\ host'["client"] = host["client"]
      BY <1>0, <1>1, <2>7, HostBecomes DEF n2, kc
    <3> QED BY <1>1, <2>1, <3>1 DEF RestTold, QueueTold, WaitsTold, OrderTold, n2, kc, k
  <2> QED BY <1>0, <1>1, <2>2, <2>4, <2>5, <2>6, <2>7, <2>8, Stepped DEF k, c, n2, kc, cc
<1> QED BY <1>4, <1>5, <1>6

\* A SYN-ACK goes to every connection in the queue that has had none: to one, at most.
LEMMA SynAckedTold ==
  ASSUME TcpSockets = 1, TcpInv, Early(K("server"))
  PROVE  LET h == host["server"]
             h2 == SynAcked(h) IN
         /\ h2 \in HostState /\ h2.tcp = h.tcp /\ h2.listening = h.listening
         /\ h2.next_port \in Nat /\ h2.next_port >= N("server")
         /\ QueueTold(h2.pending, K("client"), K("server"), h2.next_port)
         /\ \A i \in PendingSlots : /\ h2.pending[i].in_use = h.pending[i].in_use
                                    /\ h2.pending[i].peer_seq = h.pending[i].peer_seq
                                    /\ h2.pending[i].rx = h.pending[i].rx
         /\ K("client").call = "none" => SynAcks(h) = {}
         /\ \A k2, c2 : Taken(k2, c2) \in Nat =>
              \A s \in SynAcks(h) : SegTold(s, "server", k2, c2, h2.next_port,
                                            K("client"), N("client"))
<1> DEFINE h == host["server"]
           h2 == SynAcked(h)
           kc == K("client")
           ks == K("server")
           n == N("server")
           U == Unanswered(h)
<1>0. "server" \in Machines /\ "client" \in Machines /\ Other("server") = "client"
  BY MachinesAre
<1>1. /\ h \in HostState /\ QueueTold(h.pending, kc, ks, n) /\ n \in Nat /\ h.next_port = n
      /\ EndTold("client", kc, C("client"), N("client")) /\ Early(ks)
  BY <1>0, InvFacts, RoomsAre DEF TcpInv, RestTold, P, N, EndTold
<1>2. h.pending \in [PendingSlots -> PendingState]
  BY <1>1 DEF HostState
<1>3. \A i \in PendingSlots : h.pending[i].in_use => WaitsTold(h.pending[i], kc, n)
  BY <1>1 DEF QueueTold
<1>4. \A i, j \in PendingSlots : h.pending[i].in_use /\ h.pending[j].in_use => i = j
  BY <1>1 DEF QueueTold
<1>5. CASE U = {}
  <2>1. Cardinality(U) = 0
    BY <1>5, FS_EmptySet
  <2>2. [i \in PendingSlots |-> IF i \in U THEN [h.pending[i] EXCEPT !.isn = Isn(h, i), !.syn_acked = TRUE]
                                ELSE h.pending[i]] = h.pending
    BY <1>2, <1>5
  <2>3. h2 = [h EXCEPT !.pending = h.pending, !.next_port = h.next_port + 0]
    BY <2>1, <2>2 DEF SynAcked
  <2>4. n + 0 = n /\ n >= n
    BY <1>1
  <2>5. h2 = h
    <3> HIDE DEF h2, h
    <3> QED BY <1>1, <2>3, <2>4 DEF HostState
  <2>6. SynAcks(h) = {}
    BY <1>5 DEF SynAcks
  <2> HIDE DEF h2, h, kc, ks, n
  <2>7. h2.next_port = n /\ h2.pending = h.pending
    BY <1>1, <2>5
  <2>8. QueueTold(h2.pending, kc, ks, h2.next_port)
    BY <1>1, <2>7
  <2>9. h2 \in HostState /\ h2.tcp = h.tcp /\ h2.listening = h.listening
        /\ h2.next_port \in Nat /\ h2.next_port >= n
    BY <1>1, <2>4, <2>5, <2>7
  <2> QED BY <2>6, <2>7, <2>8, <2>9 DEF h2, h, kc, ks, n
<1>6. ASSUME NEW i \in U
      PROVE  /\ h2 \in HostState /\ h2.tcp = h.tcp /\ h2.listening = h.listening
             /\ h2.next_port \in Nat /\ h2.next_port >= n
             /\ QueueTold(h2.pending, kc, ks, h2.next_port)
             /\ \A j \in PendingSlots : /\ h2.pending[j].in_use = h.pending[j].in_use
                                        /\ h2.pending[j].peer_seq = h.pending[j].peer_seq
                                        /\ h2.pending[j].rx = h.pending[j].rx
             /\ kc.call = "none" => SynAcks(h) = {}
             /\ \A k2, c2 : Taken(k2, c2) \in Nat =>
                  \A s \in SynAcks(h) : SegTold(s, "server", k2, c2, h2.next_port, kc, N("client"))
  <2> DEFINE p == h.pending[i]
             p2 == [p EXCEPT !.isn = n, !.syn_acked = TRUE]
             g == [h EXCEPT !.pending[i] = p2]
             f == n + 1
  <2>1. i \in PendingSlots /\ p.in_use /\ ~p.syn_acked /\ p \in PendingState
    BY <1>2, <1>6 DEF Unanswered
  <2>2. U = {i}
    BY <1>4, <1>6 DEF Unanswered
  <2>3. Cardinality(U) = 1
    BY <2>2, FS_Singleton
  <2>4. i \in Nat
    BY <2>1, RoomsAre DEF PendingSlots
  <2>5. Isn(h, i) = n
    <3>1. {j \in U : j < i} = {}
      BY <2>2, <2>4
    <3>2. Isn(h, i) = n + 0
      BY <1>1, <3>1, FS_EmptySet DEF Isn
    <3> QED BY <1>1, <3>2
  <2>6. WaitsTold(p, kc, n) /\ p.rx = <<>> /\ Len(p.rx) = 0 /\ p.peer_seq = 2 /\ p.peer_port = 1
        /\ kc.call # "none" /\ ~p.established
    <3>1. WaitsTold(p, kc, n)
      BY <1>3, <2>1
    <3>2. p.rx = <<>> /\ p.peer_seq = 2 + Len(p.rx) /\ p.peer_port = 1 /\ kc.call # "none"
          /\ ~p.established
      BY <2>1, <3>1 DEF WaitsTold
    <3>3. Len(p.rx) = 0
      BY <3>2
    <3> QED BY <3>1, <3>2, <3>3
  <2>7. h2 = [g EXCEPT !.next_port = f]
    <3>1. [j \in PendingSlots |-> IF j \in U THEN [h.pending[j] EXCEPT !.isn = Isn(h, j), !.syn_acked = TRUE]
                                  ELSE h.pending[j]] = [h.pending EXCEPT ![i] = p2]
      BY <1>2, <2>1, <2>2, <2>5
    <3>2. h2 = [h EXCEPT !.pending = [h.pending EXCEPT ![i] = p2], !.next_port = h.next_port + 1]
      BY <2>3, <3>1 DEF SynAcked
    <3> QED BY <1>1, <3>2
  <2>8. SynAcks(h) = {Segment("server", ListenPort, 1, n, 2, {"SYN", "ACK"}, <<>>)}
    BY <2>2, <2>5, <2>6 DEF SynAcks
  <2>9. f \in Nat /\ f >= n /\ f = n + 1
    BY <1>1
  <2> HIDE DEF p, g, f, h2, kc, ks, n
  <2>10. /\ p2 \in PendingState /\ p2.isn = n /\ p2.syn_acked = TRUE /\ p2.in_use = p.in_use
         /\ p2.rx = p.rx /\ p2.peer_seq = p.peer_seq /\ p2.peer_port = p.peer_port
         /\ p2.established = p.established
    BY <1>1, <2>1 DEF PendingState
  <2>g. g = [h EXCEPT !.pending[i] = p2]
    BY DEF g
  <2> HIDE DEF p2, h
  <2>11. WaitsTold(p2, kc, f) /\ \A j \in PendingSlots \ {i} : ~h.pending[j].in_use
    <3>1. \A j \in PendingSlots \ {i} : ~h.pending[j].in_use
      BY <1>4, <2>1 DEF p
    <3> QED BY <2>6, <2>9, <2>10, <3>1 DEF WaitsTold
  <2>12. Len(p2.rx) <= StageRoom
    BY <2>6, <2>10, RoomsAre
  <2>13. /\ g \in HostState /\ g.tcp = h.tcp /\ g.next_port = h.next_port
         /\ g.listening = h.listening /\ g.pending = [h.pending EXCEPT ![i] = p2]
         /\ QueueTold(g.pending, kc, ks, f)
    <3>1. Early(ks) /\ p2.in_use => /\ WaitsTold(p2, kc, f)
                                    /\ \A j \in PendingSlots \ {i} : ~h.pending[j].in_use
      BY <2>11
    <3>2. f = n \/ p2.in_use
      BY <2>1, <2>10
    <3>3. h \in HostState /\ i \in PendingSlots /\ p2 \in PendingState
          /\ QueueTold(h.pending, kc, ks, n)
      BY <1>1, <2>1, <2>10
    <3> QED BY <2>12, <2>g, <3>1, <3>2, <3>3, QueuePut
  <2>14. /\ h2 \in HostState /\ h2.tcp = h.tcp /\ h2.listening = h.listening
         /\ h2.next_port = f /\ h2.pending = g.pending
    BY <2>7, <2>9, <2>13 DEF HostState
  <2>15. \A j \in PendingSlots : /\ h2.pending[j].in_use = h.pending[j].in_use
                                 /\ h2.pending[j].peer_seq = h.pending[j].peer_seq
                                 /\ h2.pending[j].rx = h.pending[j].rx
    BY <1>2, <2>10, <2>13, <2>14 DEF p
  <2>16. ASSUME NEW k2, NEW c2, Taken(k2, c2) \in Nat
         PROVE  \A s \in SynAcks(h) : SegTold(s, "server", k2, c2, f, kc, N("client"))
    <3> DEFINE s == Segment("server", ListenPort, 1, n, 2, {"SYN", "ACK"}, <<>>)
    <3>1. /\ s.to = "client" /\ s.sport = ListenPort /\ s.dport = 1 /\ s.seq = n /\ s.ack = 2
          /\ s.flags = {"SYN", "ACK"} /\ s.data = <<>> /\ s \in SegState
      BY <1>0, <1>1, OwnFar DEF Segment, SegState, Flags
    <3>2. N("client") = 2
      BY <1>1, <2>6 DEF EndTold
    <3>3. 2 <= N("client") + Taken(k2, c2)
      BY <1>6, <2>16, <3>2
    <3>4. Own("server") = ListenPort /\ Far("server") = 1
      BY DEF Own, Far
    <3>5. n < f /\ n \in Nat
      BY <1>1, <2>9
    <3> HIDE DEF s
    <3>6. SegTold(s, "server", k2, c2, f, kc, N("client"))
      BY <1>0, <3>1, <3>3, <3>4, <3>5 DEF SegTold
    <3> QED BY <2>8, <3>6 DEF s
  <2> QED BY <2>6, <2>9, <2>13, <2>14, <2>15, <2>16
<1> QED BY <1>5, <1>6

\* A segment of a connection that waits is kept if it is the next, and finds room.
LEMMA EstablishedIs ==
  ASSUME NEW p \in PendingState, NEW s \in SegState
  PROVE  LET e == Established(p, s)
             done == p.established \/ p.syn_acked
             taken == done /\ s.data # <<>> /\ s.seq = p.peer_seq
             kept == taken /\ Len(p.rx) + Len(s.data) <= StageRoom IN
         /\ e \in PendingState /\ e.in_use = p.in_use /\ e.peer_port = p.peer_port
         /\ e.isn = p.isn /\ e.syn_acked = p.syn_acked /\ e.established = done
         /\ e.peer_seq = IF taken THEN p.peer_seq + Len(s.data) ELSE p.peer_seq
         /\ e.rx = IF kept THEN p.rx \o s.data ELSE p.rx
<1> DEFINE d == p.established \/ p.syn_acked
           taken == d /\ s.data # <<>> /\ s.seq = p.peer_seq
           kept == taken /\ Len(p.rx) + Len(s.data) <= StageRoom
           q == IF taken THEN p.peer_seq + Len(s.data) ELSE p.peer_seq
           r == IF kept THEN p.rx \o s.data ELSE p.rx
           e == [p EXCEPT !.established = d, !.peer_seq = q, !.rx = r]
<1>1. Established(p, s) = e
  BY DEF Established
<1>2. q \in Nat /\ r \in Seq(UnitState) /\ d \in BOOLEAN
  <2>1. p.rx \in Seq(UnitState) /\ s.data \in Seq(UnitState) /\ p.peer_seq \in Nat
    BY DEF PendingState, SegState
  <2>2. p.rx \o s.data \in Seq(UnitState) /\ Len(s.data) \in Nat
    BY <2>1, ConcatProperties, LenProperties
  <2> DEFINE l == Len(s.data)
             x == p.rx \o s.data
  <2> HIDE DEF l, x
  <2>3. q \in Nat
    <3>1. l \in Nat /\ p.peer_seq + l \in Nat
      BY <2>1, <2>2 DEF l
    <3> QED BY <2>1, <3>1 DEF l
  <2>4. r \in Seq(UnitState)
    BY <2>1, <2>2
  <2> QED BY <2>3, <2>4
<1> HIDE DEF q, r, d
<1>3. /\ e \in PendingState /\ e.in_use = p.in_use /\ e.peer_port = p.peer_port
      /\ e.isn = p.isn /\ e.syn_acked = p.syn_acked /\ e.established = d /\ e.peer_seq = q
      /\ e.rx = r
  BY <1>2 DEF PendingState
<1> QED BY <1>1, <1>3 DEF q, r, d

\* The queue takes a segment of the client.
LEMMA IngressTold ==
  ASSUME TcpInv, Early(K("server")), NEW s \in Arrived("server"), NEW h \in HostState, NEW n,
         QueueTold(h.pending, K("client"), K("server"), n),
         \A i \in PendingSlots : h.pending[i].in_use /\ s.seq = h.pending[i].peer_seq =>
                                   Len(h.pending[i].rx) + Len(s.data) <= StageRoom
  PROVE  LET h2 == tcp_accept_ingress(h, s) IN
         /\ h2 \in HostState /\ h2.tcp = h.tcp /\ h2.next_port = h.next_port
         /\ h2.listening = h.listening
         /\ QueueTold(h2.pending, K("client"), K("server"), n)
<1> DEFINE kc == K("client")
           ks == K("server")
           mine == {i \in PendingSlots : h.pending[i].in_use /\ h.pending[i].peer_port = s.sport}
           free == {i \in PendingSlots : ~h.pending[i].in_use}
           i == Lowest(mine)
           h2 == tcp_accept_ingress(h, s)
           Good(g) == /\ g \in HostState /\ g.tcp = h.tcp /\ g.next_port = h.next_port
                      /\ g.listening = h.listening /\ QueueTold(g.pending, kc, ks, n)
<1>0. "server" \in Machines /\ "client" \in Machines /\ Other("server") = "client"
  BY MachinesAre
<1>1. SegTold(s, "client", kc, C("client"), N("client"), ks, N("server"))
  BY <1>0, ArrivedTold
<1>2. EndTold("client", kc, C("client"), N("client")) /\ kc \in SockState
  BY <1>0, InvFacts
<1>3. s \in SegState /\ s.sport = 1 /\ "RST" \notin s.flags
  BY <1>1 DEF SegTold, Own
<1>4. kc.call # "none" /\ N("client") = 2 /\ kc.sent \in Nat
  <2>1. wire # {}
    BY DEF Arrived
  <2>2. kc.call # "none"
    BY <2>1 DEF TcpInv, RestTold
  <2> QED BY <1>2, <2>2 DEF EndTold, SockState
<1>5. h.pending \in [PendingSlots -> PendingState]
      /\ \A j \in PendingSlots : h.pending[j] \in PendingState /\ Len(h.pending[j].rx) <= StageRoom
  BY DEF HostState, QueueTold
<1>6. \A j \in PendingSlots : h.pending[j].in_use => WaitsTold(h.pending[j], kc, n)
  BY DEF QueueTold
<1>7. \A a, b \in PendingSlots : h.pending[a].in_use /\ h.pending[b].in_use => a = b
  BY DEF QueueTold
<1>8. mine = {j \in PendingSlots : h.pending[j].in_use}
  BY <1>3, <1>6 DEF WaitsTold
<1>9. CASE "SYN" \in s.flags
  <2>1. "ACK" \notin s.flags /\ s.seq = 1 /\ s.data = <<>>
    BY <1>1, <1>9 DEF SegTold
  <2>2. CASE mine # {} \/ free = {} \/ ~h.listening \/ s.dport # ListenPort
    BY <1>9, <2>1, <2>2 DEF tcp_accept_ingress
  <2>3. CASE ~(mine # {} \/ free = {} \/ ~h.listening \/ s.dport # ListenPort)
    <3> DEFINE f == Lowest(free)
               v == s.seq + 1
               p2 == [FreePending EXCEPT !.in_use = TRUE, !.peer_port = s.sport, !.peer_seq = v]
               g == [h EXCEPT !.pending[f] = p2]
    <3>1. f \in PendingSlots
      <4>1. free \in SUBSET PendingSlots /\ free # {}
        BY <2>3
      <4> HIDE DEF free
      <4> QED BY <4>1, LowestSlot
    <3>2. h2 = g
      BY <1>9, <2>1, <2>3 DEF tcp_accept_ingress
    <3>3. v = 2 /\ v \in Nat
      BY <2>1
    <3> HIDE DEF f, v, h2
    <3>4. /\ p2 \in PendingState /\ p2.in_use = TRUE /\ p2.peer_port = 1 /\ p2.peer_seq = 2
          /\ p2.syn_acked = FALSE /\ p2.established = FALSE /\ p2.rx = <<>>
      <4> DEFINE z == FreePending
                 sp == s.sport
      <4>1. z \in PendingState /\ z.syn_acked = FALSE /\ z.established = FALSE /\ z.rx = <<>>
        BY DEF FreePending, PendingState
      <4>2. sp = 1
        BY <1>3
      <4> HIDE DEF z, sp
      <4>3. /\ p2 \in PendingState /\ p2.in_use = TRUE /\ p2.peer_port = sp /\ p2.peer_seq = v
            /\ p2.syn_acked = z.syn_acked /\ p2.established = z.established /\ p2.rx = z.rx
        <5>1. p2 = [z EXCEPT !.in_use = TRUE, !.peer_port = sp, !.peer_seq = v]
          BY DEF z, sp
        <5> HIDE DEF p2
        <5> QED BY <3>3, <4>1, <4>2, <5>1 DEF PendingState
      <4> QED BY <3>3, <4>1, <4>2, <4>3
    <3> HIDE DEF p2
    <3>5. Len(p2.rx) = 0 /\ p2.rx = Units("client", Len(p2.rx))
      BY <3>4, NoUnits
    <3>6. WaitsTold(p2, kc, n)
      BY <1>4, <3>4, <3>5 DEF WaitsTold
    <3>7. \A j \in PendingSlots \ {f} : ~h.pending[j].in_use
      BY <1>8, <2>3
    <3>8. Len(p2.rx) <= StageRoom
      BY <3>5, RoomsAre
    <3>9. Early(ks) /\ p2.in_use => /\ WaitsTold(p2, kc, n)
                                    /\ \A j \in PendingSlots \ {f} : ~h.pending[j].in_use
      BY <3>6, <3>7
    <3>10. n = n \/ p2.in_use
      OBVIOUS
    <3> HIDE DEF g
    <3>11. Good(g)
      BY <3>1, <3>4, <3>8, <3>9, <3>10, QueuePut DEF g
    <3> QED BY <3>2, <3>11 DEF h2
  <2> QED BY <2>2, <2>3
<1>10. CASE "SYN" \notin s.flags
  <2>1. "ACK" \in s.flags /\ Joined(kc)
    BY <1>1, <1>10 DEF SegTold
  <2>2. CASE mine = {} \/ ~h.listening \/ s.dport # ListenPort
    BY <1>10, <2>1, <2>2 DEF tcp_accept_ingress
  <2>3. CASE ~(mine = {} \/ ~h.listening \/ s.dport # ListenPort)
    <3> DEFINE p == h.pending[i]
               e == Established(p, s)
               g == [h EXCEPT !.pending[i] = e]
    <3>1. i \in mine
      <4>1. mine \in SUBSET PendingSlots /\ mine # {}
        BY <2>3
      <4> HIDE DEF mine
      <4> QED BY <4>1, LowestSlot
    <3>2. h2 = [h EXCEPT !.pending[i] = Established(h.pending[i], s)]
      BY <1>10, <2>1, <2>3 DEF tcp_accept_ingress
    <3>3. i \in PendingSlots /\ p \in PendingState /\ p.in_use /\ WaitsTold(p, kc, n)
          /\ (s.seq = p.peer_seq => Len(p.rx) + Len(s.data) <= StageRoom)
          /\ Len(p.rx) <= StageRoom
      BY <1>5, <1>6, <3>1
    <3>4. \A j \in PendingSlots \ {i} : ~h.pending[j].in_use
      BY <1>7, <3>3
    <3> DEFINE done == p.established \/ p.syn_acked
               taken == done /\ s.data # <<>> /\ s.seq = p.peer_seq
               kept == taken /\ Len(p.rx) + Len(s.data) <= StageRoom
    <3>5. /\ e \in PendingState /\ e.in_use = p.in_use /\ e.peer_port = p.peer_port
          /\ e.isn = p.isn /\ e.syn_acked = p.syn_acked /\ e.established = done
          /\ e.peer_seq = IF taken THEN p.peer_seq + Len(s.data) ELSE p.peer_seq
          /\ e.rx = IF kept THEN p.rx \o s.data ELSE p.rx
      BY <1>3, <3>3, EstablishedIs
    <3> HIDE DEF p, e, h2, i, kc
    <3>6. p.syn_acked => p.isn + 1 = n
      BY <3>3 DEF WaitsTold
    <3>7. done => p.syn_acked
      BY <3>3 DEF WaitsTold
    <3>8. CASE ~taken
      <4>1. e.peer_seq = p.peer_seq /\ e.rx = p.rx
        BY <3>5, <3>8
      <4>2. e.established => e.syn_acked /\ Joined(kc)
        BY <2>1, <3>5, <3>7
      <4>3. WaitsTold(e, kc, n)
        BY <3>3, <3>5, <4>1, <4>2 DEF WaitsTold
      <4>4. Len(e.rx) <= StageRoom
        BY <3>3, <4>1
      <4>5. Early(ks) /\ e.in_use => /\ WaitsTold(e, kc, n)
                                      /\ \A j \in PendingSlots \ {i} : ~h.pending[j].in_use
        BY <3>4, <4>3
      <4>6. n = n \/ e.in_use
        OBVIOUS
      <4> HIDE DEF g
      <4>7. Good(g)
        BY <3>3, <3>5, <4>4, <4>5, <4>6, QueuePut DEF g, kc
      <4> QED BY <3>2, <4>7 DEF g, h2, e, p, i, kc
    <3>9. CASE taken
      <4>1. kept
        BY <3>3, <3>9
      <4>2. PICK u \in 1 .. kc.sent : s.data = <<Unit("client", 1, u)>>
                                      /\ s.seq = N("client") + u - 1
        BY <1>1, <3>9 DEF SegTold, kc
      <4> DEFINE l == Len(p.rx)
                 rx == p.rx
                 data == s.data
      <4>3. rx \in Seq(UnitState) /\ data \in Seq(UnitState) /\ Len(data) = 1
            /\ l = Len(rx)
        BY <1>3, <3>3, <4>2 DEF PendingState, SegState
      <4>4. l \in Nat
        <5> HIDE DEF rx, data
        <5>1. Len(rx) \in Nat
          BY <4>3, LenProperties
        <5> QED BY <5>1, <4>3
      <4>5. p.peer_seq = 2 + l /\ p.rx = Units("client", l) /\ l <= kc.sent
        BY <3>3 DEF WaitsTold
      <4>6. e.peer_seq = p.peer_seq + 1 /\ e.rx = rx \o data
        BY <3>5, <3>9, <4>1, <4>3
      <4>7. u = l + 1 /\ u <= kc.sent
        <5> HIDE DEF l
        <5>1. u \in Nat /\ u <= kc.sent
          BY <1>4, <4>2 DEF kc
        <5>2. s.seq = 2 + u - 1
          BY <1>4, <4>2
        <5>3. s.seq = 2 + l
          BY <3>9, <4>5
        <5> QED BY <4>4, <5>1, <5>2, <5>3
      <4>8. e.rx = Units("client", l + 1) /\ Len(e.rx) = l + 1
        <5> HIDE DEF l
        <5>1. e.rx = Units("client", l) \o <<Unit("client", 1, l + 1)>>
          BY <4>2, <4>5, <4>6, <4>7
        <5>2. e.rx = Units("client", l + 1)
          BY <1>0, <4>4, <5>1, UnitsGrow
        <5>3. l + 1 \in Nat
          BY <4>4
        <5>4. Len(Units("client", l + 1)) = l + 1
          BY <1>0, <5>3, UnitsAre
        <5> QED BY <5>2, <5>4
      <4>9. Len(e.rx) <= StageRoom
        BY <4>1, <4>3, <4>8
      <4> HIDE DEF l
      <4>10. e.peer_seq = 2 + Len(e.rx) /\ e.rx = Units("client", Len(e.rx)) /\ Len(e.rx) <= kc.sent
        BY <4>4, <4>5, <4>6, <4>7, <4>8
      <4>11. e.syn_acked /\ Joined(kc) /\ kc.call # "none" /\ e.peer_port = 1
        BY <1>4, <2>1, <3>3, <3>5, <3>7, <3>9 DEF WaitsTold, kc
      <4>12. WaitsTold(e, kc, n)
        BY <3>5, <3>6, <4>10, <4>11 DEF WaitsTold
      <4>13. Early(ks) /\ e.in_use => /\ WaitsTold(e, kc, n)
                                       /\ \A j \in PendingSlots \ {i} : ~h.pending[j].in_use
        BY <3>4, <4>12
      <4>14. n = n \/ e.in_use
        OBVIOUS
      <4> HIDE DEF g
      <4>15. Good(g)
        BY ZenonT(40), <3>3, <3>5, <4>9, <4>13, <4>14, QueuePut DEF g, kc
      <4> QED BY <3>2, <4>15 DEF g, h2, e, p, i, kc
    <3> QED BY <3>8, <3>9 DEF h2, p, kc
  <2> QED BY <2>2, <2>3
<1> QED BY <1>9, <1>10

-----------------------------------------------------------------------------
(* Resets, and the beginning of a connection                               *)

\* What comes from elsewhere resets a connection, and frees no slot.
LEMMA ResetKeeps ==
  ASSUME TcpSockets = 1, TcpInv, NEW m \in Machines, Reset(m, 1)
  PROVE  TcpInv'
<1> DEFINE to == IF m = "client" THEN sock[m][1].port ELSE ListenPort
           from == IF m = "client" THEN ListenPort ELSE sock["client"][1].port
           reset == Segment(Other(m), from, to, 0, 0, {"RST"}, <<>>)
           k == K(m)
           c == C(m)
           o == Other(m)
<1>1. sock' = sock /\ wire' = wire /\ sock["client"][1].port # 0
  BY DEF Reset
<1>2. host' = [host EXCEPT ![m] = tcp_dispatch_cb(@, reset)]
      \/ host' = [host EXCEPT ![m] = tcp_accept_ingress(@, reset)]
  BY DEF Reset
<1>3. reset.flags = {"RST"} /\ reset.dport = to /\ reset.sport = from /\ reset.data = <<>>
  BY DEF Segment
<1>4. EndTold("client", K("client"), C("client"), N("client"))
      /\ K("client") = sock["client"][1] /\ K("client").port = 1
  <2>1. EndTold("client", K("client"), C("client"), N("client"))
    BY InvFacts, MachinesAre
  <2>2. K("client") = sock["client"][1]
    BY DEF K
  <2> QED BY <1>1, <2>1, <2>2 DEF EndTold
<1>5. to = Own(m)
  BY <1>4 DEF Own
<1>6. /\ EndTold(m, k, c, N(m)) /\ EndTold(o, K(o), C(o), N(o))
      /\ FlowTold(m, k, c, N(m), K(o), C(o)) /\ FlowTold(o, K(o), C(o), N(o), k, c)
      /\ host[m] \in HostState /\ Holder(host[m], k, c)
  BY InvFacts
<1>7. CASE host' = [host EXCEPT ![m] = tcp_dispatch_cb(@, reset)]
  <2> HIDE DEF reset, to, from
  <2>1. tcp_dispatch_cb(host[m], reset)
          = IF Live(k) THEN WithConn(host[m], k.slot, Dispatched(c, reset)) ELSE host[m]
    BY <1>3, <1>5, <1>6, DispatchedTo
  <2>2. CASE Live(k)
    <3> DEFINE d == Dispatched(c, reset)
    <3>1. d \in ConnState /\ SameConn(c, d) /\ d.rx = c.rx /\ d.ack = c.ack
          /\ d.fin = c.fin /\ d.acked = c.acked /\ d.synack = c.synack
          /\ (k.call = "connect" => ~d.need_ack)
      <4>1. c \in ConnState
        BY <1>6 DEF EndTold
      <4>2. d \in ConnState /\ SameConn(c, d) /\ d.rx = c.rx /\ d.ack = c.ack
            /\ d.fin = c.fin /\ d.acked = c.acked /\ d.synack = c.synack
        BY <1>3, <4>1, DispatchedReset
      <4>3. d.need_ack = c.need_ack
        <5>1. d = [c EXCEPT !.rst = TRUE]
          BY <1>3 DEF Dispatched
        <5> HIDE DEF d
        <5> QED BY <4>1, <5>1 DEF ConnState
      <4> QED BY <4>2, <4>3, <1>6 DEF EndTold
    <3>2. host' = [host EXCEPT ![m] = WithConn(@, k.slot, d)]
      BY <1>7, <2>1, <2>2
    <3> HIDE DEF d
    <3>3. EndTold(m, k, d, N(m))
      <4>1. Len(d.rx) <= RxRoom /\ (k.call = "connect" => d.rx = <<>> /\ ~d.fin /\ ~d.need_ack)
        BY <1>6, <3>1 DEF EndTold
      <4> QED BY <1>6, <2>2, <3>1, <4>1, EndKept
    <3>4. FlowTold(o, K(o), C(o), N(o), k, d) /\ Taken(k, d) = Taken(k, c)
      BY <1>6, <3>1, FlowKept
    <3>5. FlowTold(m, k, d, N(m), K(o), C(o))
      BY <1>6, <3>1 DEF FlowTold
    <3>6. Taken(k, d) >= Taken(k, c) /\ k \in SockState /\ N(m) \in Nat
      BY <2>2, <3>4, CallStarts, LiveIs
    <3>7. Later(k, c, N(m), k, d, N(m))
      BY <3>6, LaterSame
    <3>8. sock' = [sock EXCEPT ![m] = [@ EXCEPT ![1] = k]] /\ wire' \ wire = {}
      BY <1>1, SockKept
    <3> QED BY <2>2, <3>1, <3>2, <3>3, <3>4, <3>5, <3>6, <3>7, <3>8, InPlace
  <2>3. CASE ~Live(k)
    <3>1. host' = host
      BY <1>7, <2>1, <2>3 DEF TcpInv, ShapeTold
    <3> QED BY <1>1, <3>1, Unchanged DEF tcpVars
  <2> QED BY <2>2, <2>3
<1>8. CASE host' = [host EXCEPT ![m] = tcp_accept_ingress(@, reset)]
  <2> DEFINE h == host[m]
             mine == {i \in PendingSlots : h.pending[i].in_use /\ h.pending[i].peer_port = reset.sport}
             i == Lowest(mine)
             h2 == [h EXCEPT !.pending[i].in_use = FALSE]
  <2>1. tcp_accept_ingress(h, reset)
          = IF ~h.listening \/ reset.dport # ListenPort \/ mine = {} THEN h ELSE h2
    BY <1>3 DEF tcp_accept_ingress
  <2>2. CASE ~h.listening \/ reset.dport # ListenPort \/ mine = {}
    <3>1. host' = host
      BY <1>8, <2>1, <2>2 DEF TcpInv, ShapeTold
    <3> QED BY <1>1, <3>1, Unchanged DEF tcpVars
  <2>3. CASE ~(~h.listening \/ reset.dport # ListenPort \/ mine = {})
    <3>1. m = "server"
      BY <2>3 DEF TcpInv, RestTold, Machines
    <3>2. mine \in SUBSET PendingSlots /\ mine # {}
      BY <2>3
    <3>3. i \in PendingSlots
      BY <3>2, LowestSlot
    <3>4. QueueTold(h.pending, K("client"), K("server"), N("server"))
      BY <3>1 DEF TcpInv, RestTold, P
    <3> HIDE DEF i, mine
    <3>5. /\ h2 \in HostState /\ h2.tcp = h.tcp /\ h2.next_port = h.next_port
          /\ QueueTold(h2.pending, K("client"), K("server"), N("server"))
      BY <1>6, <3>3, <3>4, QueueLeft
    <3>6. host' = [host EXCEPT !["server"] = h2]
      BY <1>8, <2>1, <2>3, <3>1 DEF i, mine
    <3> HIDE DEF h2
    <3>7. h2.next_port = N("server") /\ N("server") \in 1 .. MaxPort + 1 /\ N("server") \in Nat
      BY <1>6, <3>1, <3>5, RoomsAre DEF N, EndTold
    <3>8. sock' = [sock EXCEPT !["server"] = [@ EXCEPT ![1] = K("server")]] /\ wire' \ wire = {}
          /\ K("server") \in SockState
      BY <1>1, <1>6, <3>1, SockKept DEF EndTold
    <3>9. h2.tcp = host["server"].tcp /\ h2.next_port >= N("server")
          /\ h2.next_port \in 1 .. MaxPort + 1
      BY <3>1, <3>5, <3>7
    <3>10. K("client").call # "none"
      BY <1>4 DEF EndTold, Early
    <3>11. QueueTold(h2.pending, K("client"), K("server"), h2.next_port)
      BY <3>5, <3>7
    <3> QED BY <3>5, <3>6, <3>7, <3>8, <3>9, <3>10, <3>11, QueueMoves
  <2> QED BY <2>2, <2>3
<1> QED BY <1>2, <1>7, <1>8

LEMMA ListenKeeps ==
  ASSUME TcpSockets = 1, TcpInv, net_tcp_listen
  PROVE  TcpInv'
<1> DEFINE h == host["server"]
           empty == [i \in PendingSlots |-> FreePending]
           h2 == [h EXCEPT !.listening = TRUE, !.pending = empty]
           k == K("server")
<1>0. "server" \in Machines
  BY MachinesAre
<1>1. h \in HostState /\ k \in SockState /\ EndTold("server", k, C("server"), N("server"))
      /\ h.next_port = N("server") /\ N("server") \in 1 .. MaxPort + 1 /\ N("server") \in Nat
      /\ host \in [Machines -> HostState]
  BY <1>0, InvFacts, RoomsAre DEF N, EndTold, TcpInv, ShapeTold
<1>2. FreePending \in PendingState /\ Len(FreePending.rx) <= StageRoom /\ ~FreePending.in_use
  BY RoomsAre DEF FreePending, PendingState
<1>3. empty \in [PendingSlots -> PendingState]
  BY <1>2
<1>4. host' = [host EXCEPT !["server"] = h2]
  BY <1>0, <1>1 DEF net_tcp_listen
<1>5. QueueTold(empty, K("client"), k, N("server"))
  BY <1>2 DEF QueueTold
<1> HIDE DEF empty, h
<1>6. h2 \in HostState /\ h2.tcp = h.tcp /\ h2.next_port = h.next_port /\ h2.pending = empty
  BY <1>1, <1>3 DEF HostState
<1>7. sock' = [sock EXCEPT !["server"] = [@ EXCEPT ![1] = k]] /\ wire' = wire
  BY <1>0, SockKept DEF net_tcp_listen
<1>8. K("client").call = "none" => wire' = {}
  BY <1>7 DEF TcpInv, RestTold
<1>9. wire' \ wire = {}
  BY <1>7
<1> HIDE DEF h2
<1>10. /\ h2.tcp = host["server"].tcp /\ h2.next_port = N("server")
       /\ h2.next_port \in 1 .. MaxPort + 1 /\ h2.next_port >= N("server")
       /\ QueueTold(h2.pending, K("client"), k, h2.next_port)
  BY <1>1, <1>5, <1>6 DEF h
<1> QED BY <1>1, <1>4, <1>6, <1>7, <1>8, <1>9, <1>10, QueueMoves

LEMMA AcceptCalledKeeps ==
  ASSUME TcpSockets = 1, TcpInv, AcceptCalled(1)
  PROVE  TcpInv'
<1> DEFINE h == host["server"]
           k == K("server")
           k2 == [k EXCEPT !.call = "accept"]
<1>0. "server" \in Machines
  BY MachinesAre
<1>1. h \in HostState /\ k \in SockState /\ EndTold("server", k, C("server"), N("server"))
      /\ h.next_port = N("server") /\ N("server") \in 1 .. MaxPort + 1 /\ N("server") \in Nat
      /\ host \in [Machines -> HostState] /\ QueueTold(h.pending, K("client"), k, N("server"))
  BY <1>0, InvFacts, RoomsAre DEF N, P, EndTold, TcpInv, ShapeTold, RestTold
<1>2. k.call = "none" /\ Early(k) /\ host' = host /\ wire' = wire
  BY DEF AcceptCalled, K, Early
<1>3. host' = [host EXCEPT !["server"] = h]
  BY <1>1, <1>2
<1>4. sock' = [sock EXCEPT !["server"] = [@ EXCEPT ![1] = k2]]
  BY DEF AcceptCalled, K
<1>5. K("client").call = "none" => wire' = {}
  BY <1>2 DEF TcpInv, RestTold
<1>6. wire' \ wire = {}
  BY <1>2
<1>7. k2 \in SockState /\ Early(k2)
  BY <1>1 DEF SockState, Calls, Early
<1>8. QueueTold(h.pending, K("client"), k2, N("server"))
  BY <1>1, <1>2, <1>7 DEF QueueTold
<1> HIDE DEF k2
<1>9. (k2 = K("server") /\ h.next_port = N("server"))
      \/ (Early(K("server")) /\ k2 = [K("server") EXCEPT !.call = "accept"])
  BY <1>2 DEF k2
<1>10. h.tcp = host["server"].tcp /\ h.next_port \in 1 .. MaxPort + 1 /\ h.next_port >= N("server")
       /\ QueueTold(h.pending, K("client"), k2, h.next_port)
  BY <1>1, <1>8
<1> HIDE DEF h
<1> QED BY <1>1, <1>3, <1>4, <1>5, <1>6, <1>7, <1>9, <1>10, QueueMoves

\* What a connection of the queue becomes, and the SYN-ACKs sent meanwhile.
FromQueue(p) ==
  [FreeConn EXCEPT !.used = TRUE, !.open = TRUE, !.sport = ListenPort, !.dport = p.peer_port,
                   !.seq = p.isn + 1, !.ack = p.peer_seq, !.rx = p.rx]
ForQueue(k, j, p) == [k EXCEPT !.call = "idle", !.slot = j, !.port = p.peer_port]

LEMMA ForQueueIs ==
  ASSUME NEW k \in SockState, NEW j \in TcpSlots, NEW p, p.peer_port = 1
  PROVE  LET k2 == ForQueue(k, j, p) IN
         /\ k2 \in SockState /\ k2.call = "idle" /\ k2.slot = j /\ k2.port = 1
         /\ k2.sent = k.sent /\ k2.told = k.told /\ k2.got = k.got /\ k2.eof = k.eof /\ j # 0
<1>1. j \in 0 .. TcpConns /\ j # 0
  BY RoomsAre DEF TcpSlots
<1> DEFINE d == [k EXCEPT !.call = "idle", !.slot = j, !.port = 1]
<1>2. ForQueue(k, j, p) = d
  BY DEF ForQueue
<1>3. /\ d \in SockState /\ d.call = "idle" /\ d.slot = j /\ d.port = 1
      /\ d.sent = k.sent /\ d.told = k.told /\ d.got = k.got /\ d.eof = k.eof
  BY <1>1 DEF SockState, Calls
<1> QED BY <1>1, <1>2, <1>3

\* When the server's machine moves.
LEMMA ServerBecomes ==
  ASSUME TcpSockets = 1, ShapeTold, NEW h2 \in HostState, NEW k2 \in SockState, NEW c2,
         Holder(h2, k2, c2), host' = [host EXCEPT !["server"] = h2],
         sock' = [sock EXCEPT !["server"] = [@ EXCEPT ![1] = k2]]
  PROVE  /\ P("server")' = h2.pending /\ N("server")' = h2.next_port /\ K("server")' = k2
         /\ K("client")' = K("client") /\ P("client")' = P("client")
         /\ host'["client"] = host["client"]
<1>1. "server" \in Machines /\ "client" \in Machines \ {"server"}
  BY DEF Machines
<1> QED BY <1>1, HostBecomes

SynAcksTold(acks, n2) ==
  \A k2, c2 : Taken(k2, c2) \in Nat =>
    \A s \in acks : SegTold(s, "server", k2, c2, n2, K("client"), N("client"))

\* A connection leaves the queue, whole, and becomes the server's.
LEMMA AcceptedKeeps ==
  ASSUME TcpSockets = 1, TcpInv, K("server").call = "accept", NEW h \in HostState,
         h.tcp = host["server"].tcp, h.next_port \in 1 .. MaxPort + 1,
         h.next_port >= N("server"), QueueTold(h.pending, K("client"), K("server"), h.next_port),
         NEW i \in PendingSlots, h.pending[i].in_use, h.pending[i].established,
         NEW j \in TcpSlots, NEW h2 \in HostState, NEW c2,
         c2 = FromQueue(h.pending[i]),
         h2.tcp = [h.tcp EXCEPT ![j] = c2], h2.next_port = h.next_port,
         QueueTold(h2.pending, K("client"), K("server"), h.next_port),
         host' = [host EXCEPT !["server"] = h2],
         NEW k2, k2 = ForQueue(K("server"), j, h.pending[i]),
         sock' = [sock EXCEPT !["server"] = [@ EXCEPT ![1] = k2]],
         SynAcksTold(wire' \ wire, h.next_port)
  PROVE  TcpInv'
<1> DEFINE k == K("server")
           c == C("server")
           kc == K("client")
           cc == C("client")
           n == N("server")
           n2 == h.next_port
           p == h.pending[i]
<1>0. "server" \in Machines /\ "client" \in Machines /\ Other("server") = "client"
      /\ "client" # "server"
  BY MachinesAre
<1>1. /\ EndTold("server", k, c, n) /\ EndTold("client", kc, cc, N("client"))
      /\ FlowTold("server", k, c, n, kc, cc) /\ k \in SockState /\ c \in ConnState
      /\ FlowTold("client", kc, cc, N("client"), k, c) /\ Holder(host["server"], k, c)
      /\ ShapeTold /\ RestTold /\ kc \in SockState /\ cc \in ConnState
  BY <1>0, InvFacts DEF TcpInv
<1>2. k.call = "accept" /\ Early(k) /\ ~Live(k) /\ ~Joined(k) /\ k.slot = 0
  BY <1>1 DEF Early, Live, Joined, EndTold
<1>3. n \in Nat /\ n2 \in Nat /\ n2 >= n /\ n2 \in 1 .. MaxPort + 1
  BY <1>1, RoomsAre DEF EndTold
<1>4. WaitsTold(p, kc, n2) /\ p \in PendingState /\ Len(p.rx) <= StageRoom
  BY <1>2 DEF QueueTold
<1>5. p.established /\ p.syn_acked /\ Joined(kc) /\ p.isn + 1 = n2 /\ p.peer_port = 1
      /\ p.peer_seq = 2 + Len(p.rx) /\ p.rx = Units("client", Len(p.rx)) /\ Len(p.rx) <= kc.sent
  BY <1>4 DEF WaitsTold
<1>6. N("client") = 2
  BY <1>1, <1>5 DEF EndTold, Joined
<1>7. Taken(k, c) \in Nat /\ k.got = <<>> /\ k.sent = 0 /\ k.told = 0 /\ ~k.eof
      /\ Taken(kc, cc) \in Nat /\ cc.ack \in Nat /\ kc.told \in Nat
  BY <1>1, <1>2, LengthsAre DEF EndTold, ConnState, SockState
<1>8. c = FreeConn /\ Taken(k, c) = 0
  <2>1. c = FreeConn
    BY <1>1, <1>2 DEF Holder
  <2>2. Len(k.got) = 0 /\ Len(c.rx) = 0 /\ Taken(k, c) = Len(k.got) + Len(c.rx)
    BY <1>1, <1>7, <2>1, FreeConnIs, LengthsAre
  <2>3. Taken(k, c) = 0 + 0
    BY <2>2
  <2> QED BY <2>1, <2>3
<1>10. h2.tcp = [h.tcp EXCEPT ![j] = c2] /\ h.tcp = host["server"].tcp
       /\ h.tcp \in [TcpSlots -> ConnState]
  BY DEF HostState
<1> DEFINE rx == p.rx
           l == Len(p.rx)
           q == p.isn + 1
           a == p.peer_seq
           d == p.peer_port
<1>11. c2 = [FreeConn EXCEPT !.used = TRUE, !.open = TRUE, !.sport = ListenPort,
                 !.dport = d, !.seq = q, !.ack = a, !.rx = rx]
  BY DEF FromQueue
<1>12. rx \in Seq(UnitState) /\ q \in Nat /\ a \in Nat /\ d \in Nat /\ ListenPort \in Nat
       /\ d = 1 /\ q = n2 /\ a = 2 + l /\ rx = Units("client", l) /\ l <= kc.sent
       /\ l <= StageRoom /\ l = Len(rx)
  BY <1>3, <1>4, <1>5, OwnFar DEF PendingState
<1> HIDE DEF rx, q, a, d, p, n2, k, c, kc, cc, n
<1>13. l \in Nat
  BY <1>12, LenProperties
<1> HIDE DEF l
<1>14. /\ c2 \in ConnState /\ c2.used = TRUE /\ c2.open = TRUE /\ c2.sport = ListenPort
       /\ c2.dport = 1 /\ c2.seq = n2 /\ c2.ack = 2 + l /\ c2.rx = rx /\ c2.connecting = FALSE
       /\ c2.fin = FALSE /\ c2.need_ack = FALSE /\ c2.acked = FALSE
  <2> DEFINE f == FreeConn
  <2>1. f \in ConnState /\ f.connecting = FALSE /\ f.fin = FALSE /\ f.need_ack = FALSE
        /\ f.acked = FALSE
    BY FreeConnIs DEF FreeConn
  <2> HIDE DEF f
  <2>2. c2 = [f EXCEPT !.used = TRUE, !.open = TRUE, !.sport = ListenPort,
                 !.dport = d, !.seq = q, !.ack = a, !.rx = rx]
    BY <1>11 DEF f
  <2> QED BY ZenonT(40), <1>12, <2>1, <2>2 DEF ConnState
<1>15. /\ k2 \in SockState /\ k2.call = "idle" /\ k2.slot = j /\ k2.port = 1 /\ k2.sent = 0
       /\ k2.told = 0 /\ k2.got = <<>> /\ k2.eof = k.eof /\ j # 0
  <2>1. k2 \in SockState /\ k2.call = "idle" /\ k2.slot = j /\ k2.port = 1
        /\ k2.sent = k.sent /\ k2.told = k.told /\ k2.got = k.got /\ k2.eof = k.eof /\ j # 0
    BY <1>1, <1>5, ForQueueIs DEF k, p
  <2> QED BY <1>7, <2>1
<1>h. h.next_port = n2 /\ h2.next_port = n2
  BY DEF n2
<1>16. Live(k2) /\ Joined(k2) /\ ~Early(k2)
  BY <1>15 DEF Live, Joined, Early
<1>17. Taken(k2, c2) = l
  <2>1. Len(k2.got) = 0 /\ Len(c2.rx) = l
    BY <1>12, <1>14, <1>15
  <2> QED BY <1>13, <2>1 DEF Taken
<1>18. EndTold("server", k2, c2, n2)
  <2>1. Len(c2.rx) <= RxRoom
    BY <1>12, <1>13, <1>14, RoomsAre
  <2>2. Own("server") = ListenPort /\ Far("server") = 1
    BY DEF Own, Far
  <2>3. c2.seq = n2 + k2.told
    BY <1>3, <1>14, <1>15
  <2> QED BY <1>0, <1>3, <1>14, <1>15, <1>16, <2>1, <2>2, <2>3 DEF EndTold
<1>19. FlowTold("client", kc, cc, N("client"), k2, c2)
  <2>1. k2.got \o c2.rx = Units("client", l)
    BY <1>12, <1>14, <1>15, ConcatEmptySeq
  <2>2. ~(kc.call = "send" /\ cc.acked)
    BY <1>1, <1>2, <1>7, <1>8 DEF FlowTold
  <2>3. kc.told = 0
    BY <1>1, <1>2, <1>7, <1>8 DEF FlowTold
  <2>4. l >= kc.told
    BY <1>13, <2>3
  <2>5. c2.ack = N("client") + Taken(k2, c2)
    BY <1>6, <1>14, <1>17
  <2> QED BY <1>7, <1>12, <1>14, <1>15, <1>17, <2>1, <2>2, <2>4, <2>5 DEF FlowTold
<1>20. FlowTold("server", k2, c2, n2, kc, cc)
  <2>1. Taken(kc, cc) = 0
    BY <1>1, <1>7 DEF FlowTold
  <2>2. Live(kc) /\ ~cc.fin => cc.ack = n2 + Taken(kc, cc) \/ (cc.ack < n2 /\ Taken(kc, cc) = 0)
    BY <1>1, <1>3, <1>7, <2>1 DEF FlowTold
  <2>3. ~cc.fin \/ ~Live(kc)
    BY <1>1, <1>2 DEF FlowTold
  <2>4. ~kc.eof
    BY <1>1, <1>2 DEF FlowTold
  <2>5. k2.call # "send"
    BY <1>15
  <2>6. kc.got \o cc.rx = Units("server", Taken(kc, cc))
    BY <1>1 DEF FlowTold
  <2> QED BY <1>15, <2>1, <2>2, <2>3, <2>4, <2>5, <2>6 DEF FlowTold
<1>21. Later(k, c, n, k2, c2, n2)
  <2>1. k2.sent >= k.sent /\ Taken(k2, c2) >= Taken(k, c)
    BY <1>7, <1>8, <1>13, <1>15, <1>17
  <2> QED BY <1>2, <1>3, <1>15, <2>1 DEF Later
<1>22. Holder(h2, k2, c2)
  <2>1. \A x \in TcpSlots : h.tcp[x] = FreeConn
    BY <1>1, <1>2, <1>8, <1>10 DEF Holder
  <2> QED BY <1>10, <1>15, <2>1 DEF Holder
<1>23. RestTold'
  <2>1. /\ P("server")' = h2.pending /\ N("server")' = n2 /\ K("server")' = k2
        /\ K("client")' = kc /\ P("client")' = P("client") /\ host'["client"] = host["client"]
    <3>1. "server" \in Machines /\ h2 \in HostState /\ k2 \in SockState /\ Holder(h2, k2, c2)
          /\ ShapeTold
      BY <1>0, <1>1, <1>15, <1>22
    <3>2. host' = [host EXCEPT !["server"] = h2] /\ sock' = [sock EXCEPT !["server"] = [@ EXCEPT ![1] = k2]]
      OBVIOUS
    <3>3. /\ P("server")' = h2.pending /\ N("server")' = h2.next_port /\ K("server")' = k2
          /\ K("client")' = K("client") /\ P("client")' = P("client")
          /\ host'["client"] = host["client"]
      BY <3>1, <3>2, ServerBecomes
    <3> QED BY <1>h, <3>3 DEF kc
  <2>2. kc.call # "none" /\ OrderTold(kc, k2)
    BY <1>5 DEF OrderTold, Joined
  <2>3. QueueTold(h2.pending, kc, k2, n2)
    BY <1>16 DEF QueueTold, kc
  <2> QED BY <1>1, <2>1, <2>2, <2>3 DEF RestTold, QueueTold, WaitsTold, OrderTold, kc
<1>24. \A s \in wire' \ wire : SegTold(s, "server", k2, c2, n2, kc, N("client"))
  BY <1>13, <1>17 DEF kc, n2, SynAcksTold
<1>25. host' = [host EXCEPT !["server"] = h2] /\ h2 \in HostState
  OBVIOUS
<1>26. sock' = [sock EXCEPT !["server"] = [@ EXCEPT ![1] = k2]] /\ k2 \in SockState
  BY <1>15
<1>27. /\ EndTold("server", k2, c2, h2.next_port)
       /\ FlowTold("server", k2, c2, h2.next_port, K("client"), C("client"))
       /\ FlowTold("client", K("client"), C("client"), N("client"), k2, c2)
       /\ Later(K("server"), C("server"), N("server"), k2, c2, h2.next_port)
       /\ \A s \in wire' \ wire : SegTold(s, "server", k2, c2, h2.next_port, K("client"), N("client"))
  BY <1>18, <1>19, <1>20, <1>21, <1>24, <1>h DEF k, c, n, kc, cc
<1> QED BY ZenonT(40), <1>0, <1>22, <1>23, <1>25, <1>26, <1>27, Stepped

LEMMA AcceptKeeps ==
  ASSUME TcpSockets = 1, TcpInv, RoomForArrivals, net_tcp_accept(1)
  PROVE  TcpInv'
<1> DEFINE h == SynAcked(host["server"])
           k == K("server")
           kc == K("client")
           n == N("server")
           done == Complete(h)
           i == Lowest(done)
           free == tcp_conn_alloc(h)
           j == Lowest(free)
           p == h.pending[i]
           left == [h EXCEPT !.pending[i].in_use = FALSE]
           idle == [k EXCEPT !.call = "none"]
<1>0. "server" \in Machines /\ "client" \in Machines
  BY MachinesAre
<1>1. k.call = "accept" /\ Early(k) /\ sock["server"][1] = k
      /\ wire' = wire \cup SynAcks(host["server"]) /\ h.next_port <= MaxPort + 1
  BY DEF net_tcp_accept, K, Early
<1>2. /\ EndTold("server", k, C("server"), n) /\ k \in SockState /\ host \in [Machines -> HostState]
      /\ n \in Nat /\ n >= 1 /\ sock \in [Machines -> [1 .. 1 -> SockState]]
      /\ C("server") \in ConnState
  BY <1>0, InvFacts, RoomsAre DEF TcpInv, ShapeTold, EndTold
<1>3. /\ h \in HostState /\ h.tcp = host["server"].tcp /\ h.listening = host["server"].listening
      /\ h.next_port \in Nat /\ h.next_port >= n
      /\ QueueTold(h.pending, kc, k, h.next_port)
      /\ \A x \in PendingSlots : /\ h.pending[x].in_use = host["server"].pending[x].in_use
                                 /\ h.pending[x].peer_seq = host["server"].pending[x].peer_seq
                                 /\ h.pending[x].rx = host["server"].pending[x].rx
      /\ kc.call = "none" => SynAcks(host["server"]) = {}
      /\ \A k2, c2 : Taken(k2, c2) \in Nat =>
           \A s \in SynAcks(host["server"]) : SegTold(s, "server", k2, c2, h.next_port, kc, N("client"))
  BY <1>1, SynAckedTold
<1>4. h.next_port \in 1 .. MaxPort + 1
  BY <1>1, <1>2, <1>3, RoomsAre
<1>5. wire' \ wire \subseteq SynAcks(host["server"])
      /\ (kc.call = "none" => wire' = {})
  BY <1>1, <1>3 DEF TcpInv, RestTold
<1>6. /\ SynAcksTold(wire' \ wire, h.next_port)
      /\ \A k2 \in SockState : \A s \in wire' \ wire :
           SegTold(s, "server", k2, C("server"), h.next_port, kc, N("client"))
  <2>1. \A k2 \in SockState : Taken(k2, C("server")) \in Nat
    BY <1>2, LengthsAre
  <2> QED BY <1>3, <1>5, <2>1 DEF SynAcksTold
<1>7. done \subseteq PendingSlots /\ \A x \in done : h.pending[x].in_use /\ h.pending[x].established
  BY DEF Complete
<1>8. done # {} => i \in done /\ i \in PendingSlots
  <2> SUFFICES ASSUME done # {} PROVE i \in done
    BY <1>7
  <2>1. done \in SUBSET PendingSlots
    BY <1>7
  <2> HIDE DEF done
  <2> QED BY <2>1, LowestSlot
<1>9. /\ idle \in SockState
      /\ Early(k) /\ idle = [K("server") EXCEPT !.call = "none"] /\ idle.call = "none"
      /\ Early(idle)
  BY <1>1, <1>2 DEF SockState, Calls, Early
<1>10. ASSUME NEW k2 \in SockState, NEW a \in {"none", "accept"},
              (k2 = K("server") /\ a = "accept") \/ (a = "none" /\ k2 = idle),
              NEW h2 \in HostState, h2.tcp = h.tcp, h2.next_port = h.next_port,
              QueueTold(h2.pending, kc, k, h.next_port), host' = [host EXCEPT !["server"] = h2],
              sock' = [sock EXCEPT !["server"] = [@ EXCEPT ![1] = k2]]
       PROVE  TcpInv'
  <2>1. Early(k2)
    BY <1>1, <1>9, <1>10
  <2>2. QueueTold(h2.pending, K("client"), k2, h2.next_port)
    BY <1>1, <1>10, <2>1 DEF QueueTold
  <2>3. \A s \in wire' \ wire : SegTold(s, "server", k2, C("server"), h2.next_port,
                                        K("client"), N("client"))
    BY <1>6, <1>10
  <2>4. Early(K("server")) /\ k2 = [K("server") EXCEPT !.call = a]
    <3>1. k = [k EXCEPT !.call = "accept"]
      BY <1>1, <1>2 DEF SockState
    <3> QED BY <1>1, <1>10, <3>1
  <2>5. h2.tcp = host["server"].tcp /\ h2.next_port \in 1 .. MaxPort + 1
        /\ h2.next_port >= N("server")
    BY <1>3, <1>4, <1>10
  <2> HIDE DEF h, k, idle
  <2> QED BY <1>5, <1>10, <2>2, <2>3, <2>4, <2>5, QueueMoves
<1>11. CASE /\ \E s \in Arrived("server") : host' = [host EXCEPT !["server"] = tcp_accept_ingress(h, s)]
            /\ sock' = sock
  <2>1. PICK s \in Arrived("server") : host' = [host EXCEPT !["server"] = tcp_accept_ingress(h, s)]
    BY <1>11
  <2> DEFINE h2 == tcp_accept_ingress(h, s)
  <2>2. \A x \in PendingSlots : h.pending[x].in_use /\ s.seq = h.pending[x].peer_seq =>
                                  Len(h.pending[x].rx) + Len(s.data) <= StageRoom
    <3>1. \A x \in PendingSlots : host["server"].pending[x].in_use
             /\ s.seq = host["server"].pending[x].peer_seq =>
               Len(host["server"].pending[x].rx) + Len(s.data) <= StageRoom
      <4>1. 1 \in 1 .. TcpSockets /\ sock["server"][1].call = "accept"
        BY <1>1
      <4> QED BY <1>0, <4>1 DEF RoomForArrivals
    <3> HIDE DEF h
    <3> QED BY <1>3, <3>1
  <2> HIDE DEF h
  <2>3. /\ h2 \in HostState /\ h2.tcp = h.tcp /\ h2.next_port = h.next_port
        /\ QueueTold(h2.pending, kc, k, h.next_port)
    BY <1>1, <1>3, <2>2, IngressTold
  <2>4. sock' = [sock EXCEPT !["server"] = [@ EXCEPT ![1] = K("server")]]
    BY <1>0, <1>11, SockKept
  <2>5. host' = [host EXCEPT !["server"] = h2]
    BY <2>1
  <2> HIDE DEF h2, k
  <2> QED BY <1>2, <1>10, <2>3, <2>4, <2>5 DEF k
<1>12. CASE /\ host' = [host EXCEPT !["server"] = h]
            /\ sock' = [sock EXCEPT !["server"][1].call = "none"]
  <2>1. sock' = [sock EXCEPT !["server"] = [@ EXCEPT ![1] = idle]]
    BY <1>1, <1>12
  <2> HIDE DEF h, idle
  <2> QED BY <1>3, <1>9, <1>10, <1>12, <2>1
<1>13. CASE /\ done # {}
            /\ host' = [host EXCEPT !["server"] = left]
            /\ sock' = [sock EXCEPT !["server"][1].call = "none"]
  <2>1. sock' = [sock EXCEPT !["server"] = [@ EXCEPT ![1] = idle]]
    BY <1>1, <1>13
  <2>2. i \in PendingSlots
    BY <1>8, <1>13
  <2> HIDE DEF h, idle, i
  <2>3. /\ left \in HostState /\ left.tcp = h.tcp /\ left.next_port = h.next_port
        /\ QueueTold(left.pending, kc, k, h.next_port)
    BY <1>3, <2>2, QueueLeft
  <2>4. host' = [host EXCEPT !["server"] = left]
    BY <1>13
  <2> HIDE DEF left
  <2> QED BY <1>9, <1>10, <2>1, <2>3, <2>4
<1>14. CASE /\ done # {} /\ free # {}
            /\ host' = [host EXCEPT !["server"] = WithConn(left, j, FromQueue(p))]
            /\ sock' = [sock EXCEPT !["server"][1] = ForQueue(@, j, p)]
  <2> DEFINE c2 == FromQueue(p)
             h2 == WithConn(left, j, c2)
             k2 == ForQueue(k, j, p)
  <2>1. i \in PendingSlots /\ p.in_use /\ p.established
    BY <1>7, <1>8, <1>14
  <2>2. j \in TcpSlots
    <3>1. free \in SUBSET TcpSlots /\ free # {}
      BY <1>14 DEF tcp_conn_alloc
    <3> HIDE DEF free
    <3> QED BY <3>1, LowestSlot
  <2>3. sock' = [sock EXCEPT !["server"] = [@ EXCEPT ![1] = k2]]
    BY <1>1, <1>14
  <2>p. WaitsTold(p, kc, h.next_port) /\ p \in PendingState
    BY <1>1, <1>3, <2>1 DEF QueueTold
  <2> HIDE DEF h, i, j, free, done
  <2>4. /\ left \in HostState /\ left.tcp = h.tcp /\ left.next_port = h.next_port
        /\ QueueTold(left.pending, kc, k, h.next_port)
    BY <1>3, <2>1, QueueLeft
  <2> HIDE DEF left, p
  <2>5. c2 \in ConnState
    <3> DEFINE f == FreeConn
               q == p.isn + 1
               a == p.peer_seq
               d == p.peer_port
               rx == p.rx
    <3>1. f \in ConnState /\ ListenPort \in Nat /\ q \in Nat /\ a \in Nat /\ d \in Nat
          /\ rx \in Seq(UnitState)
      BY <2>p, FreeConnIs, OwnFar DEF PendingState
    <3>2. c2 = [f EXCEPT !.used = TRUE, !.open = TRUE, !.sport = ListenPort, !.dport = d,
                         !.seq = q, !.ack = a, !.rx = rx]
      BY DEF FromQueue
    <3> HIDE DEF f, q, a, d, rx, c2
    <3> QED BY <3>1, <3>2 DEF ConnState
  <2> HIDE DEF c2
  <2>6. /\ h2 \in HostState /\ h2.tcp = [h.tcp EXCEPT ![j] = c2] /\ h2.pending = left.pending
        /\ h2.next_port = h.next_port
    <3> DEFINE t2 == [left.tcp EXCEPT ![j] = c2]
    <3>1. t2 \in [TcpSlots -> ConnState]
      BY <2>2, <2>4, <2>5 DEF HostState
    <3>2. h2 = [left EXCEPT !.tcp = t2]
      BY DEF WithConn
    <3>3. t2 = [h.tcp EXCEPT ![j] = c2]
      BY <2>4
    <3> HIDE DEF t2, h2
    <3>4. h2 \in HostState /\ h2.tcp = t2 /\ h2.pending = left.pending
          /\ h2.next_port = left.next_port
      BY <2>4, <3>1, <3>2 DEF HostState
    <3> QED BY <2>4, <3>3, <3>4
  <2>7. host' = [host EXCEPT !["server"] = h2]
    BY <1>14 DEF c2
  <2>8. QueueTold(h2.pending, K("client"), K("server"), h.next_port)
    BY <2>4, <2>6
  <2>9. /\ c2 = FromQueue(h.pending[i]) /\ k2 = ForQueue(K("server"), j, h.pending[i])
        /\ h.pending[i].in_use /\ h.pending[i].established
    BY <2>1 DEF c2, p
  <2>10. /\ K("server").call = "accept" /\ h \in HostState /\ h.tcp = host["server"].tcp
         /\ h.next_port \in 1 .. MaxPort + 1 /\ h.next_port >= N("server")
         /\ QueueTold(h.pending, K("client"), K("server"), h.next_port)
         /\ SynAcksTold(wire' \ wire, h.next_port)
    BY <1>1, <1>3, <1>4, <1>6
  <2> HIDE DEF h2, k2, k, n, kc
  <2> QED BY <2>1, <2>2, <2>3, <2>6, <2>7, <2>8, <2>9, <2>10, AcceptedKeeps
<1>15. \/ /\ \E s \in Arrived("server") : host' = [host EXCEPT !["server"] = tcp_accept_ingress(h, s)]
          /\ sock' = sock
       \/ /\ host' = [host EXCEPT !["server"] = h]
          /\ sock' = [sock EXCEPT !["server"][1].call = "none"]
       \/ /\ done # {} /\ free # {}
          /\ host' = [host EXCEPT !["server"] = WithConn(left, j, FromQueue(p))]
          /\ sock' = [sock EXCEPT !["server"][1] = ForQueue(@, j, p)]
       \/ /\ done # {}
          /\ host' = [host EXCEPT !["server"] = left]
          /\ sock' = [sock EXCEPT !["server"][1].call = "none"]
  BY DEF net_tcp_accept, FromQueue, ForQueue
<1> QED BY <1>11, <1>12, <1>13, <1>14, <1>15

\* A connection begins with a SYN that nothing precedes.
LEMMA PrepareKeeps ==
  ASSUME TcpSockets = 1, TcpInv, net_tcp_connect_prepare(1)
  PROVE  TcpInv'
<1> DEFINE m == "client"
           h == host[m]
           k == K(m)
           ks == K("server")
           cs == C("server")
           ns == N("server")
           free == tcp_conn_alloc(h)
           i == Lowest(free)
           np == h.next_port
           c2 == [FreeConn EXCEPT !.used = TRUE, !.connecting = TRUE, !.sport = np,
                                  !.dport = ListenPort, !.seq = np]
           k2 == [k EXCEPT !.call = "connect", !.slot = i, !.port = np]
           h2 == [WithConn(h, i, c2) EXCEPT !.next_port = np + 1]
           syn == send_tcp(m, c2, {"SYN"}, <<>>)
<1>0. m \in Machines /\ "server" \in Machines /\ Other(m) = "server" /\ "server" # m
  BY MachinesAre
<1>1. k.call = "none" /\ free # {} /\ np <= MaxPort
      /\ (wire' = wire \cup {syn} \/ wire' = {syn})
  BY DEF net_tcp_connect_prepare, K
<1>2. /\ EndTold(m, k, C(m), N(m)) /\ EndTold("server", ks, cs, ns) /\ h \in HostState
      /\ FlowTold(m, k, C(m), N(m), ks, cs) /\ FlowTold("server", ks, cs, ns, k, C(m))
      /\ Holder(h, k, C(m)) /\ k \in SockState /\ ks \in SockState /\ cs \in ConnState
      /\ ShapeTold /\ RestTold
  BY <1>0, InvFacts DEF TcpInv, EndTold
<1>3. /\ host' = [host EXCEPT ![m] = h2]
      /\ sock' = [sock EXCEPT ![m] = [@ EXCEPT ![1] = k2]]
  BY DEF net_tcp_connect_prepare, K
<1>4. np = 1 /\ N(m) = 1 /\ k.slot = 0 /\ Early(k) /\ ~Live(k) /\ ~Joined(k) /\ wire = {}
      /\ ns \in Nat /\ ns >= 1
  BY <1>1, <1>2, RoomsAre DEF EndTold, N, Live, Early, Joined, RestTold
<1>5. Early(ks) /\ ~Live(ks) /\ ks.call # "closed" /\ ks.call # "send"
  BY <1>1, <1>2 DEF RestTold, OrderTold, Early, Live
<1>6. i \in TcpSlots
  <2>1. free \in SUBSET TcpSlots /\ free # {}
    BY <1>1 DEF tcp_conn_alloc
  <2> HIDE DEF free
  <2> QED BY <2>1, LowestSlot
<1>7. C(m) = FreeConn /\ \A x \in TcpSlots : h.tcp[x] = FreeConn
  BY <1>2, <1>4 DEF Holder
<1> HIDE DEF free, i, h, k
<1>8. /\ c2 \in ConnState /\ c2.used = TRUE /\ c2.connecting = TRUE /\ c2.sport = 1
      /\ c2.dport = ListenPort /\ c2.seq = 1 /\ c2.ack = 0 /\ c2.rx = <<>> /\ c2.fin = FALSE
      /\ c2.open = FALSE /\ c2.need_ack = FALSE /\ c2.acked = FALSE
  <2> DEFINE f == FreeConn
  <2>1. f \in ConnState /\ f.fin = FALSE /\ f.need_ack = FALSE /\ f.acked = FALSE /\ f.ack = 0
        /\ f.rx = <<>> /\ f.open = FALSE
    BY FreeConnIs DEF FreeConn
  <2>2. ListenPort \in Nat
    BY OwnFar
  <2> HIDE DEF f
  <2>3. c2 = [f EXCEPT !.used = TRUE, !.connecting = TRUE, !.sport = 1,
                       !.dport = ListenPort, !.seq = 1]
    BY <1>4 DEF f
  <2> HIDE DEF c2
  <2> QED BY <2>1, <2>2, <2>3 DEF ConnState
<1>9. /\ k2 \in SockState /\ k2.call = "connect" /\ k2.slot = i /\ k2.port = 1
      /\ k2.sent = k.sent /\ k2.told = k.told /\ k2.got = k.got /\ k2.eof = k.eof
      /\ i # 0
  <2>1. i \in 0 .. TcpConns /\ i # 0
    BY <1>6, RoomsAre DEF TcpSlots
  <2>2. k2 = [k EXCEPT !.call = "connect", !.slot = i, !.port = 1]
    BY <1>4
  <2> HIDE DEF k2
  <2> QED BY <1>2, <2>1, <2>2 DEF SockState, Calls
<1>10. k.sent = 0 /\ k.told = 0 /\ k.got = <<>> /\ ~k.eof
  BY <1>2, <1>4 DEF EndTold
<1>11. /\ h2 \in HostState /\ h2.tcp = [h.tcp EXCEPT ![i] = c2] /\ h2.pending = h.pending
       /\ h2.next_port = 2 /\ h2.listening = h.listening
  <2> DEFINE t2 == [h.tcp EXCEPT ![i] = c2]
  <2>1. t2 \in [TcpSlots -> ConnState]
    <3> HIDE DEF c2
    <3> QED BY <1>2, <1>6, <1>8 DEF HostState
  <2>2. h2 = [h EXCEPT !.tcp = t2, !.next_port = 2]
    <3>1. np + 1 = 2
      BY <1>4
    <3> HIDE DEF t2, np, c2
    <3>2. WithConn(h, i, c2) = [h EXCEPT !.tcp = t2]
      BY DEF WithConn, t2
    <3> QED BY <3>1, <3>2
  <2> HIDE DEF h2, t2
  <2>3. /\ h2 \in HostState /\ h2.tcp = t2 /\ h2.pending = h.pending /\ h2.next_port = 2
        /\ h2.listening = h.listening
    BY <1>2, <2>1, <2>2 DEF HostState
  <2> QED BY <2>3 DEF t2
<1>12. syn.to = "server" /\ syn.sport = 1 /\ syn.dport = ListenPort /\ syn.seq = 1 /\ syn.ack = 0
       /\ syn.flags = {"SYN"} /\ syn.data = <<>> /\ syn \in SegState
  <2> HIDE DEF c2
  <2> QED BY <1>0, <1>8, OwnFar DEF send_tcp, Segment, SegState, Flags
<1>13. MaxPort >= 1
  BY <1>1, <1>4, RoomsAre
<1> HIDE DEF c2, k2, h2, syn, ks, cs, ns, np
<1>14. Live(k2) /\ ~Joined(k2) /\ ~Early(k2)
  BY <1>9 DEF Live, Joined, Early
<1>15. Taken(k2, c2) = 0 /\ Taken(k, C(m)) = 0
  <2>1. Len(k2.got) = 0 /\ Len(c2.rx) = 0 /\ Len(k.got) = 0 /\ Len(FreeConn.rx) = 0
    BY <1>8, <1>9, <1>10, FreeConnIs
  <2>2. 0 + 0 = 0
    OBVIOUS
  <2> QED BY <1>7, <2>1, <2>2 DEF Taken
<1>16. EndTold(m, k2, c2, 2)
  <2>1. Len(c2.rx) <= RxRoom /\ 2 \in 1 .. MaxPort + 1
    BY <1>8, <1>13, RoomsAre
  <2>2. Own(m) = 1 /\ Far(m) = ListenPort
    BY DEF Own, Far
  <2> QED BY <1>8, <1>9, <1>10, <1>14, <2>1, <2>2 DEF EndTold
<1>17. FlowTold(m, k2, c2, 2, ks, cs)
  <2>1. ~ks.eof
    BY <1>2, <1>5 DEF EndTold, Joined, Early
  <2>2. ks.got \o cs.rx = Units(m, Taken(ks, cs)) /\ Taken(ks, cs) <= k2.sent
        /\ Taken(ks, cs) >= k2.told
    BY <1>2, <1>5, <1>9 DEF FlowTold
  <2> QED BY <1>5, <1>9, <2>1, <2>2 DEF FlowTold
<1>18. FlowTold("server", ks, cs, ns, k2, c2)
  <2>1. k2.got \o c2.rx = Units("server", 0)
    BY <1>8, <1>9, <1>10, NoUnits, ConcatEmptySeq
  <2>2. ks.told = 0 /\ ks.sent = 0
    BY <1>2, <1>5 DEF EndTold, Joined, Early
  <2>3. c2.ack < ns
    BY <1>4, <1>8
  <2> QED BY <1>5, <1>8, <1>9, <1>10, <1>15, <2>1, <2>2, <2>3 DEF FlowTold
<1>19. Later(k, C(m), N(m), k2, c2, 2)
  <2>1. k2.sent >= k.sent /\ 2 >= N(m) /\ Taken(k2, c2) >= Taken(k, C(m))
    BY <1>4, <1>9, <1>10, <1>15
  <2> QED BY <1>1, <1>4, <1>9, <2>1 DEF Later
<1>20. Holder(h2, k2, c2)
  <2>1. h.tcp \in [TcpSlots -> ConnState]
    BY <1>2 DEF HostState
  <2> QED BY <1>6, <1>7, <1>9, <1>11, <2>1 DEF Holder
<1>21. SegTold(syn, m, k2, c2, 2, ks, ns)
  <2>1. Own(m) = 1 /\ Far(m) = ListenPort
    BY DEF Own, Far
  <2> QED BY <1>0, <1>12, <2>1 DEF SegTold
<1>22. \A s \in wire' \ wire : SegTold(s, m, k2, c2, 2, ks, ns)
  BY <1>1, <1>21
<1>23. RestTold'
  <2>1. /\ K(m)' = k2 /\ P(m)' = P(m) /\ host'[m] = h2
        /\ K("server")' = ks /\ P("server")' = P("server") /\ N("server")' = ns
    <3>1. /\ K(m)' = k2 /\ P(m)' = h2.pending /\ host'[m] = h2
          /\ \A o \in Machines \ {m} : K(o)' = K(o) /\ C(o)' = C(o) /\ N(o)' = N(o)
                                       /\ P(o)' = P(o) /\ host'[o] = host[o]
      BY ZenonT(40), <1>0, <1>2, <1>3, <1>9, <1>11, <1>20, HostBecomes
    <3>2. h2.pending = P(m)
      BY <1>11 DEF P, h
    <3> QED BY <1>0, <3>1, <3>2 DEF ks, ns
  <2>2. QueueTold(P("server"), k2, ks, ns)
    <3>1. QueueTold(P("server"), k, ks, ns)
      BY <1>2 DEF RestTold, k, ks, ns
    <3> QED BY <1>2, <1>16, <1>19, <3>1, QueueKept
  <2>3. OrderTold(k2, ks) /\ k2.call # "none"
    BY <1>5, <1>9 DEF OrderTold
  <2>4. ~host'["client"].listening
    BY <1>2, <1>11, <2>1 DEF RestTold, h
  <2>5. \A x \in PendingSlots : ~P("client")[x].in_use /\ Len(P("client")[x].rx) <= StageRoom
    BY <1>2 DEF RestTold
  <2> HIDE DEF m
  <2>6. m = "client"
    BY DEF m
  <2> QED BY <2>1, <2>2, <2>3, <2>4, <2>5, <2>6 DEF RestTold, QueueTold, WaitsTold, OrderTold
<1>24. h2.next_port = 2 /\ K(m) = k /\ K("server") = ks /\ C("server") = cs /\ N("server") = ns
  BY <1>11 DEF k, ks, cs, ns
<1> HIDE DEF m
<1> QED BY <1>0, <1>3, <1>9, <1>11, <1>16, <1>17, <1>18, <1>19, <1>20, <1>22, <1>23, <1>24, Stepped

-----------------------------------------------------------------------------
(* Every step                                                              *)

LEMMA InitTold == ASSUME TcpSockets = 1, TcpInit PROVE TcpInv
<1>1. \A m \in Machines : /\ host[m].tcp = [i \in TcpSlots |-> FreeConn]
                          /\ host[m].pending = [i \in PendingSlots |-> FreePending]
                          /\ host[m].next_port = 1 /\ host[m].listening = FALSE
                          /\ host[m] \in HostState
  <2>1. FreePending \in PendingState /\ FreeConn \in ConnState
    BY FreeConnIs DEF FreePending, PendingState
  <2> DEFINE t == [i \in TcpSlots |-> FreeConn]
             q == [i \in PendingSlots |-> FreePending]
  <2>2. t \in [TcpSlots -> ConnState] /\ q \in [PendingSlots -> PendingState]
    BY <2>1
  <2>3. \A m \in Machines : host[m] = [tcp |-> t, pending |-> q, next_port |-> 1, listening |-> FALSE]
    BY DEF TcpInit
  <2> HIDE DEF t, q
  <2> DEFINE r == [tcp |-> t, pending |-> q, next_port |-> 1, listening |-> FALSE]
  <2>4. r.tcp = t /\ r.pending = q /\ r.next_port = 1 /\ r.listening = FALSE
    OBVIOUS
  <2>5. r \in HostState
    BY <2>2 DEF HostState
  <2>6. \A m \in Machines : host[m] = r
    BY <2>3
  <2> HIDE DEF r
  <2>7. \A m \in Machines : /\ host[m].tcp = t /\ host[m].pending = q /\ host[m].next_port = 1
                            /\ host[m].listening = FALSE /\ host[m] \in HostState
    BY <2>4, <2>5, <2>6
  <2> QED BY <2>7 DEF t, q
<1>2. Unconnected \in SockState
  BY RoomsAre DEF Unconnected, SockState, Calls
<1>3. sock \in [Machines -> [1 .. TcpSockets -> SockState]] /\ wire = {}
      /\ \A m \in Machines : sock[m][1] = Unconnected
  BY <1>2 DEF TcpInit
<1>4. host \in [Machines -> HostState]
  <2>1. host = [m \in Machines |-> host[m]]
    BY DEF TcpInit
  <2> QED BY <1>1, <2>1
<1>5. \A m \in Machines : K(m) = Unconnected /\ C(m) = FreeConn /\ N(m) = 1
                          /\ P(m) = [i \in PendingSlots |-> FreePending]
  BY <1>1, <1>3 DEF K, C, N, P, Unconnected
<1>6. ShapeTold
  <2>1. \A m \in Machines : Holder(host[m], Unconnected, FreeConn)
    BY <1>1 DEF Holder
  <2> QED BY <1>3, <1>4, <1>5, <2>1 DEF ShapeTold
<1>7. \A m \in Machines : EndTold(m, Unconnected, FreeConn, 1)
  <2>1. 1 \in 1 .. MaxPort + 1
    BY RoomsAre
  <2>2. FreeConn \in ConnState /\ Len(FreeConn.rx) <= RxRoom /\ ~FreeConn.connecting
        /\ ~FreeConn.open
    BY FreeConnIs, RoomsAre
  <2> QED BY <1>2, <2>1, <2>2 DEF EndTold, Unconnected, Live, Joined, Early
<1>8. \A m \in Machines : FlowTold(m, Unconnected, FreeConn, 1, Unconnected, FreeConn)
  <2>1. Taken(Unconnected, FreeConn) = 0
    BY DEF Taken, Unconnected, FreeConn
  <2>2. <<>> \o <<>> = <<>>
    BY ConcatEmptySeq
  <2>3. Unconnected.got = <<>> /\ FreeConn.rx = <<>>
    BY DEF Unconnected, FreeConn
  <2>4. \A m \in Machines : Unconnected.got \o FreeConn.rx = Units(m, 0)
    BY <2>2, <2>3, NoUnits
  <2> QED BY <2>1, <2>4 DEF FlowTold, Unconnected, Live
<1>9. EndsTold
  BY <1>5, <1>7, <1>8, MachinesAre DEF EndsTold
<1>10. WireTold
  BY <1>3 DEF WireTold
<1>11. RestTold
  <2>1. FreePending \in PendingState /\ Len(FreePending.rx) <= StageRoom /\ ~FreePending.in_use
    BY RoomsAre DEF FreePending, PendingState
  <2>2. QueueTold(P("server"), K("client"), K("server"), N("server"))
    BY <1>5, <2>1, MachinesAre DEF QueueTold
  <2>3. OrderTold(K("client"), K("server"))
    BY <1>5, MachinesAre DEF OrderTold, Unconnected, Early
  <2> QED BY <1>1, <1>3, <1>5, <2>1, <2>2, <2>3, MachinesAre DEF RestTold
<1> QED BY <1>6, <1>9, <1>10, <1>11 DEF TcpInv

LEMMA NextKeeps ==
  ASSUME TcpSockets = 1, GivesUp = FALSE, TcpInv, RoomForArrivals, [TcpNext]_tcpVars
  PROVE  TcpInv'
<1>1. CASE UNCHANGED tcpVars
  BY <1>1, Unchanged
<1>2. CASE net_tcp_listen
  BY <1>2, ListenKeeps
<1>3. ASSUME NEW m \in Machines, net_pump(m)
      PROVE  TcpInv'
  BY <1>3, PumpKeeps
<1>4. CASE net_tcp_connect_prepare(1)
  BY <1>4, PrepareKeeps
<1>5. CASE ConnectWaits(1)
  <2>1. Live(K("client")) /\ PollRound("client")
    BY <1>5 DEF ConnectWaits, K, Live
  <2> QED BY <2>1, PollKeeps, MachinesAre
<1>6. CASE net_tcp_finish_connect(1)
  BY <1>6, FinishKeeps
<1>7. CASE ConnectFails(1)
  BY <1>7, ConnectFailsKeeps
<1>8. CASE AcceptCalled(1)
  BY <1>8, AcceptCalledKeeps
<1>9. CASE net_tcp_accept(1)
  BY <1>9, AcceptKeeps
<1>10. ASSUME NEW m \in Machines
       PROVE  /\ net_tcp_send(m, 1) => TcpInv'
              /\ SendAgain(m, 1) => TcpInv'
              /\ SendReturns(m, 1) => TcpInv'
              /\ net_tcp_recv(m, 1) => TcpInv'
              /\ RecvReturns(m, 1) => TcpInv'
              /\ net_tcp_close(m, 1) => TcpInv'
              /\ Reset(m, 1) => TcpInv'
  BY SendKeeps, SendAgainKeeps, SendReturnsKeeps, RecvKeeps, RecvReturnsKeeps, CloseKeeps,
     ResetKeeps
<1>11. ASSUME NEW m \in Machines, SendWaits(m, 1) \/ RecvWaits(m, 1)
       PROVE  TcpInv'
  <2>1. Live(K(m)) /\ PollRound(m)
    BY <1>11 DEF SendWaits, RecvWaits, K, Live
  <2> QED BY <2>1, PollKeeps
<1>12. \A k \in 1 .. TcpSockets : k = 1
  OBVIOUS
<1> QED BY <1>1, <1>2, <1>3, <1>4, <1>5, <1>6, <1>7, <1>8, <1>9, <1>10, <1>11, <1>12 DEF TcpNext

-----------------------------------------------------------------------------
(* What the invariant says of the system                                   *)

LEMMA PrefixOfUnits ==
  ASSUME NEW m \in Machines, NEW a \in Nat, NEW b \in Nat, a <= b
  PROVE  IsPrefix(Units(m, a), Units(m, b))
<1> DEFINE u == Units(m, a)
           v == Units(m, b)
<1>1. u \in Seq(UnitState) /\ v \in Seq(UnitState) /\ Len(u) = a /\ Len(v) = b
      /\ (\A j \in 1 .. a : u[j] = Unit(m, 1, j)) /\ (\A j \in 1 .. b : v[j] = Unit(m, 1, j))
  BY UnitsAre
<1> HIDE DEF u, v
<1>2. \A j \in 1 .. a : u[j] = v[j]
  BY <1>1
<1>3. SubSeq(u, 1, a) = SubSeq(v, 1, a)
  BY <1>1, <1>2 DEF SubSeq
<1> QED BY <1>1, <1>3 DEF IsPrefix, u, v

LEMMA StreamTold ==
  ASSUME TcpSockets = 1, TcpInv, NEW m \in Machines
  PROVE  /\ Stream(m, 1) = K(m).got \o C(m).rx
         /\ Len(Stream(m, 1)) = Taken(K(m), C(m)) /\ Taken(K(m), C(m)) \in Nat
         /\ Stream(m, 1) = Units(Other(m), Taken(K(m), C(m)))
<1>1. Stream(m, 1) = K(m).got \o C(m).rx
  <2>1. K(m) = sock[m][1] /\ Stream(m, 1) = K(m).got \o Buffered(m, 1)
    BY DEF K, Stream
  <2>2. CASE K(m).slot = 0
    <3>1. Buffered(m, 1) = <<>>
      BY <2>1, <2>2 DEF Buffered, HasSlot
    <3>2. C(m).rx = <<>>
      BY <2>2 DEF C, FreeConn
    <3> QED BY <2>1, <3>1, <3>2
  <2>3. CASE K(m).slot # 0
    <3>1. Buffered(m, 1) = Conn(m, 1).rx
      BY <2>1, <2>3 DEF Buffered, HasSlot
    <3>2. C(m) = Conn(m, 1)
      BY <2>1, <2>3 DEF C, Conn
    <3> QED BY <2>1, <3>1, <3>2
  <2> QED BY <2>2, <2>3
<1>2. FlowTold(Other(m), K(Other(m)), C(Other(m)), N(Other(m)), K(m), C(m))
      /\ K(m) \in SockState /\ C(m) \in ConnState /\ Other(m) \in Machines
  BY InvFacts
<1>3. Taken(K(m), C(m)) \in Nat
  BY <1>2, LengthsAre
<1>4. Stream(m, 1) = Units(Other(m), Taken(K(m), C(m)))
  BY <1>1, <1>2 DEF FlowTold
<1>5. Len(Units(Other(m), Taken(K(m), C(m)))) = Taken(K(m), C(m))
  BY <1>2, <1>3, UnitsAre
<1> QED BY <1>1, <1>3, <1>4, <1>5

LEMMA InvIsSafe ==
  ASSUME TcpSockets = 1, TcpInv
  PROVE  TcpSafe
<1>1. TcpTypeOK
  <2>1. ASSUME NEW m \in Machines
        PROVE  /\ host[m].next_port \in 1 .. MaxPort + 1
               /\ \A i \in TcpSlots : Len(host[m].tcp[i].rx) <= RxRoom
               /\ \A i \in PendingSlots : Len(host[m].pending[i].rx) <= StageRoom
               /\ sock[m][1].call \in {"none", "connect", "accept", "idle", "send", "recv", "closed"}
    <3>1. EndTold(m, K(m), C(m), N(m)) /\ Holder(host[m], K(m), C(m))
      BY InvFacts
    <3>2. host[m].next_port \in 1 .. MaxPort + 1
      BY <3>1 DEF EndTold, N
    <3>3. \A i \in TcpSlots : Len(host[m].tcp[i].rx) <= RxRoom
      <4>1. Len(FreeConn.rx) <= RxRoom /\ Len(C(m).rx) <= RxRoom
        BY <3>1, FreeConnIs, RoomsAre DEF EndTold
      <4>2. \A i \in TcpSlots : host[m].tcp[i] = C(m) \/ host[m].tcp[i] = FreeConn
        BY <3>1 DEF Holder
      <4> QED BY <4>1, <4>2
    <3>4. \A i \in PendingSlots : Len(host[m].pending[i].rx) <= StageRoom
      BY DEF TcpInv, RestTold, QueueTold, P, Machines
    <3>5. sock[m][1].call \in Calls
      BY <3>1 DEF EndTold, K, SockState
    <3> QED BY <3>2, <3>3, <3>4, <3>5 DEF Calls
  <2>2. ASSUME NEW s \in wire
        PROVE  s.to \in Machines /\ Len(s.data) <= 1
    <3>1. s.to \in Machines
          /\ SegTold(s, Other(s.to), K(Other(s.to)), C(Other(s.to)), N(Other(s.to)), K(s.to), N(s.to))
      BY DEF TcpInv, WireTold
    <3>2. s.data = <<>> \/ \E u : s.data = <<u>>
      BY <3>1 DEF SegTold
    <3>3. CASE s.data = <<>>
      <4>1. Len(s.data) = 0
        BY <3>3
      <4> QED BY <3>1, <4>1
    <3>4. ASSUME NEW u, s.data = <<u>>
          PROVE  Len(s.data) <= 1
      <4>1. Len(s.data) = 1
        BY <3>4
      <4> QED BY <4>1
    <3> QED BY <3>1, <3>2, <3>3, <3>4
  <2> QED BY <2>1, <2>2 DEF TcpTypeOK
<1>2. ASSUME NEW m \in Machines, NEW k \in 1 .. TcpSockets, NEW j \in Peers(m, k)
      PROVE  /\ IsPrefix(Stream(m, k), SentOn(Other(m), sock[m][k].port, sock[Other(m)][j].sent))
             /\ sock[m][k].told > 0 /\ sock[Other(m)][j].call # "closed"
                  => Len(Stream(Other(m), j)) >= sock[m][k].told
             /\ sock[m][k].eof => Len(sock[m][k].got) >= sock[Other(m)][j].told
  <2>1. k = 1 /\ j = 1 /\ sock[m][1] = K(m) /\ sock[Other(m)][1] = K(Other(m)) /\ K(m).port # 0
    BY DEF Peers, K
  <2>2. /\ EndTold(m, K(m), C(m), N(m)) /\ Other(m) \in Machines
        /\ EndTold(Other(m), K(Other(m)), C(Other(m)), N(Other(m)))
        /\ FlowTold(m, K(m), C(m), N(m), K(Other(m)), C(Other(m)))
        /\ FlowTold(Other(m), K(Other(m)), C(Other(m)), N(Other(m)), K(m), C(m))
    BY InvFacts
  <2>3. K(m).port = 1 /\ K(Other(m)).sent \in Nat
    BY <2>1, <2>2 DEF EndTold, SockState
  <2>4. IsPrefix(Stream(m, 1), Units(Other(m), K(Other(m)).sent))
    <3>1. Taken(K(m), C(m)) <= K(Other(m)).sent
      BY <2>2 DEF FlowTold
    <3> QED BY <2>2, <2>3, <3>1, StreamTold, PrefixOfUnits
  <2>5. K(Other(m)).call # "closed" => Len(Stream(Other(m), 1)) >= K(m).told
    <3>1. K(Other(m)).call # "closed" => Taken(K(Other(m)), C(Other(m))) >= K(m).told
      BY <2>2 DEF FlowTold
    <3> QED BY <2>2, <3>1, StreamTold
  <2>6. K(m).eof => Len(K(m).got) >= K(Other(m)).told
    BY <2>2 DEF FlowTold
  <2>7. SentOn(Other(m), sock[m][k].port, sock[Other(m)][j].sent)
          = Units(Other(m), K(Other(m)).sent)
    BY <2>1, <2>3 DEF Units
  <2>8. IsPrefix(Stream(m, k), SentOn(Other(m), sock[m][k].port, sock[Other(m)][j].sent))
    BY <2>1, <2>4, <2>7
  <2>9. sock[m][k].told > 0 /\ sock[Other(m)][j].call # "closed"
          => Len(Stream(Other(m), j)) >= sock[m][k].told
    BY <2>1, <2>5
  <2>10. sock[m][k].eof => Len(sock[m][k].got) >= sock[Other(m)][j].told
    BY <2>1, <2>6
  <2> QED BY <2>8, <2>9, <2>10
<1>3. SlotsAreOwned
  <2>1. ASSUME NEW m \in Machines, NEW i \in TcpSlots, host[m].tcp[i].used
        PROVE  Cardinality({k \in 1 .. TcpSockets : sock[m][k].slot = i}) = 1
    <3>1. Holder(host[m], K(m), C(m))
      BY InvFacts
    <3>2. sock[m][1].slot = i
      BY <2>1, <3>1, FreeConnIs DEF Holder, K
    <3>3. {k \in 1 .. TcpSockets : sock[m][k].slot = i} = {1}
      BY <3>2
    <3> QED BY <3>3, FS_Singleton
  <2>2. ASSUME NEW m \in Machines, NEW k \in 1 .. TcpSockets, HasSlot(m, k)
        PROVE  Conn(m, k).used /\ sock[m][k].port \in {Conn(m, k).sport, Conn(m, k).dport}
    <3>1. k = 1 /\ sock[m][1] = K(m) /\ K(m).slot # 0 /\ EndTold(m, K(m), C(m), N(m))
      BY <2>2, InvFacts DEF HasSlot, K
    <3>2. Live(K(m))
      BY <3>1, SlotIs
    <3>3. Conn(m, 1) = C(m) /\ K(m).port = 1
      BY <3>2, LiveIs
    <3>4. C(m).used /\ C(m).sport = Own(m) /\ C(m).dport = Far(m)
      BY <3>1, <3>2 DEF EndTold
    <3>5. Own(m) = 1 \/ Far(m) = 1
      BY DEF Own, Far
    <3> QED BY <3>1, <3>3, <3>4, <3>5
  <2> QED BY <2>1, <2>2 DEF SlotsAreOwned
<1> QED BY <1>1, <1>2, <1>3 DEF TcpSafe, StreamIsPrefix, SentIsThere, EofIsLast

(* What a program reads is the beginning of what the other end has sent,    *)
(* what a send reported is there, end of file comes last, and every slot is *)
(* owned: whatever is lost, repeated or reordered, and whenever an end      *)
(* closes or is reset, as long as what arrives in order finds room.         *)
THEOREM TcpIsSafe ==
  ASSUME TcpSockets = 1, GivesUp = FALSE
  PROVE  TcpSpec /\ []RoomForArrivals => []TcpSafe
<1>1. TcpInit => TcpInv
  BY InitTold
<1>2. TcpInv /\ RoomForArrivals /\ [TcpNext]_tcpVars => TcpInv'
  BY NextKeeps
<1>3. TcpInv => TcpSafe
  BY InvIsSafe
<1> QED BY <1>1, <1>2, <1>3, PTL DEF TcpSpec

-----------------------------------------------------------------------------
(* Room for all that may be sent                                           *)

SentFits == K("client").sent + K("server").sent <= MaxUnits

\* One socket of one machine changes, and what it has sent does not.
LEMMA SentSame ==
  ASSUME TcpSockets = 1, TcpInv, NEW m \in Machines, NEW r,
         sock' = [sock EXCEPT ![m][1] = r], r.sent = sock[m][1].sent
  PROVE  \A o \in Machines : K(o)'.sent = K(o).sent
<1>1. sock \in [Machines -> [1 .. 1 -> SockState]]
  BY DEF TcpInv, ShapeTold
<1>2. \A o \in Machines : sock'[o][1] = IF o = m THEN r ELSE sock[o][1]
  BY <1>1
<1> QED BY <1>2 DEF K

LEMMA SentKept ==
  ASSUME TcpSockets = 1, TcpInv, [TcpNext]_tcpVars, \A m \in Machines : ~net_tcp_send(m, 1)
  PROVE  \A o \in Machines : K(o)'.sent = K(o).sent
<1> DEFINE Same == \A o \in Machines : K(o)'.sent = K(o).sent
           Moves(m, r) == sock' = [sock EXCEPT ![m][1] = r] /\ r.sent = sock[m][1].sent
<1>1. ASSUME sock' = sock
      PROVE  Same
  BY <1>1 DEF K
<1>2. ASSUME NEW m \in Machines, NEW r, Moves(m, r)
      PROVE  Same
  BY <1>2, SentSame
<1>3. \A m \in Machines : sock[m][1] \in SockState
  BY DEF TcpInv, ShapeTold
<1> DEFINE Called(m, call) == [sock[m][1] EXCEPT !.call = call]
<1>4. \A m \in Machines : \A call : Called(m, call).sent = sock[m][1].sent
  BY <1>3 DEF SockState
<1> SUFFICES Same
  OBVIOUS
<1> HIDE DEF Same
<1>5. ASSUME UNCHANGED tcpVars \/ net_tcp_listen \/ \E m \in Machines : net_pump(m) \/ Reset(m, 1)
      PROVE  Same
  BY <1>1, <1>5 DEF tcpVars, net_tcp_listen, net_pump, Reset
<1>6. ASSUME ConnectWaits(1) \/ \E m \in Machines : SendWaits(m, 1) \/ SendAgain(m, 1) \/ RecvWaits(m, 1)
      PROVE  Same
  BY <1>1, <1>6 DEF ConnectWaits, SendWaits, SendAgain, RecvWaits, PollRound
<1>7. CASE net_tcp_connect_prepare(1)
  <2> DEFINE h == host["client"]
             r == [sock["client"][1] EXCEPT !.call = "connect", !.slot = Lowest(tcp_conn_alloc(h)),
                                            !.port = h.next_port]
  <2>1. sock' = [sock EXCEPT !["client"][1] = r]
    BY <1>7 DEF net_tcp_connect_prepare
  <2>2. r.sent = sock["client"][1].sent
    BY <1>3, MachinesAre DEF SockState
  <2> HIDE DEF r
  <2> QED BY <1>2, <2>1, <2>2, MachinesAre
<1>8. CASE net_tcp_finish_connect(1)
  <2>1. sock' = [sock EXCEPT !["client"][1] = Called("client", "idle")]
    BY <1>8 DEF net_tcp_finish_connect
  <2> HIDE DEF Called
  <2> QED BY <1>2, <1>4, <2>1, MachinesAre
<1>9. CASE ConnectFails(1)
  <2> DEFINE r == [sock["client"][1] EXCEPT !.call = "closed", !.slot = 0]
  <2>1. sock' = [sock EXCEPT !["client"][1] = r]
    BY <1>9 DEF ConnectFails
  <2>2. r.sent = sock["client"][1].sent
    BY <1>3, MachinesAre DEF SockState
  <2> HIDE DEF r
  <2> QED BY <1>2, <2>1, <2>2, MachinesAre
<1>10. CASE AcceptCalled(1)
  <2>1. sock' = [sock EXCEPT !["server"][1] = Called("server", "accept")]
    BY <1>10 DEF AcceptCalled
  <2> HIDE DEF Called
  <2> QED BY <1>2, <1>4, <2>1, MachinesAre
<1>11. CASE net_tcp_accept(1)
  <2>1. CASE sock' = sock
    BY <1>1, <2>1
  <2>2. CASE sock' = [sock EXCEPT !["server"][1].call = "none"]
    <3>1. sock' = [sock EXCEPT !["server"][1] = Called("server", "none")]
      BY <2>2
    <3> HIDE DEF Called
    <3> QED BY <1>2, <1>4, <3>1, MachinesAre
  <2>3. ASSUME NEW i, NEW p,
               sock' = [sock EXCEPT !["server"][1] = [@ EXCEPT !.call = "idle", !.slot = i, !.port = p]]
        PROVE  Same
    <3> DEFINE r == [sock["server"][1] EXCEPT !.call = "idle", !.slot = i, !.port = p]
    <3>1. sock' = [sock EXCEPT !["server"][1] = r]
      BY <2>3
    <3>2. r.sent = sock["server"][1].sent
      BY <1>3, MachinesAre DEF SockState
    <3> HIDE DEF r
    <3> QED BY <1>2, <3>1, <3>2, MachinesAre
  <2>4. \/ sock' = sock
        \/ sock' = [sock EXCEPT !["server"][1].call = "none"]
        \/ \E i, p : sock' = [sock EXCEPT !["server"][1] = [@ EXCEPT !.call = "idle", !.slot = i,
                                                                     !.port = p]]
    BY <1>11 DEF net_tcp_accept
  <2> QED BY <2>1, <2>2, <2>3, <2>4
<1>12. ASSUME NEW m \in Machines, SendReturns(m, 1)
       PROVE  Same
  <2> DEFINE r == [sock[m][1] EXCEPT !.call = "idle", !.told = sock[m][1].told + 1]
  <2>1. sock' = [sock EXCEPT ![m][1] = Called(m, "idle")] \/ sock' = [sock EXCEPT ![m][1] = r]
    <3>1. \/ sock' = [sock EXCEPT ![m][1].call = "idle"]
          \/ sock' = [sock EXCEPT ![m][1].call = "idle", ![m][1].told = @ + 1]
      BY <1>12 DEF SendReturns
    <3>2. sock \in [Machines -> [1 .. TcpSockets -> SockState]]
      BY DEF TcpInv, ShapeTold
    <3>3. ASSUME sock' = [sock EXCEPT ![m][1].call = "idle", ![m][1].told = @ + 1]
          PROVE  sock' = [sock EXCEPT ![m][1] = r]
      <4> DEFINE v == sock[m][1].told + 1
      <4>1. sock' = [sock EXCEPT ![m] = [@ EXCEPT ![1] = [sock[m][1] EXCEPT !.call = "idle",
                                                                            !.told = v]]]
        BY <3>2, <3>3
      <4> HIDE DEF v
      <4>2. sock' = [sock EXCEPT ![m][1] = [sock[m][1] EXCEPT !.call = "idle", !.told = v]]
        BY <4>1
      <4> QED BY <4>2 DEF v
    <3>4. ASSUME sock' = [sock EXCEPT ![m][1].call = "idle"]
          PROVE  sock' = [sock EXCEPT ![m][1] = Called(m, "idle")]
      BY SMTT(40), <3>2, <3>4
    <3> QED BY <3>1, <3>3, <3>4
  <2>2. r.sent = sock[m][1].sent
    BY <1>3 DEF SockState
  <2> HIDE DEF r, Called
  <2> QED BY <1>2, <1>4, <2>1, <2>2
<1>13. ASSUME NEW m \in Machines, UnitRead(m, 1)
       PROVE  Same
  <2> DEFINE r == [sock[m][1] EXCEPT !.call = "idle",
                                     !.got = Append(sock[m][1].got, Head(Conn(m, 1).rx))]
  <2>1. sock' = [sock EXCEPT ![m][1] = r]
    BY <1>3, <1>13 DEF UnitRead, TcpInv, ShapeTold
  <2>2. r.sent = sock[m][1].sent
    BY <1>3 DEF SockState
  <2> HIDE DEF r
  <2> QED BY <1>2, <2>1, <2>2
<1>14. ASSUME NEW m \in Machines, net_tcp_recv(m, 1)
       PROVE  Same
  <2>1. UnitRead(m, 1) \/ sock' = [sock EXCEPT ![m][1] = Called(m, "recv")]
    BY <1>14 DEF net_tcp_recv
  <2> HIDE DEF Called
  <2> QED BY <1>2, <1>4, <1>13, <2>1
<1>15. ASSUME NEW m \in Machines, RecvReturns(m, 1)
       PROVE  Same
  <2> DEFINE r == [sock[m][1] EXCEPT !.call = "idle", !.eof = ~Conn(m, 1).rst]
  <2>1. \/ UnitRead(m, 1)
        \/ sock' = [sock EXCEPT ![m][1] = Called(m, "idle")]
        \/ sock' = [sock EXCEPT ![m][1] = r]
    BY <1>15 DEF RecvReturns
  <2>2. r.sent = sock[m][1].sent
    BY <1>3 DEF SockState
  <2> HIDE DEF r, Called
  <2> QED BY <1>2, <1>4, <1>13, <2>1, <2>2
<1>16. ASSUME NEW m \in Machines, net_tcp_close(m, 1)
       PROVE  Same
  <2> DEFINE r == [sock[m][1] EXCEPT !.call = "closed", !.slot = 0]
  <2>1. sock' = [sock EXCEPT ![m][1] = r]
    BY <1>16 DEF net_tcp_close
  <2>2. r.sent = sock[m][1].sent
    BY <1>3 DEF SockState
  <2> HIDE DEF r
  <2> QED BY <1>2, <2>1, <2>2
<1>17. \A k \in 1 .. TcpSockets : k = 1
  OBVIOUS
<1> QED BY <1>5, <1>6, <1>7, <1>8, <1>9, <1>10, <1>11, <1>12, <1>14, <1>15, <1>16, <1>17 DEF TcpNext

LEMMA SentStays ==
  ASSUME TcpSockets = 1, TcpInv, SentFits, [TcpNext]_tcpVars
  PROVE  SentFits'
<1>1. CASE \A m \in Machines : ~net_tcp_send(m, 1)
  <2>1. K("client")'.sent = K("client").sent /\ K("server")'.sent = K("server").sent
    BY <1>1, SentKept, MachinesAre
  <2> QED BY <2>1 DEF SentFits
<1>2. ASSUME NEW m \in Machines, net_tcp_send(m, 1)
      PROVE  SentFits'
  <2> DEFINE a == sock[m][1].sent
             b == sock[Other(m)][1].sent
             r == [sock[m][1] EXCEPT !.call = "send", !.sent = a + 1]
  <2>1. /\ sock \in [Machines -> [1 .. 1 -> SockState]] /\ sock[m][1] \in SockState
        /\ sock[Other(m)][1] \in SockState /\ Other(m) \in Machines /\ Other(m) # m
    BY MachinesAre DEF TcpInv, ShapeTold
  <2>2. sock' = [sock EXCEPT ![m][1] = r] /\ a + b < MaxUnits
    BY <1>2, <2>1 DEF net_tcp_send
  <2>3. r.sent = a + 1 /\ a \in Nat /\ b \in Nat
    BY <2>1 DEF SockState
  <2> HIDE DEF r, a, b
  <2>4. sock'[m][1].sent = a + 1 /\ sock'[Other(m)][1].sent = b
    <3>1. sock'[m][1] = r /\ sock'[Other(m)][1] = sock[Other(m)][1]
      BY <2>1, <2>2
    <3> QED BY <2>3, <3>1 DEF b
  <2>5. K(m)'.sent + K(Other(m))'.sent <= MaxUnits
    BY <2>2, <2>3, <2>4, RoomsAre DEF K
  <2>6. K("client")'.sent \in Nat /\ K("server")'.sent \in Nat
    BY <2>3, <2>4 DEF K, Machines, Other
  <2> QED BY <2>5, <2>6 DEF SentFits, Machines, Other
<1> QED BY <1>1, <1>2

LEMMA SentHasRoom ==
  ASSUME TcpSockets = 1, TcpInv, SentFits, MaxUnits <= StageRoom
  PROVE  RoomForArrivals
<1>1. \A m \in Machines : K(m) \in SockState /\ K(m).sent \in Nat /\ K(m).sent <= StageRoom
  <2>1. \A m \in Machines : K(m) \in SockState /\ K(m).sent \in Nat
    BY InvFacts DEF SockState
  <2> QED BY <2>1, RoomsAre DEF SentFits, Machines
<1>2. ASSUME NEW m \in Machines, NEW s \in Arrived(m), NEW i \in TcpSlots,
             host[m].tcp[i].used, InOrder(host[m].tcp[i], s)
      PROVE  Len(host[m].tcp[i].rx) + Len(s.data) <= RxRoom
  <2> DEFINE o == Other(m)
             k == K(m)
             ko == K(o)
             c == C(m)
             no == N(o)
  <2>1. /\ EndTold(m, k, c, N(m)) /\ EndTold(o, ko, C(o), no) /\ o \in Machines
        /\ FlowTold(o, ko, C(o), no, k, c) /\ Holder(host[m], k, c)
        /\ k \in SockState /\ c \in ConnState
    BY InvFacts
  <2>2. SegTold(s, o, ko, C(o), no, k, N(m))
    BY ArrivedTold
  <2>3. i = k.slot /\ host[m].tcp[i] = c
    BY <1>2, <2>1, FreeConnIs DEF Holder
  <2>4. Live(k) /\ s.seq = c.ack
    BY <1>2, <2>1, <2>3, SlotIs DEF InOrder
  <2>5. Len(c.rx) \in Nat /\ Len(k.got) \in Nat /\ Taken(k, c) = Len(k.got) + Len(c.rx)
    BY <2>1, LengthsAre
  <2>6. Len(c.rx) <= RxRoom
    BY <2>1 DEF EndTold
  <2>7. /\ ko.sent \in Nat /\ ko.told \in Nat /\ no \in Nat /\ c.ack \in Nat
        /\ ko.sent <= ko.told + 1 /\ ko.sent <= RxRoom
    <3>1. no \in Nat /\ c.ack \in Nat /\ ko \in SockState /\ ko.sent <= ko.told + 1
      BY <2>1, RoomsAre DEF EndTold, ConnState
    <3>2. ko.sent \in Nat /\ ko.sent <= StageRoom
      BY <1>1, <2>1
    <3>3. ko.told \in Nat
      BY <3>1 DEF SockState
    <3> QED BY <3>1, <3>2, <3>3, RoomsAre
  <2>8. Len(c.rx) + Len(s.data) <= RxRoom
    <3>1. CASE s.data = <<>>
      <4>1. Len(s.data) = 0
        BY <3>1
      <4> QED BY <2>5, <2>6, <4>1
    <3>2. CASE s.data # <<>>
      <4>1. PICK u \in 1 .. ko.sent : s.data = <<Unit(o, 1, u)>> /\ s.seq = no + u - 1
        BY <2>2, <3>2 DEF SegTold
      <4>2. Len(s.data) = 1
        BY <4>1
      <4> DEFINE x == Len(c.rx)
                 y == Len(k.got)
                 z == Len(s.data)
                 r == Taken(k, c)
      <4>3. x \in Nat /\ y \in Nat /\ r = y + x /\ z = 1
        BY <2>5, <4>2
      <4>4. ~c.fin
        BY <2>1, <2>4, <2>7, <4>1 DEF FlowTold
      <4>5. c.ack = no + r \/ (c.ack < no /\ r = 0)
        BY <2>1, <2>4, <4>4 DEF FlowTold
      <4> HIDE DEF x, y, z, r
      <4>6. u = r + 1
        BY <2>4, <2>7, <4>1, <4>3, <4>5
      <4>7. x + z <= RxRoom
        BY <2>7, <4>1, <4>3, <4>6, RoomsAre
      <4> QED BY <4>7 DEF x, z
    <3> QED BY <3>1, <3>2
  <2> QED BY <2>3, <2>8
<1>3. ASSUME NEW m \in Machines, NEW s \in Arrived(m), NEW i \in PendingSlots,
             NEW k \in 1 .. TcpSockets, sock[m][k].call = "accept", host[m].pending[i].in_use,
             s.seq = host[m].pending[i].peer_seq
      PROVE  Len(host[m].pending[i].rx) + Len(s.data) <= StageRoom
  <2> DEFINE p == host[m].pending[i]
             kc == K("client")
  <2>1. k = 1 /\ K(m).call = "accept"
    BY <1>3 DEF K
  <2>2. m = "server"
    <3>1. EndTold(m, K(m), C(m), N(m))
      BY InvFacts
    <3> QED BY <2>1, <3>1 DEF EndTold, Machines
  <2>3. p \in PendingState /\ Len(p.rx) <= StageRoom /\ WaitsTold(p, kc, N("server"))
    BY <1>3, <2>1, <2>2 DEF TcpInv, RestTold, QueueTold, P, Early
  <2>4. SegTold(s, "client", kc, C("client"), N("client"), K("server"), N("server"))
    BY <2>2, ArrivedTold, MachinesAre
  <2>5. N("client") = 2 /\ kc.sent \in Nat /\ kc.sent <= StageRoom
    <3>1. EndTold("client", kc, C("client"), N("client"))
      BY InvFacts, MachinesAre
    <3> QED BY <1>1, <2>3, <3>1, MachinesAre DEF EndTold, WaitsTold
  <2>6. Len(p.rx) \in Nat
    <3> DEFINE rx == p.rx
    <3>1. rx \in Seq(UnitState)
      BY <2>3 DEF PendingState
    <3> HIDE DEF rx
    <3>2. Len(rx) \in Nat
      BY <3>1, LenProperties
    <3> QED BY <3>2 DEF rx
  <2>7. s.seq = 2 + Len(p.rx)
    BY <1>3, <2>3 DEF WaitsTold
  <2>8. Len(p.rx) + Len(s.data) <= StageRoom
    <3>1. CASE s.data = <<>>
      <4>1. Len(s.data) = 0
        BY <3>1
      <4> QED BY <2>3, <2>6, <4>1
    <3>2. CASE s.data # <<>>
      <4>1. PICK u \in 1 .. kc.sent : s.data = <<Unit("client", 1, u)>> /\ s.seq = N("client") + u - 1
        BY <2>4, <3>2 DEF SegTold
      <4>2. Len(s.data) = 1
        BY <4>1
      <4> DEFINE x == Len(p.rx)
                 z == Len(s.data)
      <4>3. x \in Nat /\ z = 1 /\ s.seq = 2 + x
        BY <2>6, <2>7, <4>2
      <4> HIDE DEF x, z
      <4>4. x + z <= StageRoom
        BY <2>5, <4>1, <4>3, RoomsAre
      <4> QED BY <4>4 DEF x, z
    <3> QED BY <3>1, <3>2
  <2> QED BY <2>8
<1> QED BY <1>2, <1>3 DEF RoomForArrivals

(* When the buffers hold all that a connection may carry, nothing else is   *)
(* asked of the network or of the programs: the safety of the stream        *)
(* follows for every loss, repetition and order of the segments.            *)
THEOREM TcpIsSafeWithRoom ==
  ASSUME TcpSockets = 1, GivesUp = FALSE, MaxUnits <= StageRoom
  PROVE  TcpSpec => []TcpSafe
<1>1. TcpInit => TcpInv /\ SentFits
  <2>1. ASSUME TcpInit
        PROVE  K("client").sent + K("server").sent <= MaxUnits
    <3>1. K("client").sent = 0 /\ K("server").sent = 0
      BY <2>1, MachinesAre DEF TcpInit, K, Unconnected
    <3> QED BY <3>1, RoomsAre
  <2> QED BY <2>1, InitTold DEF SentFits
<1>2. TcpInv /\ SentFits /\ [TcpNext]_tcpVars => (TcpInv /\ SentFits)'
  BY NextKeeps, SentStays, SentHasRoom
<1>3. TcpInv => TcpSafe
  BY InvIsSafe
<1> QED BY <1>1, <1>2, <1>3, PTL DEF TcpSpec
=============================================================================
