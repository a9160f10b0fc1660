-------------------------------- MODULE Tcp --------------------------------
(***************************************************************************)
(* TCP of net.c between two machines that both run it: the client connects, *)
(* the server listens, and then both send, receive and close.  wire holds   *)
(* every segment ever sent: delivery takes any of them at any time and      *)
(* leaves it there, so segments are lost, repeated, delayed and reordered.  *)
(* A send carries one unit, and deadlines may pass at any time.             *)
(***************************************************************************)
EXTENDS Naturals, Sequences, FiniteSets, SequencesExt

CONSTANTS TcpSockets,  \* connections opened by the client, and accepted
          TcpConns,    \* NET_TCP_CONNS
          PendingMax,  \* TCP_PENDING_MAX
          RxRoom,      \* NET_TCP_RXBUF_SIZE, in units
          StageRoom,   \* TCP_PENDING_STAGE_CAP, in units
          ListenPort,  \* above the ports that the machines hand out
          MaxUnits,    \* bound: units sent on a connection, both ways together
          GivesUp,     \* whether all three attempts of a send may time out
          Relistens,   \* whether a program calls listen again
          Resets,      \* the machines at which resets arrive from outside
          Concurrent,  \* whether the client connects while a connection lives
          MaxPort      \* bound: ports and sequence numbers handed out

VARIABLES host, \* per machine: tcp_conns, g_pending, next_port, listen_ports
          sock, \* per machine and socket: its task's call and its slot
          wire  \* the segments sent so far

tcpVars == <<host, sock, wire>>

Machines == {"client", "server"}

\* A queued connection stages less than the connection's own buffer holds.
ASSUME TcpAssumption ==
  /\ {TcpSockets, TcpConns, PendingMax, RxRoom, StageRoom, MaxUnits, ListenPort, MaxPort} \subseteq Nat
  /\ StageRoom <= RxRoom /\ ListenPort > MaxPort
  /\ {GivesUp, Relistens, Concurrent} \subseteq BOOLEAN /\ Resets \subseteq Machines
Other(m) == IF m = "client" THEN "server" ELSE "client"
TcpSlots == 1 .. TcpConns
PendingSlots == 1 .. PendingMax

FreeConn == [used |-> FALSE, open |-> FALSE, connecting |-> FALSE, synack |-> FALSE,
             rst |-> FALSE, fin |-> FALSE, need_ack |-> FALSE, acked |-> FALSE,
             want_ack |-> 0, sport |-> 0, dport |-> 0, seq |-> 0, ack |-> 0, rx |-> <<>>]
FreePending == [in_use |-> FALSE, peer_port |-> 0, peer_seq |-> 0, isn |-> 0,
                syn_acked |-> FALSE, established |-> FALSE, rx |-> <<>>]
Unconnected == [call |-> "none", slot |-> 0, port |-> 0, sent |-> 0, told |-> 0,
              got |-> <<>>, eof |-> FALSE]

TcpInit ==
    /\ host = [m \in Machines |->
                 [tcp |-> [i \in TcpSlots |-> FreeConn],
                  pending |-> [i \in PendingSlots |-> FreePending],
                  next_port |-> 1, listening |-> FALSE]]
    /\ sock = [m \in Machines |-> [k \in 1 .. TcpSockets |-> Unconnected]]
    /\ wire = {}

Lowest(S) == CHOOSE i \in S : \A j \in S : i <= j

\* send_tcp
Segment(m, sport, dport, seq, ack, flags, data) ==
    [to |-> Other(m), sport |-> sport, dport |-> dport, seq |-> seq, ack |-> ack,
     flags |-> flags, data |-> data]
send_tcp(m, c, flags, data) == Segment(m, c.sport, c.dport, c.seq, c.ack, flags, data)

tcp_conn_alloc(h) == {i \in TcpSlots : ~h.tcp[i].used}
Conn(m, k) == host[m].tcp[sock[m][k].slot]
WithConn(h, i, c) == [h EXCEPT !.tcp[i] = c]

(* mutant: the slot is freed only if the connection is still open          *)
FreeOpenOnly(c) == IF c.open THEN FreeConn ELSE c

tcp_conn_free(c) == FreeConn

-----------------------------------------------------------------------------
(* Receiving                                                               *)

(* mutant: data is taken without a look at its sequence number             *)
InOrderAlways(c, segment) == TRUE

InOrder(c, segment) == segment.seq = c.ack

\* what is acknowledged may have found no room
Received(c, data) == IF Len(c.rx) + Len(data) > RxRoom THEN c.rx ELSE c.rx \o data

Dispatched(c, s) ==
    LET answered == "ACK" \in s.flags /\ c.want_ack # 0 /\ s.ack >= c.want_ack
        noted == [c EXCEPT !.acked = @ \/ answered]
    IN
    IF "RST" \in s.flags THEN [c EXCEPT !.rst = TRUE]
    ELSE IF c.connecting /\ {"SYN", "ACK"} \subseteq s.flags /\ ~c.synack
    THEN [c EXCEPT !.ack = s.seq + 1, !.synack = TRUE]
    ELSE IF s.data # <<>> /\ InOrder(c, s)
    THEN [noted EXCEPT !.rx = Received(c, s.data), !.need_ack = TRUE,
                       !.ack = @ + Len(s.data) + (IF "FIN" \in s.flags THEN 1 ELSE 0),
                       !.fin = @ \/ "FIN" \in s.flags]
    ELSE IF s.data # <<>> /\ s.seq < c.ack THEN [noted EXCEPT !.need_ack = TRUE]
    ELSE IF "FIN" \in s.flags
    THEN [noted EXCEPT !.ack = s.seq + 1, !.fin = TRUE, !.need_ack = TRUE]
    ELSE noted

\* a slot is found by its own port and the other machine, not by both ports
tcp_dispatch_cb(h, s) ==
    LET found == {i \in TcpSlots : h.tcp[i].used /\ h.tcp[i].sport = s.dport} IN
    IF found = {} THEN h
    ELSE WithConn(h, Lowest(found), Dispatched(h.tcp[Lowest(found)], s))

Established(p, s) ==
    LET done == p.established \/ p.syn_acked
        taken == done /\ s.data # <<>> /\ s.seq = p.peer_seq
        kept == taken /\ Len(p.rx) + Len(s.data) <= StageRoom
    IN [p EXCEPT !.established = done, !.peer_seq = IF taken THEN @ + Len(s.data) ELSE @,
                 !.rx = IF kept THEN @ \o s.data ELSE @]

tcp_accept_ingress(h, s) ==
    LET mine == {i \in PendingSlots : h.pending[i].in_use /\ h.pending[i].peer_port = s.sport}
        free == {i \in PendingSlots : ~h.pending[i].in_use}
        i == Lowest(mine)
    IN
    IF ~h.listening \/ s.dport # ListenPort THEN h
    ELSE IF "SYN" \in s.flags /\ "ACK" \notin s.flags
    THEN IF mine # {} \/ free = {} THEN h
         ELSE [h EXCEPT !.pending[Lowest(free)] =
                 [FreePending EXCEPT !.in_use = TRUE, !.peer_port = s.sport,
                                     !.peer_seq = s.seq + 1]]
    ELSE IF mine = {} THEN h
    ELSE IF "ACK" \in s.flags THEN [h EXCEPT !.pending[i] = Established(@, s)]
    ELSE IF "RST" \in s.flags THEN [h EXCEPT !.pending[i].in_use = FALSE]
    ELSE h

Arrived(m) == {s \in wire : s.to = m}

\* the connections that owe an acknowledgement, and what they send
Owing(h) == {i \in TcpSlots : h.tcp[i].used /\ h.tcp[i].need_ack}
tcp_drain_acks(m, h) ==
    /\ wire' = wire \cup {send_tcp(m, h.tcp[i], {"ACK"}, <<>>) : i \in Owing(h)}
    /\ host' = [host EXCEPT ![m] =
                  [h EXCEPT !.tcp = [i \in TcpSlots |-> [@[i] EXCEPT !.need_ack = FALSE]]]]

\* poll and epoll_wait, whoever calls them
net_pump(m) ==
    /\ \E s \in Arrived(m) : host' = [host EXCEPT ![m] = tcp_dispatch_cb(@, s)]
    /\ UNCHANGED <<sock, wire>>

\* one round of the loops that wait for a connection
PollRound(m) ==
    /\ \/ tcp_drain_acks(m, host[m])
       \/ \E s \in Arrived(m) : tcp_drain_acks(m, tcp_dispatch_cb(host[m], s))
    /\ UNCHANGED sock

-----------------------------------------------------------------------------
(* Connecting and accepting                                                *)

net_tcp_connect_prepare(k) ==
    LET m == "client"
        h == host[m]
        i == Lowest(tcp_conn_alloc(h))
        c == [FreeConn EXCEPT !.used = TRUE, !.connecting = TRUE, !.sport = h.next_port,
                              !.dport = ListenPort, !.seq = h.next_port]
    IN
    /\ sock[m][k].call = "none"
    /\ tcp_conn_alloc(h) # {} \* else "tcp slots full"
    /\ h.next_port <= MaxPort
    /\ Concurrent \/ \A j \in 1 .. TcpSockets : \A n \in Machines :
                        sock[n][j].call \in {"none", "accept", "closed"}
    /\ host' = [host EXCEPT ![m] = [WithConn(h, i, c) EXCEPT !.next_port = h.next_port + 1]]
    /\ sock' = [sock EXCEPT ![m][k] = [@ EXCEPT !.call = "connect", !.slot = i,
                                                !.port = h.next_port]]
    /\ wire' = IF Concurrent THEN wire \cup {send_tcp(m, c, {"SYN"}, <<>>)}
               ELSE {send_tcp(m, c, {"SYN"}, <<>>)} \* the network has emptied

ConnectWaits(k) ==
    /\ sock["client"][k].call = "connect"
    /\ ~Conn("client", k).synack /\ ~Conn("client", k).rst
    /\ PollRound("client")

net_tcp_finish_connect(k) ==
    LET m == "client"
        c == Conn(m, k)
        done == [c EXCEPT !.seq = @ + 1, !.connecting = FALSE, !.open = TRUE]
    IN
    /\ sock[m][k].call = "connect"
    /\ c.synack /\ ~c.rst
    /\ host' = [host EXCEPT ![m] = WithConn(@, sock[m][k].slot, done)]
    /\ sock' = [sock EXCEPT ![m][k].call = "idle"]
    /\ wire' = wire \cup {send_tcp(m, done, {"ACK"}, <<>>)}

\* reset, or three times without an answer: the slot is freed
ConnectFails(k) ==
    /\ sock["client"][k].call = "connect"
    /\ ~Conn("client", k).synack \/ Conn("client", k).rst
    /\ host' = [host EXCEPT !["client"].tcp[sock["client"][k].slot] = tcp_conn_free(@)]
    /\ sock' = [sock EXCEPT !["client"][k] = [@ EXCEPT !.call = "closed", !.slot = 0]]
    /\ UNCHANGED wire

net_tcp_listen ==
    /\ Relistens \/ ~host["server"].listening
    /\ host' = [host EXCEPT !["server"].listening = TRUE,
                            !["server"].pending = [i \in PendingSlots |-> FreePending]]
    /\ UNCHANGED <<sock, wire>>

AcceptCalled(k) ==
    /\ sock["server"][k].call = "none" /\ host["server"].listening
    /\ \A j \in 1 .. k - 1 : sock["server"][j].call # "none"
    /\ sock' = [sock EXCEPT !["server"][k].call = "accept"]
    /\ UNCHANGED <<host, wire>>

\* SYN-ACKs for those in the queue that have had none
Unanswered(h) == {i \in PendingSlots : h.pending[i].in_use /\ ~h.pending[i].syn_acked}
Isn(h, i) == h.next_port + Cardinality({j \in Unanswered(h) : j < i})
SynAcked(h) ==
    [h EXCEPT !.pending = [i \in PendingSlots |->
                 IF i \in Unanswered(h) THEN [@[i] EXCEPT !.isn = Isn(h, i), !.syn_acked = TRUE]
                 ELSE @[i]],
              !.next_port = @ + Cardinality(Unanswered(h))]
SynAcks(h) ==
    {Segment("server", ListenPort, h.pending[i].peer_port, Isn(h, i), h.pending[i].peer_seq,
             {"SYN", "ACK"}, <<>>) : i \in Unanswered(h)}
Complete(h) == {i \in PendingSlots : h.pending[i].in_use /\ h.pending[i].established}

net_tcp_accept(k) ==
    LET m == "server"
        h == SynAcked(host[m])
        p == h.pending[Lowest(Complete(h))]
        free == tcp_conn_alloc(h)
        c == [FreeConn EXCEPT !.used = TRUE, !.open = TRUE, !.sport = ListenPort,
                 !.dport = p.peer_port, !.seq = p.isn + 1, !.ack = p.peer_seq, !.rx = p.rx]
        left == [h EXCEPT !.pending[Lowest(Complete(h))].in_use = FALSE]
    IN
    /\ sock[m][k].call = "accept"
    /\ h.next_port <= MaxPort + 1
    /\ wire' = wire \cup SynAcks(host[m])
    /\ \/ /\ Complete(h) = {}
          /\ \E s \in Arrived(m) : host' = [host EXCEPT ![m] = tcp_accept_ingress(h, s)]
          /\ UNCHANGED sock
       \/ /\ Complete(h) = {} \* timeout
          /\ host' = [host EXCEPT ![m] = h]
          /\ sock' = [sock EXCEPT ![m][k].call = "none"]
       \/ /\ Complete(h) # {} /\ free # {}
          /\ host' = [host EXCEPT ![m] = WithConn(left, Lowest(free), c)]
          /\ sock' = [sock EXCEPT ![m][k] = [@ EXCEPT !.call = "idle", !.slot = Lowest(free),
                                                      !.port = p.peer_port]]
       \/ /\ Complete(h) # {} /\ free = {} \* "tcp slots full"
          /\ host' = [host EXCEPT ![m] = left]
          /\ sock' = [sock EXCEPT ![m][k].call = "none"]

-----------------------------------------------------------------------------
(* Sending, receiving, closing                                             *)

Unit(m, port, n) == [by |-> m, port |-> port, number |-> n]
LastUnit(m, k) == <<Unit(m, sock[m][k].port, sock[m][k].sent)>>

net_tcp_send(m, k) ==
    LET c == [Conn(m, k) EXCEPT !.want_ack = Conn(m, k).seq + 1, !.acked = FALSE]
        data == <<Unit(m, sock[m][k].port, sock[m][k].sent + 1)>>
        called == [sock EXCEPT ![m][k].call = "send", ![m][k].sent = @ + 1]
    IN
    /\ sock[m][k].call = "idle" /\ sock[m][k].sent + sock[Other(m)][k].sent < MaxUnits
    /\ c.open
    /\ host' = [host EXCEPT ![m] = WithConn(@, sock[m][k].slot, c)]
    /\ sock' = called
    /\ wire' = wire \cup {send_tcp(m, c, {"PSH", "ACK"}, data)}

SendWaits(m, k) ==
    /\ sock[m][k].call = "send"
    /\ ~Conn(m, k).acked /\ ~Conn(m, k).rst
    /\ PollRound(m)

SendAgain(m, k) ==
    /\ sock[m][k].call = "send"
    /\ ~Conn(m, k).acked /\ ~Conn(m, k).rst
    /\ wire' = wire \cup {send_tcp(m, Conn(m, k), {"PSH", "ACK"}, LastUnit(m, k))}
    /\ UNCHANGED <<host, sock>>

SendReturns(m, k) ==
    LET c == Conn(m, k)
        i == sock[m][k].slot
    IN
    /\ sock[m][k].call = "send"
    /\ \/ /\ c.rst
          /\ host' = [host EXCEPT ![m].tcp[i].open = FALSE]
          /\ sock' = [sock EXCEPT ![m][k].call = "idle"]
       \/ /\ ~c.rst /\ (c.acked \/ GivesUp) \* 0: "success"
          /\ host' = [host EXCEPT ![m].tcp[i].seq = @ + 1]
          /\ sock' = [sock EXCEPT ![m][k].call = "idle", ![m][k].told = @ + 1]
    /\ UNCHANGED wire

\* the program asks for one unit at a time
UnitRead(m, k) ==
    LET c == Conn(m, k) IN
    /\ host' = [host EXCEPT ![m].tcp[sock[m][k].slot].rx = Tail(@)]
    /\ sock' = [sock EXCEPT ![m][k].call = "idle", ![m][k].got = Append(@, Head(c.rx))]

net_tcp_recv(m, k) ==
    LET c == Conn(m, k) IN
    /\ sock[m][k].call = "idle"
    /\ \/ c.rx # <<>> /\ UnitRead(m, k)
       \/ /\ c.rx = <<>> /\ c.open
          /\ sock' = [sock EXCEPT ![m][k].call = "recv"]
          /\ UNCHANGED host
    /\ UNCHANGED wire

RecvWaits(m, k) ==
    /\ sock[m][k].call = "recv"
    /\ ~Conn(m, k).fin /\ ~Conn(m, k).rst /\ Conn(m, k).rx = <<>>
    /\ PollRound(m)

(* mutant: end of file is reported before the buffer is empty              *)
AtEndFin(c) == c.fin

AtEnd(c) == c.fin /\ c.rx = <<>>

RecvReturns(m, k) ==
    LET c == Conn(m, k)
        i == sock[m][k].slot
    IN
    /\ sock[m][k].call = "recv"
    /\ \/ /\ c.rst \/ AtEnd(c)
          /\ host' = [host EXCEPT ![m].tcp[i].open = FALSE]
          /\ sock' = [sock EXCEPT ![m][k] = [@ EXCEPT !.call = "idle", !.eof = ~c.rst]]
       \/ ~c.rst /\ ~AtEnd(c) /\ c.rx # <<>> /\ UnitRead(m, k)
       \/ /\ ~c.rst /\ ~c.fin /\ c.rx = <<>> \* poll_rounds are over
          /\ sock' = [sock EXCEPT ![m][k].call = "idle"]
          /\ UNCHANGED host
    /\ UNCHANGED wire

\* FIN is sent once, and the slot is given back at once
net_tcp_close(m, k) ==
    LET c == Conn(m, k) IN
    /\ sock[m][k].call = "idle"
    /\ wire' = IF c.open THEN wire \cup {send_tcp(m, c, {"FIN", "ACK"}, <<>>)} ELSE wire
    /\ host' = [host EXCEPT ![m] = WithConn(@, sock[m][k].slot, tcp_conn_free(c))]
    /\ sock' = [sock EXCEPT ![m][k] = [@ EXCEPT !.call = "closed", !.slot = 0]]

\* nothing in net.c sends RST: it comes from something else on the network
Reset(m, k) ==
    LET to == IF m = "client" THEN sock[m][k].port ELSE ListenPort
        from == IF m = "client" THEN ListenPort ELSE sock["client"][k].port
        reset == Segment(Other(m), from, to, 0, 0, {"RST"}, <<>>)
    IN
    /\ m \in Resets /\ sock["client"][k].port # 0
    /\ \E h \in {tcp_dispatch_cb(host[m], reset), tcp_accept_ingress(host[m], reset)} :
         host' = [host EXCEPT ![m] = h]
    /\ UNCHANGED <<sock, wire>>

TcpNext ==
    \/ net_tcp_listen
    \/ \E m \in Machines : net_pump(m)
    \/ \E k \in 1 .. TcpSockets :
         \/ net_tcp_connect_prepare(k) \/ ConnectWaits(k) \/ net_tcp_finish_connect(k)
         \/ ConnectFails(k) \/ AcceptCalled(k) \/ net_tcp_accept(k)
    \/ \E m \in Machines, k \in 1 .. TcpSockets :
         \/ net_tcp_send(m, k)
         \/ SendWaits(m, k) \/ SendAgain(m, k) \/ SendReturns(m, k)
         \/ net_tcp_recv(m, k) \/ RecvWaits(m, k) \/ RecvReturns(m, k)
         \/ net_tcp_close(m, k) \/ Reset(m, k)

TcpSpec == TcpInit /\ [][TcpNext]_tcpVars

-----------------------------------------------------------------------------
(* Properties                                                              *)

TcpTypeOK ==
    /\ \A m \in Machines :
         /\ host[m].next_port \in 1 .. MaxPort + 1
         /\ \A i \in TcpSlots : Len(host[m].tcp[i].rx) <= RxRoom
         /\ \A i \in PendingSlots : Len(host[m].pending[i].rx) <= StageRoom
         /\ \A k \in 1 .. TcpSockets :
              sock[m][k].call \in {"none", "connect", "accept", "idle", "send", "recv", "closed"}
    /\ \A s \in wire : s.to \in Machines /\ Len(s.data) <= 1

HasSlot(m, k) == sock[m][k].slot # 0
Buffered(m, k) == IF HasSlot(m, k) THEN Conn(m, k).rx ELSE <<>>
Stream(m, k) == sock[m][k].got \o Buffered(m, k)
SentOn(m, port, n) == [j \in 1 .. n |-> Unit(m, port, j)]
Peers(m, k) == {j \in 1 .. TcpSockets : sock[m][k].port # 0
                                          /\ sock[Other(m)][j].port = sock[m][k].port}

(* Whatever the network loses, repeats or reorders: what a program reads,  *)
(* and what waits in its buffer, is the beginning of what the other end of *)
(* its connection has sent.                                                *)
StreamIsPrefix ==
    \A m \in Machines, k \in 1 .. TcpSockets : \A j \in Peers(m, k) :
      IsPrefix(Stream(m, k), SentOn(Other(m), sock[m][k].port, sock[Other(m)][j].sent))

(* A send that returns 0 has put its unit where the other end will read    *)
(* it: in its buffer, or on the way to it in the accept queue.             *)
SentIsThere ==
    \A m \in Machines, k \in 1 .. TcpSockets : \A j \in Peers(m, k) :
      sock[m][k].told > 0 /\ sock[Other(m)][j].call # "closed"
        => Len(Stream(Other(m), j)) >= sock[m][k].told

(* End of file comes after everything that the other end's sends reported  *)
(* as sent.                                                                *)
EofIsLast ==
    \A m \in Machines, k \in 1 .. TcpSockets : \A j \in Peers(m, k) :
      sock[m][k].eof => Len(sock[m][k].got) >= sock[Other(m)][j].told

(* Every slot in use belongs to one socket, and every socket that is       *)
(* connected or connecting has one, for its own connection.                *)
SlotsAreOwned ==
    \A m \in Machines :
      /\ \A i \in TcpSlots : host[m].tcp[i].used =>
           Cardinality({k \in 1 .. TcpSockets : sock[m][k].slot = i}) = 1
      /\ \A k \in 1 .. TcpSockets : HasSlot(m, k) =>
           /\ Conn(m, k).used
           /\ sock[m][k].port \in {Conn(m, k).sport, Conn(m, k).dport}

TcpSafe == TcpTypeOK /\ StreamIsPrefix /\ SentIsThere /\ EofIsLast /\ SlotsAreOwned
=============================================================================
