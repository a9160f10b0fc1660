----------------------------- MODULE UnixSocket -----------------------------
(***************************************************************************)
(* AF_UNIX stream sockets (linux_compat.c): a table of slots that name     *)
(* each other by index, connections that wait in a listener's backlog      *)
(* before anyone has accepted them, descriptors in flight (SCM_RIGHTS),    *)
(* and calls that yield with a pointer to their slot.                      *)
(*                                                                         *)
(* `fdSocket' holds the descriptors of all processes.  What is sent are    *)
(* sockets, the hard case; other counted objects are in Descriptors.  The  *)
(* code takes the lowest free slot and descriptor: here, any.              *)
(***************************************************************************)
EXTENDS Integers, Sequences, FiniteSets

CONSTANTS SocketSlots,  \* 0 .. UNIX_SOCKET_SLOTS - 1, or a part of it
          SocketFds,    \* descriptors
          Addresses,    \* socket addresses
          SocketBuffer, \* UNIX_SOCKET_BUFFER
          Backlog,      \* UNIX_SOCKET_BACKLOG
          RightsQueue,  \* UNIX_RIGHTS_QUEUE
          Workloads,    \* what programs do with connections: sets of "data", "rights"
          Shutdowns,    \* the arguments of shutdown that programs use
          Nobody,       \* peer -1, no address, no descriptor
          ReusesWaited  \* whether a thread closes the socket another waits on

ASSUME UnixAssumption ==
    /\ IsFiniteSet(SocketSlots) /\ IsFiniteSet(SocketFds)
    /\ Nobody \notin SocketSlots \cup Addresses
    /\ {SocketBuffer, Backlog, RightsQueue} \subseteq Nat

VARIABLES socket,     \* slot -> its record
          fdSocket,   \* descriptor -> slot, or Nobody
          workload,   \* one of Workloads, for good
          sleeper     \* the call that yields: [op, fd, slot]

unixVars == <<socket, fdSocket, workload, sleeper>>

FreeSocket == [used |-> FALSE, refs |-> 0, peer |-> Nobody, listening |-> FALSE,
               address |-> Nobody, read_shutdown |-> FALSE, write_shutdown |-> FALSE,
               received |-> 0, pending |-> << >>, rights |-> << >>]
Awake == [op |-> "none", fd |-> -1, slot |-> Nobody]
NewSocket == [FreeSocket EXCEPT !.used = TRUE]

UnixTypeOK ==
    /\ \A i \in SocketSlots :
          /\ socket[i].refs \in Nat
          /\ socket[i].peer \in SocketSlots \cup {Nobody}
          /\ socket[i].address \in Addresses \cup {Nobody}
          /\ socket[i].received \in 0 .. SocketBuffer
          /\ Len(socket[i].pending) <= Backlog
          /\ Len(socket[i].rights) <= RightsQueue
    /\ fdSocket \in [SocketFds -> SocketSlots \cup {Nobody}]
    /\ sleeper \in {Awake} \cup [op : {"accept", "send", "recv"}, fd : SocketFds,
                                slot : SocketSlots]

UnixInit ==
    /\ socket = [i \in SocketSlots |-> FreeSocket]
    /\ fdSocket = [fd \in SocketFds |-> Nobody]
    /\ workload \in Workloads
    /\ sleeper = Awake

-----------------------------------------------------------------------------
(* The slot table. *)

IdleSlots == {i \in SocketSlots : ~socket[i].used}
FreeFds == {fd \in SocketFds : fdSocket[fd] = Nobody}
IsSocket(fd) == fdSocket[fd] \in SocketSlots
SlotOf(fd) == socket[fdSocket[fd]]

UsedIn(S) == {i \in SocketSlots : S[i].used}

(* The messages of the slots D that hold slot s, and the places of s in    *)
(* their backlogs.                                                         *)
Carries(S, D, s) ==
    {x \in D \X (1 .. RightsQueue) :
        x[2] \in DOMAIN S[x[1]].rights /\ S[x[1]].rights[x[2]] = s}
Carried(S, D, s) == Cardinality(Carries(S, D, s))
Queues(S, D, s) ==
    {x \in D \X (1 .. Backlog) :
        x[2] \in DOMAIN S[x[1]].pending /\ S[x[1]].pending[x[2]] = s}

FollowsInMessages(S, D, s) ==   \* mutant: a backlog is dropped without its connections
    S[s].used /\ S[s].refs > 0 /\ Carried(S, D, s) >= S[s].refs

(* unix_slot_reset and compat_entry_release call each other.  When the     *)
(* slots D go, so do the connections in their backlogs and the sockets     *)
(* whose references are all in their messages.                             *)
Follows(S, D, s) ==
    /\ S[s].used
    /\ \/ Queues(S, D, s) # {}
       \/ S[s].refs > 0 /\ Carried(S, D, s) >= S[s].refs
GoWith(S, i) ==
    {D \in SUBSET SocketSlots :
        i \in D /\ \A s \in SocketSlots : Follows(S, D, s) => s \in D}
Resets(S, i) == {s \in SocketSlots : \A D \in GoWith(S, i) : s \in D}

(* mutant: the peer keeps the index of the slot *)
DetachedNot(S, D, s) == S[s].peer

(* The peer of s, which forgets s if it is s that it names. *)
Detached(S, D, s) ==
    LET p == S[s].peer IN IF p \in D /\ S[p].peer = s THEN Nobody ELSE p

unix_slot_reset(S, i) ==
    LET D == Resets(S, i) IN
    IF ~S[i].used THEN S
    ELSE [s \in SocketSlots |->
            IF s \in D THEN FreeSocket
            ELSE [S[s] EXCEPT !.peer = Detached(S, D, s), !.refs = @ - Carried(S, D, s)]]

compat_entry_release(S, i) ==
    IF ~S[i].used \/ S[i].refs = 0 THEN S
    ELSE IF S[i].refs > 1 THEN [S EXCEPT ![i].refs = @ - 1]
    ELSE unix_slot_reset([S EXCEPT ![i].refs = 0], i)

-----------------------------------------------------------------------------
(* Calls that make and connect sockets. *)

linux_compat_unix_socket(fd, i) ==
    /\ socket' = [socket EXCEPT ![i] = [NewSocket EXCEPT !.refs = 1]]
    /\ fdSocket' = [fdSocket EXCEPT ![fd] = i]
    /\ UNCHANGED sleeper

(* Two sockets that are each other's peer, or, when the second cannot be   *)
(* made, none.                                                             *)
linux_compat_unix_socketpair(a, b, i, j) ==
    /\ a # b /\ i # j
    /\ socket' = [socket EXCEPT ![i] = [NewSocket EXCEPT !.refs = 1, !.peer = j],
                                ![j] = [NewSocket EXCEPT !.refs = 1, !.peer = i]]
    /\ fdSocket' = [fdSocket EXCEPT ![a] = i, ![b] = j]
    /\ UNCHANGED sleeper

linux_compat_unix_bind(fd, address) ==
    /\ SlotOf(fd).address = Nobody
    /\ \A i \in SocketSlots : socket[i].used => socket[i].address # address
    /\ socket' = [socket EXCEPT ![fdSocket[fd]].address = address]
    /\ UNCHANGED <<fdSocket, sleeper>>

linux_compat_unix_listen(fd) ==
    /\ SlotOf(fd).address # Nobody
    /\ SlotOf(fd).peer = Nobody
    /\ socket' = [socket EXCEPT ![fdSocket[fd]].listening = TRUE]
    /\ UNCHANGED <<fdSocket, sleeper>>

Connected(S, client, server) == [S EXCEPT ![client].peer = server, ![server].peer = client]

(* The server's slot is taken here; accept only gives it a descriptor. *)
linux_compat_unix_connect(fd, listener, server) ==
    LET made == [socket EXCEPT
                   ![server] = [NewSocket EXCEPT !.address = socket[listener].address],
                   ![listener].pending = Append(@, server)] IN
    /\ SlotOf(fd).peer = Nobody
    /\ socket[listener].used /\ socket[listener].listening
    /\ Len(socket[listener].pending) < Backlog
    /\ socket' = Connected(made, fdSocket[fd], server)
    /\ UNCHANGED <<fdSocket, sleeper>>

(* accept once a connection is there: a descriptor for it, or, without a   *)
(* free one, the connection is dropped.                                    *)
Accepts(listener) ==
    LET server == Head(socket[listener].pending)
        popped == [socket EXCEPT ![listener].pending = Tail(@)] IN
    /\ socket[listener].pending # << >>
    /\ IF ~socket[server].used
       THEN socket' = popped /\ UNCHANGED fdSocket
       ELSE IF FreeFds = {}
       THEN socket' = unix_slot_reset(popped, server) /\ UNCHANGED fdSocket
       ELSE /\ socket' = [popped EXCEPT ![server].refs = 1]
            /\ \E fd \in FreeFds : fdSocket' = [fdSocket EXCEPT ![fd] = server]

(* The caller asked for the peer's address, and there is no peer any more. *)
AcceptsNobody(listener) ==
    LET server == Head(socket[listener].pending)
        popped == [socket EXCEPT ![listener].pending = Tail(@)] IN
    /\ socket[listener].pending # << >>
    /\ socket[server].used /\ socket[server].peer = Nobody /\ FreeFds # {}
    /\ socket' = unix_slot_reset(popped, server)
    /\ UNCHANGED fdSocket

linux_compat_unix_accept(fd) ==
    /\ SlotOf(fd).listening
    /\ \/ (Accepts(fdSocket[fd]) \/ AcceptsNobody(fdSocket[fd])) /\ UNCHANGED sleeper
       \/ /\ SlotOf(fd).pending = << >> /\ sleeper = Awake
          /\ sleeper' = [op |-> "accept", fd |-> fd, slot |-> fdSocket[fd]]
          /\ UNCHANGED <<socket, fdSocket>>

-----------------------------------------------------------------------------
(* Data. *)

PeerGone(i) == socket[i].peer = Nobody \/ ~socket[socket[i].peer].used

(* A byte goes to the peer; or the send ends; or it yields: "wait". *)
SendOutcome(i) ==
    IF socket[i].listening \/ socket[i].write_shutdown \/ PeerGone(i)
         \/ socket[socket[i].peer].read_shutdown
    THEN "end"
    ELSE IF socket[socket[i].peer].received = SocketBuffer THEN "wait" ELSE "byte"

RecvOutcome(i) ==
    IF socket[i].listening \/ socket[i].read_shutdown THEN "end"
    ELSE IF socket[i].received > 0 THEN "byte"
    ELSE IF PeerGone(i) \/ socket[socket[i].peer].write_shutdown THEN "end"
    ELSE "wait"

Outcome(op, i) == IF op = "send" THEN SendOutcome(i) ELSE RecvOutcome(i)

Transfers(op, i) ==
    socket' = IF op = "send" THEN [socket EXCEPT ![socket[i].peer].received = @ + 1]
              ELSE [socket EXCEPT ![i].received = 0]

SendOrRecv(fd, op) ==
    LET i == fdSocket[fd] IN
    /\ \/ Outcome(op, i) = "byte" /\ Transfers(op, i) /\ UNCHANGED sleeper
       \/ /\ Outcome(op, i) = "wait" /\ sleeper = Awake
          /\ sleeper' = [op |-> op, fd |-> fd, slot |-> i]
          /\ UNCHANGED socket
    /\ UNCHANGED fdSocket

(* The loops after task_yield, on the slot they have kept. *)
Resume ==
    /\ sleeper # Awake
    /\ sleeper' = Awake
    /\ \/ /\ sleeper.op = "accept"
          /\ \/ ~socket[sleeper.slot].used /\ UNCHANGED <<socket, fdSocket>>
             \/ socket[sleeper.slot].used /\ Accepts(sleeper.slot)
       \/ /\ sleeper.op \in {"send", "recv"}
          /\ \/ Outcome(sleeper.op, sleeper.slot) = "end" /\ UNCHANGED socket
             \/ Outcome(sleeper.op, sleeper.slot) = "byte" /\ Transfers(sleeper.op, sleeper.slot)
          /\ UNCHANGED fdSocket

linux_compat_unix_shutdown(fd, how) ==
    /\ socket' = [socket EXCEPT
         ![fdSocket[fd]].read_shutdown = @ \/ how \in {"read", "both"},
         ![fdSocket[fd]].write_shutdown = @ \/ how \in {"write", "both"}]
    /\ UNCHANGED <<fdSocket, sleeper>>

-----------------------------------------------------------------------------
(* Descriptors. *)

Retain(S, i) == [S EXCEPT ![i].refs = @ + 1]

(* dup, and what fork does with each descriptor. *)
DupSocket(fd, new) ==
    /\ fdSocket[fd] # Nobody
    /\ fdSocket' = [fdSocket EXCEPT ![new] = fdSocket[fd]]
    /\ socket' = Retain(socket, fdSocket[fd])
    /\ UNCHANGED sleeper

(* close, dup2 over it, exit. *)
CloseSocket(fd) ==
    /\ fdSocket[fd] # Nobody
    /\ ReusesWaited \/ sleeper = Awake \/ sleeper.fd # fd
    /\ fdSocket' = [fdSocket EXCEPT ![fd] = Nobody]
    /\ socket' = compat_entry_release(socket, fdSocket[fd])
    /\ UNCHANGED sleeper

(* All descriptors of a message are retained first, or none is sent. *)
linux_compat_unix_send_rights(fd, sent) ==
    LET receiver == SlotOf(fd).peer
        kept == Retain(socket, fdSocket[sent]) IN
    /\ fdSocket[sent] # Nobody
    /\ ~PeerGone(fdSocket[fd])
    /\ Len(socket[receiver].rights) < RightsQueue
    /\ socket' = [kept EXCEPT ![receiver].rights = Append(@, fdSocket[sent])]
    /\ UNCHANGED <<fdSocket, sleeper>>

(* The reference of the message moves to the new descriptor; without room  *)
(* it is given back.                                                       *)
linux_compat_unix_recv_rights(fd, capacity) ==
    LET sent == Head(SlotOf(fd).rights)
        popped == [socket EXCEPT ![fdSocket[fd]].rights = Tail(@)] IN
    /\ SlotOf(fd).rights # << >>
    /\ IF FreeFds # {} /\ capacity > 0
       THEN /\ \E new \in FreeFds : fdSocket' = [fdSocket EXCEPT ![new] = sent]
            /\ socket' = popped
       ELSE socket' = compat_entry_release(popped, sent) /\ UNCHANGED fdSocket
    /\ UNCHANGED sleeper

Connections ==
    \/ \E fd \in FreeFds, i \in IdleSlots : linux_compat_unix_socket(fd, i)
    \/ \E a, b \in FreeFds, i, j \in IdleSlots : linux_compat_unix_socketpair(a, b, i, j)
    \/ \E fd \in SocketFds : CloseSocket(fd)
    \/ \E fd \in SocketFds, new \in FreeFds : DupSocket(fd, new)
    \/ \E fd \in SocketFds : IsSocket(fd) /\
          \/ \E address \in Addresses : linux_compat_unix_bind(fd, address)
          \/ linux_compat_unix_listen(fd)
          \/ \E listener \in SocketSlots, server \in IdleSlots :
                linux_compat_unix_connect(fd, listener, server)
          \/ linux_compat_unix_accept(fd)

Data ==
    \E fd \in SocketFds : IsSocket(fd) /\
        \/ \E op \in {"send", "recv"} : SendOrRecv(fd, op)
        \/ \E how \in Shutdowns : linux_compat_unix_shutdown(fd, how)

Rights ==
    \E fd \in SocketFds : IsSocket(fd) /\
        \/ \E sent \in SocketFds : linux_compat_unix_send_rights(fd, sent)
        \/ \E capacity \in 0 .. 1 : linux_compat_unix_recv_rights(fd, capacity)

UnixNext ==
    /\ \/ Connections
       \/ Resume
       \/ "data" \in workload /\ Data
       \/ "rights" \in workload /\ Rights
    /\ UNCHANGED workload

UnixSpec == UnixInit /\ [][UnixNext]_unixVars

-----------------------------------------------------------------------------
(* Properties. *)

UsedSlots == UsedIn(socket)
Holders(s) ==
    Cardinality({fd \in SocketFds : fdSocket[fd] = s}) + Carried(socket, UsedSlots, s)

(* An index is never stale: a socket's peer is in use and has it as peer,  *)
(* across closes, refused connections and slots that are used again.       *)
PeersAreMutual ==
    \A i \in UsedSlots : socket[i].peer # Nobody =>
        socket[i].peer \in UsedSlots /\ socket[socket[i].peer].peer = i

(* A slot has a reference for each descriptor and each message that holds  *)
(* it.                                                                     *)
RefsCountHolders ==
    \A i \in UsedSlots : socket[i].refs = Holders(i)

(* Without descriptor or message a slot is in use only as a connection     *)
(* that waits in the backlog of one listener, once.                        *)
UnacceptedIsQueued ==
    \A s \in SocketSlots :
        Cardinality(Queues(socket, UsedSlots, s)) =
            IF s \in UsedSlots /\ socket[s].refs = 0 THEN 1 ELSE 0

UnixSafe == UnixTypeOK /\ PeersAreMutual /\ RefsCountHolders /\ UnacceptedIsQueued
=============================================================================
