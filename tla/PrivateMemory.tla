---------------------------- MODULE PrivateMemory ----------------------------
(***************************************************************************)
(* What the virtual memory manager promises to user programs: every        *)
(* address space has private pages of its own, fork gives the child a copy *)
(* of them, a store changes the page of the space that makes it and no     *)
(* other, and a MAP_SHARED page of the memfd is one object for all.        *)
(* Frames, reference counts, copy-on-write and the TLB do not appear.      *)
(***************************************************************************)
CONSTANTS Spaces, Pages, Values, Zero

VARIABLES
    mem,       \* mem[s][p], page p as the programs of space s see it
    object     \* the page of the shared memfd

Page == [kind : {"none", "private", "shared"}, value : Values]
Private(v) == [kind |-> "private", value |-> v]
Shared == [kind |-> "shared", value |-> Zero]
Hole == [kind |-> "none", value |-> Zero]

Init ==
    /\ mem = [s \in Spaces |-> [p \in Pages |-> Hole]]
    /\ object = Zero

\* mmap: private memory starts zeroed, whatever was mapped there before.
Map(s, p) == mem' = [mem EXCEPT ![s][p] = Private(Zero)] /\ UNCHANGED object
MapShared(s, p) == mem' = [mem EXCEPT ![s][p] = Shared] /\ UNCHANGED object
Unmap(s, p) == mem' = [mem EXCEPT ![s][p] = Hole] /\ UNCHANGED object

\* A store, or the zeroing of MADV_DONTNEED (v = Zero).
WritePrivate(s, p, v) ==
    /\ mem[s][p].kind = "private"
    /\ mem' = [mem EXCEPT ![s][p] = Private(v)]
    /\ UNCHANGED object
WriteShared(s, p, v) ==
    /\ mem[s][p].kind = "shared"
    /\ object' = v /\ UNCHANGED mem

Fork(s, c) == mem' = [mem EXCEPT ![c] = mem[s]] /\ UNCHANGED object

\* A new image starts with no user page; a dead space has none.
Clear(s) == mem' = [mem EXCEPT ![s] = [p \in Pages |-> Hole]] /\ UNCHANGED object

Next ==
    \E s \in Spaces :
        \/ Clear(s)
        \/ \E c \in Spaces \ {s} : Fork(s, c)
        \/ \E p \in Pages :
            \/ Map(s, p) \/ MapShared(s, p) \/ Unmap(s, p)
            \/ \E v \in Values : WritePrivate(s, p, v) \/ WriteShared(s, p, v)

Spec == Init /\ [][Next]_<<mem, object>>
=============================================================================
