-------------------------------- MODULE Heap --------------------------------
(***************************************************************************)
(* The kernel heap (core/heap.c): a pool tiled by blocks in a doubly       *)
(* linked list, first-fit allocation, splitting, merging with both         *)
(* neighbours, and aligned allocations that hide a pointer to their block  *)
(* before the address they return.                                         *)
(*                                                                         *)
(* Addresses and sizes count units of HEAP_ALIGN bytes, so that align_up   *)
(* of a request is the request.  `heap' has an entry for each header with  *)
(* a valid magic number.                                                   *)
(***************************************************************************)
EXTENDS Integers, FiniteSets

CONSTANTS PoolSize,   \* HEAP_POOL_SIZE
          Requests,   \* the sizes that callers ask for
          Alignments  \* the alignments that callers ask for

ASSUME HeapConstants ==
    /\ PoolSize \in Nat \ {0, 1, 2, 3}
    /\ Requests \subseteq Nat \ {0}
    /\ Alignments \subseteq Nat \ {0}

VARIABLES heap,     \* header address -> its block
          prefix,   \* unit -> base: where a heap_align_prefix_t was written
          live,     \* what callers hold: pointer and size asked for
          moving    \* krealloc calls between their two critical sections

heapVars == <<heap, prefix, live, moving>>

Null == -1
Header == 2                    \* sizeof(heap_block_t)
Prefix == 1                    \* sizeof(heap_align_prefix_t)
PoolUnits == 0 .. PoolSize - 1
Block == [size : Nat, free : BOOLEAN, prev : PoolUnits \cup {Null},
          next : PoolUnits \cup {Null}]

HeapTypeOK ==
    /\ DOMAIN heap \subseteq PoolUnits
    /\ heap \in [DOMAIN heap -> Block]
    /\ DOMAIN prefix \subseteq PoolUnits
    /\ prefix \in [DOMAIN prefix -> PoolUnits]
    /\ live \subseteq [ptr : PoolUnits, size : Nat]
    /\ moving \subseteq [from : live, size : Requests]

HeapInit ==
    /\ heap = [b \in {0} |-> [size |-> PoolSize - Header, free |-> TRUE,
                              prev |-> Null, next |-> Null]]
    /\ prefix = << >>
    /\ live = {}
    /\ moving = {}

-----------------------------------------------------------------------------
(* The list. *)

(* mutant: the alignment prefix is ignored *)
FromPointerPlain(p) == p - Header

(* The block that kfree and krealloc find behind a pointer. *)
block_from_pointer(p) ==
    IF p - Prefix \in DOMAIN prefix /\ prefix[p - Prefix] - Header \in DOMAIN heap
    THEN prefix[p - Prefix] - Header
    ELSE p - Header

(* Neighbours(h, b): the block after b is told that b precedes it. *)
LinkNext(h, b) ==
    [c \in DOMAIN h |-> IF c = h[b].next THEN [h[c] EXCEPT !.prev = b] ELSE h[c]]

(* mutant: the tail keeps the size of the whole block *)
TailSizeWhole(h, b, wanted) == h[b].size - wanted

TailSize(h, b, wanted) == h[b].size - wanted - Header

(* Cuts a free tail off block b when it is worth it. *)
split_block(h, b, wanted) ==
    IF h[b].size < wanted + Header + 1 THEN h
    ELSE LET tail == b + Header + wanted
             cut == [c \in DOMAIN h \cup {tail} |->
                       IF c = b THEN [h[b] EXCEPT !.size = wanted, !.next = tail]
                       ELSE IF c = tail
                       THEN [size |-> TailSize(h, b, wanted), free |-> TRUE,
                             prev |-> b, next |-> h[b].next]
                       ELSE h[c]]
         IN  LinkNext(cut, tail)

(* Swallows the next block if it is free; its magic is cleared. *)
merge_next(h, b) ==
    LET n == h[b].next IN
    IF n = Null \/ ~h[n].free THEN h
    ELSE LET joined == [c \in DOMAIN h \ {n} |->
                          IF c = b
                          THEN [h[b] EXCEPT !.size = @ + Header + h[n].size,
                                            !.next = h[n].next]
                          ELSE h[c]]
         IN  LinkNext(joined, b)

(* Units that a new header overwrites cannot hold a prefix any more. *)
Overwritten(h) == UNION {{b, b + 1} : b \in DOMAIN h}

(* The scan follows the list, which is in address order (ListTilesPool). *)
FirstFit(size) ==
    LET fits == {b \in DOMAIN heap : heap[b].free /\ heap[b].size >= size}
    IN  IF fits = {} THEN Null ELSE CHOOSE b \in fits : \A c \in fits : b <= c

(* What a critical section of kmalloc leaves when the scan stopped at b. *)
Taken(b, size) ==
    LET h == split_block(heap, b, size) IN [h EXCEPT ![b].free = FALSE]

KeepPrefixes(h) ==
    [u \in DOMAIN prefix \ Overwritten(h) |-> prefix[u]]

-----------------------------------------------------------------------------
(* The calls. *)

kmalloc(size) ==
    LET b == FirstFit(size) IN
    /\ b # Null
    /\ heap' = Taken(b, size)
    /\ prefix' = KeepPrefixes(heap')
    /\ live' = live \cup {[ptr |-> b + Header, size |-> size]}
    /\ UNCHANGED moving

AlignUp(a, alignment) == ((a + alignment - 1) \div alignment) * alignment

kmalloc_aligned(size, alignment) ==
    LET total == size + alignment + Prefix
        b     == FirstFit(total)
        base  == b + Header
        p     == AlignUp(base + Prefix, alignment) IN
    /\ b # Null
    /\ heap' = Taken(b, total)
    /\ prefix' = [u \in DOMAIN KeepPrefixes(heap') \cup {p - Prefix} |->
                    IF u = p - Prefix THEN base ELSE prefix[u]]
    /\ live' = live \cup {[ptr |-> p, size |-> size]}
    /\ UNCHANGED moving

(* mutant: only the block after is merged *)
ReleasedForward(h, b) == merge_next([h EXCEPT ![b].free = TRUE], b)

(* List h after block b is given back. *)
Released(h, b) ==
    LET m == merge_next([h EXCEPT ![b].free = TRUE], b)
        p == m[b].prev
    IN  IF p # Null /\ m[p].free THEN merge_next(m, p) ELSE m

kfree(a) ==
    /\ a \in live
    /\ \A m \in moving : m.from # a
    /\ heap' = Released(heap, block_from_pointer(a.ptr))
    /\ live' = live \ {a}
    /\ UNCHANGED <<prefix, moving>>

Usable(a) ==
    LET b == block_from_pointer(a.ptr) IN heap[b].size - (a.ptr - (b + Header))

(* krealloc that grows in place: enough room behind the pointer. *)
ReallocInPlace(a, size) ==
    /\ a \in live
    /\ \A m \in moving : m.from # a
    /\ Usable(a) >= size
    /\ live' = (live \ {a}) \cup {[a EXCEPT !.size = size]}
    /\ UNCHANGED <<heap, prefix, moving>>

(* Not enough room: krealloc drops the lock and calls kmalloc. *)
ReallocMoves(a, size) ==
    /\ a \in live
    /\ moving = {}
    /\ Usable(a) < size
    /\ moving' = {[from |-> a, size |-> size]}
    /\ UNCHANGED <<heap, prefix, live>>

(* kmalloc, the copy of what was usable, and kfree of the old block. *)
ReallocDone(m) ==
    LET b == FirstFit(m.size)
        h == Taken(b, m.size)
        old == block_from_pointer(m.from.ptr) IN
    /\ m \in moving
    /\ moving' = {}
    /\ IF b = Null THEN UNCHANGED <<heap, prefix, live>>
       ELSE /\ heap' = Released(h, old)
            /\ prefix' = KeepPrefixes(h)
            /\ live' = (live \ {m.from}) \cup {[ptr |-> b + Header, size |-> m.size]}

HeapNext ==
    \/ \E size \in Requests : kmalloc(size)
    \/ \E size \in Requests, alignment \in Alignments : kmalloc_aligned(size, alignment)
    \/ \E a \in live : kfree(a)
    \/ \E a \in live, size \in Requests : ReallocInPlace(a, size)
    \/ \E a \in live, size \in Requests : ReallocMoves(a, size)
    \/ \E m \in moving : ReallocDone(m)

HeapSpec == HeapInit /\ [][HeapNext]_heapVars

-----------------------------------------------------------------------------
(* Properties. *)

EndOf(b) == b + Header + heap[b].size

(* Following next from address 0 visits every block once and the blocks    *)
(* cover the pool without gap or overlap; prev is the inverse of next.     *)
ListTilesPool ==
    /\ 0 \in DOMAIN heap
    /\ \A b \in DOMAIN heap :
          /\ IF heap[b].next = Null THEN EndOf(b) = PoolSize
             ELSE /\ heap[b].next = EndOf(b)
                  /\ heap[b].next \in DOMAIN heap
                  /\ heap[heap[b].next].prev = b
          /\ IF heap[b].prev = Null THEN b = 0
             ELSE /\ heap[b].prev \in DOMAIN heap
                  /\ heap[heap[b].prev].next = b
    /\ \A b, c \in DOMAIN heap : b < c => EndOf(b) <= c

(* No two neighbours are both free, so the pool does not crumble: what the *)
(* file's comment promises about short-lived buffers.                      *)
FreeIsCoalesced ==
    \A b \in DOMAIN heap :
        heap[b].free => \A c \in DOMAIN heap : heap[c].free => c # EndOf(b)

(* Each pointer that a caller holds leads back to a block of its own, in   *)
(* use and large enough, whether or not the pointer was aligned and        *)
(* whatever earlier allocations have left in memory.                       *)
PointersLeadHome ==
    /\ \A a \in live :
          LET b == block_from_pointer(a.ptr) IN
          /\ b \in DOMAIN heap
          /\ ~heap[b].free
          /\ b + Header <= a.ptr
          /\ a.ptr + a.size <= EndOf(b)
    /\ \A a, c \in live :
          block_from_pointer(a.ptr) = block_from_pointer(c.ptr) => a = c
    /\ \A b \in DOMAIN heap :
          ~heap[b].free => \E a \in live : block_from_pointer(a.ptr) = b

HeapSafe ==
    /\ HeapTypeOK
    /\ ListTilesPool
    /\ FreeIsCoalesced
    /\ PointersLeadHome
=============================================================================
