------------------------------- MODULE Areas -------------------------------
(***************************************************************************)
(* The areas of user address spaces: mmap, munmap, mremap and brk of       *)
(* syscall.c, the memfd objects of linux_compat.c that areas share, and    *)
(* what fork and exit of task.c do with both.                              *)
(*                                                                         *)
(* Addresses are page numbers: 1 .. HeapPages is the heap, mmap searches   *)
(* above it.  A page table entry is Nothing, Own (a frame the space owns,  *)
(* whose sharing after fork is the subject of Vmm) or a frame borrowed     *)
(* from a memfd.  System calls do not interleave (README, section 3).      *)
(***************************************************************************)
EXTENDS Naturals, Sequences, FiniteSets, Functions

CONSTANTS
  Spaces,         \* address spaces, each of one process
  FirstSpace,     \* the one that exists at the start
  Memfds,         \* memfd_slots, numbers from 1
  FrameCount,     \* frames memfds may get
  HeapPages,      \* user_heap_limit, in pages
  LastPage,       \* the end of the range mmap searches
  MemfdPages,     \* LINUX_MEMFD_MAX_SIZE, in pages
  MaxAreas,       \* bound: areas of all spaces together
  Mappers,        \* bound: the spaces that map; others only unmap
  RemapsShared,   \* do programs grow a shared memfd area out of its place?
  MapsIntoHeap    \* do they map with MAP_FIXED at heap addresses?

ASSUME AreasConstants ==
  /\ IsFiniteSet(Spaces) /\ FirstSpace \in Spaces
  /\ IsFiniteSet(Memfds) /\ Memfds \subseteq Nat \ {0}
  /\ {FrameCount, HeapPages, LastPage, MemfdPages} \subseteq Nat
  /\ {RemapsShared, MapsIntoHeap} \subseteq BOOLEAN

VARIABLES
  mm,             \* space -> [areas, pte, brk]
  memfds,         \* memfd_slots: slot -> [used, refs, map_refs, pages]
  memfdFds,       \* space -> the memfds it has descriptors of
  alive           \* the spaces of processes that have not exited

areaVars == <<mm, memfds, memfdFds, alive>>

Nothing == 0
Own == FrameCount + 1
UserPages == 1 .. LastPage
Anonymous == 0                             \* backing of an area without memfd
NoMemfd == [used |-> FALSE, refs |-> 0, map_refs |-> 0, pages |-> <<>>]
NoSpace == [areas |-> {}, pte |-> [p \in UserPages |-> Nothing], brk |-> 0]
Within(a, b) == a .. b - 1                 \* the pages of [a,b)

AreasInit ==
  /\ mm = [s \in Spaces |-> NoSpace]
  /\ memfds = [m \in Memfds |-> NoMemfd]
  /\ memfdFds = [s \in Spaces |-> {}]
  /\ alive = {FirstSpace}
-----------------------------------------------------------------------------
(* memfd objects. *)

memfd_maybe_reset(m) == IF m.refs = 0 /\ m.map_refs = 0 THEN NoMemfd ELSE m

BackedBy(areas, m) == {x \in areas : x.backing = m}

\* vm_area_drop_backing, for each of the areas.
drop_backings(slots, areas) ==
  [m \in Memfds |->
     LET n == Cardinality(BackedBy(areas, m)) IN
     IF n = 0 \/ ~slots[m].used THEN slots[m]
     ELSE memfd_maybe_reset([slots[m] EXCEPT !.map_refs = IF @ < n THEN 0 ELSE @ - n])]

\* linux_compat_memfd_retain_map, for each of the areas.
retain_maps(slots, areas) ==
  [m \in Memfds |-> [slots[m] EXCEPT !.map_refs = @ + Cardinality(BackedBy(areas, m))]]

FreeFrames == (1 .. FrameCount) \ UNION {Range(memfds[m].pages) : m \in Memfds}
NextFrames(n) == [i \in 1 .. n |->
    CHOOSE f \in FreeFrames : Cardinality({g \in FreeFrames : g < f}) = i - 1]

memfd_create(s) ==
  /\ \E m \in Memfds :
       /\ ~memfds[m].used /\ \A k \in Memfds : k < m => memfds[k].used
       /\ memfds' = [memfds EXCEPT ![m] = [NoMemfd EXCEPT !.used = TRUE, !.refs = 1]]
       /\ memfdFds' = [memfdFds EXCEPT ![s] = @ \cup {m}]
  /\ UNCHANGED <<mm, alive>>

MayResize(m, n) == n < Len(memfds[m].pages) => memfds[m].map_refs = 0

\* ftruncate: all the frames it needs or, in the end, none.
memfd_truncate(s, m, n) ==
  LET had == memfds[m].pages IN
  /\ m \in memfdFds[s] /\ n # Len(had) /\ MayResize(m, n)
  /\ n > Len(had) => Cardinality(FreeFrames) >= n - Len(had)
  /\ memfds' = [memfds EXCEPT ![m].pages =
                  IF n < Len(had) THEN SubSeq(had, 1, n) ELSE had \o NextFrames(n - Len(had))]
  /\ UNCHANGED <<mm, memfdFds, alive>>

memfd_close(s, m) ==
  /\ m \in memfdFds[s]
  /\ memfdFds' = [memfdFds EXCEPT ![s] = @ \ {m}]
  /\ memfds' = [memfds EXCEPT ![m] = memfd_maybe_reset([memfds[m] EXCEPT !.refs = @ - 1])]
  /\ UNCHANGED <<mm, alive>>
-----------------------------------------------------------------------------
(* Mapping and unmapping.  st is [areas, pte, memfds] within a call.       *)

Current(s) == [areas |-> mm[s].areas, pte |-> mm[s].pte, memfds |-> memfds]
AreaCount == Cardinality(UNION {{s} \X mm[s].areas : s \in Spaces})
Becomes(s, st) ==
  /\ mm' = [mm EXCEPT ![s].areas = st.areas, ![s].pte = st.pte]
  /\ memfds' = st.memfds
  /\ AreaCount' <= MaxAreas
  /\ UNCHANGED <<memfdFds, alive>>

\* vmm_release_page and vm_allocate_owned_pages, over a range.
Filled(st, pages, what) ==
  [st EXCEPT !.pte = [p \in UserPages |-> IF p \in pages THEN what ELSE @[p]]]

\* Mutant: the right part of a cut area keeps the offset of the whole.
ShortenedKeepsOffset(x, b) == [x EXCEPT !.start = b]

\* The offset of an area without memfd has no reader.
Shortened(x, b) ==
  [x EXCEPT !.start = b, !.offset = IF x.backing = Anonymous THEN @ ELSE @ + (b - x.start)]

\* Every fragment of an area that meets [a,b) goes; one that b does not
\* reach the end of is split, and its right part retains the backing.
vm_unmap_area_range(st, a, b) ==
  LET hit == {x \in st.areas : a < x.end /\ x.start < b}
      left == {[x EXCEPT !.end = a] : x \in {y \in hit : y.start < a}}
      right == {Shortened(x, b) : x \in {y \in hit : b < y.end}}
      split == {x \in hit : x.start < a /\ b < x.end}
      whole == {x \in hit : a <= x.start /\ x.end <= b}
      cut == UNION {Within(a, b) \cap Within(x.start, x.end) : x \in hit}
  IN [Filled(st, cut, Nothing) EXCEPT
        !.areas = (@ \ hit) \cup left \cup right,
        !.memfds = drop_backings(retain_maps(@, split), whole)]

\* MAP_FIXED and munmap also release pages that no area names.
Emptied(st, a, b) == Filled(vm_unmap_area_range(st, a, b), Within(a, b), Nothing)

IsFreeAt(s, a, n) == \A p \in Within(a, a + n) : mm[s].pte[p] = Nothing
FirstFree(s, n) ==
  LET fit == {a \in HeapPages + 1 .. LastPage + 1 - n : IsFreeAt(s, a, n)}
  IN {a \in fit : \A b \in fit : a <= b}
Targets(n) == (IF MapsIntoHeap THEN 1 ELSE HeapPages + 1) .. LastPage + 1 - n

\* The area is made after its pages; a failure by then has lost what
\* MAP_FIXED unmapped.
Mapped(st, a, n, m, o) ==
  [Filled(st, Within(a, a + n), Own) EXCEPT
     !.areas = @ \cup {[start |-> a, end |-> a + n, backing |-> m, offset |-> o]},
     !.pte = [p \in UserPages |-> IF m # Anonymous /\ p \in Within(a, a + n)
                                  THEN memfds[m].pages[o + p - a + 1] ELSE @[p]],
     !.memfds = retain_maps(@, {[backing |-> m]})]

mmap(s, n, m, o, fixed) ==
  /\ m # Anonymous => m \in memfdFds[s] /\ o < Len(memfds[m].pages)
  /\ \E a \in IF fixed THEN Targets(n) ELSE FirstFree(s, n) :
       LET st == IF fixed THEN Emptied(Current(s), a, a + n) ELSE Current(s)
       IN \/ /\ m # Anonymous => o + n <= Len(memfds[m].pages)
             /\ Becomes(s, Mapped(st, a, n, m, o))
          \/ fixed /\ Becomes(s, st)                      \* out of frames

munmap(s, a, n) == Becomes(s, Emptied(Current(s), a, a + n))

\* mremap within the place of the area.
RemapsInPlace(s, x, n) ==
  LET old == x.end - x.start
      resized == (mm[s].areas \ {x}) \cup {[x EXCEPT !.end = x.start + n]}
  IN \/ /\ n < old
        /\ Becomes(s, [Filled(Current(s), Within(x.start + n, x.end), Nothing)
                         EXCEPT !.areas = resized])
     \/ /\ n > old /\ x.start + n <= LastPage + 1
        /\ IsFreeAt(s, x.end, n - old)
        /\ Becomes(s, [Filled(Current(s), Within(x.end, x.start + n), Own)
                         EXCEPT !.areas = resized])

\* Moving: pages of its own at the new place, a copy, the old area unmapped,
\* and a new area with the old backing, unless there is no memory for it.
RemapMoves(s, x, n, fixed) ==
  /\ n > x.end - x.start
  /\ RemapsShared \/ x.backing = Anonymous
  /\ \E a \in IF fixed THEN Targets(n) ELSE FirstFree(s, n) :
       LET cleared == IF fixed THEN vm_unmap_area_range(Current(s), a, a + n) ELSE Current(s)
           there == Filled(cleared, Within(a, a + n), Own)
           moved == vm_unmap_area_range(there, x.start, x.end)
           area == [x EXCEPT !.start = a, !.end = a + n]
       IN \/ Becomes(s, [moved EXCEPT !.areas = @ \cup {area}])
          \/ Becomes(s, moved)
          \/ fixed /\ Becomes(s, cleared)

mremap(s, n, fixed) ==
  \E x \in mm[s].areas : (~fixed /\ RemapsInPlace(s, x, n)) \/ RemapMoves(s, x, n, fixed)

\* brk: the pages from the first one missing, if none after it is there.
user_brk(s, top) ==
  LET old == mm[s].brk
      missing == {p \in old + 1 .. top : mm[s].pte[p] = Nothing}
      fresh == {p \in old + 1 .. top : \E q \in missing : q <= p}
  IN /\ top # old /\ fresh = missing
     /\ mm' = [mm EXCEPT ![s].brk = top,
                 ![s].pte = Filled(Filled(Current(s), fresh, Own), top + 1 .. old, Nothing).pte]
     /\ UNCHANGED <<memfds, memfdFds, alive>>
-----------------------------------------------------------------------------
(* Processes. *)

\* Descriptors and areas are retained one by one; borrowed frames are shared.
fork_space(s, child) ==
  LET refs(m) == IF m \in memfdFds[s] THEN 1 ELSE 0 IN
  /\ child \notin alive
  /\ alive' = alive \cup {child}
  /\ mm' = [mm EXCEPT ![child] = mm[s]] /\ AreaCount' <= MaxAreas
  /\ memfdFds' = [memfdFds EXCEPT ![child] = memfdFds[s]]
  /\ memfds' = LET held == retain_maps(memfds, mm[s].areas)
               IN [m \in Memfds |-> [held[m] EXCEPT !.refs = @ + refs(m)]]

\* task_release_mm and the descriptor table.
exit_space(s) ==
  LET unmapped == drop_backings(memfds, mm[s].areas)
  IN /\ alive' = alive \ {s}
     /\ mm' = [mm EXCEPT ![s] = NoSpace]
     /\ memfdFds' = [memfdFds EXCEPT ![s] = {}]
     /\ memfds' = [m \in Memfds |-> IF m \in memfdFds[s] /\ unmapped[m].used
                     THEN memfd_maybe_reset([unmapped[m] EXCEPT !.refs = @ - 1])
                     ELSE unmapped[m]]

AreasNext ==
  \E s \in alive :
    \/ memfd_create(s)
    \/ \E m \in Memfds : memfd_close(s, m) \/ \E n \in 0 .. MemfdPages : memfd_truncate(s, m, n)
    \/ \E n \in 1 .. LastPage - HeapPages :
         \/ s \in Mappers /\ \E m \in Memfds \cup {Anonymous}, o \in 0 .. MemfdPages - 1 :
              (m = Anonymous => o = 0) /\ \E fixed \in BOOLEAN : mmap(s, n, m, o, fixed)
         \/ \E a \in Targets(n) : munmap(s, a, n)
         \/ s \in Mappers /\ \E fixed \in BOOLEAN : mremap(s, n, fixed)
    \/ s \in Mappers /\ \E top \in 0 .. HeapPages : user_brk(s, top)
    \/ \E child \in Spaces : fork_space(s, child)
    \/ Cardinality(alive) > 1 /\ exit_space(s)

AreasSpec == AreasInit /\ [][AreasNext]_areaVars
-----------------------------------------------------------------------------
(* Properties. *)

AreasTypeOK ==
  /\ alive \subseteq Spaces
  /\ \A s \in Spaces : /\ memfdFds[s] \subseteq Memfds
                       /\ mm[s].pte \in [UserPages -> 0 .. Own]
                       /\ mm[s].brk \in 0 .. HeapPages
  /\ \A m \in Memfds : memfds[m].pages \in Seq(1 .. FrameCount)

\* A memfd lives exactly as long as descriptors or areas name it: its two
\* counts are the descriptors and the areas of all processes.
MemfdCountsExact ==
  \A m \in Memfds :
    LET fds == {s \in Spaces : m \in memfdFds[s]}
        areas == UNION {{<<s, x>> : x \in {y \in mm[s].areas : y.backing = m}} : s \in Spaces}
    IN /\ memfds[m].refs = Cardinality(fds) /\ memfds[m].map_refs = Cardinality(areas)
       /\ memfds[m].used <=> fds # {} \/ areas # {}

\* A frame borrowed from a memfd is mapped only inside an area of that memfd,
\* at the offset the area says, however the area was cut: no process reads a
\* frame that was given back.
BorrowedPagesAreShared ==
  \A s \in Spaces, p \in UserPages :
    mm[s].pte[p] \in 1 .. FrameCount =>
      \E x \in mm[s].areas :
        /\ p \in Within(x.start, x.end) /\ x.backing # Anonymous
        /\ x.offset + p - x.start + 1 \in DOMAIN memfds[x.backing].pages
        /\ memfds[x.backing].pages[x.offset + p - x.start + 1] = mm[s].pte[p]

\* Areas of a space do not overlap, and none is in the heap.
AreasDisjoint ==
  \A s \in Spaces : \A x \in mm[s].areas :
    /\ x.start < x.end /\ (MapsIntoHeap \/ x.start > HeapPages)
    /\ \A y \in mm[s].areas : x # y => x.end <= y.start \/ y.end <= x.start

AreasSafe == AreasTypeOK /\ MemfdCountsExact /\ BorrowedPagesAreShared /\ AreasDisjoint

\* brk rejects growth over a mapping that is not the heap's (syscall.c:2046).
GrowthRejectsForeign ==
  [][\A s \in Spaces : \A x \in mm[s].areas :
       Within(x.start, x.end) \cap (mm[s].brk + 1 .. mm'[s].brk) = {}]_areaVars
=============================================================================
