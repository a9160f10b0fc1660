--------------------------------- MODULE Vmm ---------------------------------
(***************************************************************************)
(* User pages: the page reference counts of src/core/pmm.c, the leaf page  *)
(* table entries of src/core/vmm.c with their ownership and copy-on-write  *)
(* bits, the TLB of the one CPU, and the system calls and faults that      *)
(* change them.  Every operation acts on the address space in CR3.         *)
(* Frames of page tables are left out: their allocation is a failure that  *)
(* can happen at any time.                                                 *)
(***************************************************************************)
EXTENDS Naturals, FiniteSets

CONSTANTS
    Spaces,      \* the address spaces (PML4 tables)
    Boot,        \* the one that exists from the start and is never destroyed
    NPages,      \* pages of the user half
    NFrames,     \* frames for user pages
    MaxRefs,     \* UINT16_MAX, where pmm_retain_page stops
    Values, Zero,\* contents of a page
    Protections, \* protections programs ask for: "rw", "r", "none"
    Ops          \* optional behaviours, see Behaviours

\* madvise, the start of a new image, stores of the kernel to user buffers, a
\* tick inside mprotect, and other threads of the task that is interrupted.
Behaviours == {"advise", "exec", "kernelwrite", "preempt", "threads"}

Pages  == 0 .. NPages - 1
Frames == 1 .. NFrames
NoFrame == 0                  \* physical address 0
MemfdFrame == 1               \* the page of a memfd that stays open

ASSUME VmmAssumption ==
    /\ Boot \in Spaces /\ IsFiniteSet(Spaces)
    /\ NPages \in Nat \ {0} /\ NFrames \in Nat \ {0} /\ MaxRefs \in Nat \ {0}
    /\ Zero \in Values
    /\ Protections \subseteq {"rw", "r", "none"}
    /\ Ops \subseteq Behaviours

VARIABLES
    alive,     \* the address spaces that exist
    pte,       \* pte[s][p], the leaf entry
    refs,      \* g_page_refs; a clear bit of g_bitmap is refs = 0
    content,   \* what each frame holds
    cr3,       \* g_pml4_phys
    tlb,       \* tlb[p], the entry the CPU has cached for page p, if any
    split      \* a vmm_resolve_cow interrupted before it writes the entry

vars == <<alive, pte, refs, content, cr3, tlb, split>>

\* VMM_OWNED, VMM_U, VMM_W, VMM_COW and VMM_COW_W; VMM_P is frame # NoFrame.
Pte == [frame : 0 .. NFrames, owned : BOOLEAN, u : BOOLEAN, w : BOOLEAN,
        cow : BOOLEAN, cowW : BOOLEAN]
NoPte == [frame |-> NoFrame, owned |-> FALSE, u |-> FALSE, w |-> FALSE,
          cow |-> FALSE, cowW |-> FALSE]
NoSplit == [space |-> Boot, page |-> 0, old |-> NoPte, refs |-> 0]

Mapped(e) == e.frame # NoFrame
Here(p) == pte[cr3][p]
NoTlb == [p \in Pages |-> NoPte]
Invlpg(p) == [tlb EXCEPT ![p] = NoPte]

Init ==
    /\ alive = {Boot} /\ cr3 = Boot
    /\ pte = [s \in Spaces |-> [p \in Pages |-> NoPte]]
    /\ refs = [f \in Frames |-> IF f = MemfdFrame THEN 1 ELSE 0]
    /\ content = [f \in Frames |-> Zero]
    /\ tlb = NoTlb
    /\ split = NoSplit

-----------------------------------------------------------------------------
(* The frame allocator.                                                    *)

\* bitmap_find_first.
FirstFree(f, r) == f \in Frames /\ r[f] = 0 /\ \A g \in Frames : g < f => r[g] # 0

\* pmm_free_page of the frame an entry owns.
Freed(e, r) ==
    IF Mapped(e) /\ e.owned /\ r[e.frame] > 0 THEN [r EXCEPT ![e.frame] = @ - 1] ELSE r

-----------------------------------------------------------------------------
(* mmap, munmap, mprotect and madvise.                                     *)

\* vm_protection_flags: PROT_NONE takes the user bit away.
Permit(e, prot) == [e EXCEPT !.u = prot # "none", !.w = prot = "rw",
                             !.cowW = @ /\ prot = "rw"]
Fresh(f) == [NoPte EXCEPT !.frame = f, !.owned = TRUE]
Borrowed == [NoPte EXCEPT !.frame = MemfdFrame]

\* MAP_ANONYMOUS, over whatever MAP_FIXED finds there: the page is released,
\* a frame is allocated, mapped and zeroed, and the protection is set.
Map(p, prot, f) ==
    LET released == Freed(Here(p), refs)
    IN  /\ FirstFree(f, released)
        /\ refs' = [released EXCEPT ![f] = 1]
        /\ content' = [content EXCEPT ![f] = Zero]
        /\ pte' = [pte EXCEPT ![cr3][p] = Permit(Fresh(f), prot)]
        /\ tlb' = Invlpg(p)
        /\ UNCHANGED <<alive, cr3, split>>

\* MAP_SHARED of the memfd: the entry borrows the memfd's frame.
MapShared(p, prot) ==
    /\ refs' = Freed(Here(p), refs)
    /\ pte' = [pte EXCEPT ![cr3][p] = Permit(Borrowed, prot)]
    /\ tlb' = Invlpg(p)
    /\ UNCHANGED <<alive, content, cr3, split>>

\* munmap, and MAP_FIXED when no frame is left.
Unmap(p) ==
    /\ Mapped(Here(p))
    /\ refs' = Freed(Here(p), refs)
    /\ pte' = [pte EXCEPT ![cr3][p] = NoPte]
    /\ tlb' = Invlpg(p)
    /\ UNCHANGED <<alive, content, cr3, split>>

\* vmm_resolve_cow: the entry must be a user's copy-on-write page and, unless
\* the kernel forces it, one that was writable before the fork.  A frame that
\* has one reference left is kept, otherwise it is copied to frame f.
Resolvable(e, force) == Mapped(e) /\ e.u /\ e.owned /\ e.cow /\ (force \/ e.cowW)
CopyTo(e, force, n, f) ==
    IF Resolvable(e, force) /\ n # 1 THEN n > 1 /\ FirstFree(f, refs) ELSE f = NoFrame
Resolved(e, force, f) ==
    IF Resolvable(e, force)
    THEN [e EXCEPT !.frame = IF f = NoFrame THEN @ ELSE f,
                   !.cow = FALSE, !.cowW = FALSE, !.w = TRUE]
    ELSE e
RefsKeepOld(e, f) ==           \* mutant: pmm_free_page(old_phys) is missing
    IF f = NoFrame THEN refs ELSE [refs EXCEPT ![f] = 1]
RefsAfterCopy(e, f) ==
    IF f = NoFrame THEN refs ELSE Freed(e, [refs EXCEPT ![f] = 1])
ContentAfterCopy(e, f) ==
    IF f = NoFrame THEN content ELSE [content EXCEPT ![f] = content[e.frame]]

\* mprotect of one page: granting PROT_WRITE makes a copy-on-write page private.
Protect(p, prot, f) ==
    LET e == Here(p)
    IN  /\ Mapped(e)
        /\ IF prot = "rw" /\ e.cow
           THEN /\ CopyTo(e, TRUE, refs[e.frame], f)
                /\ pte' = [pte EXCEPT ![cr3][p] = Permit(Resolved(e, TRUE, f), prot)]
           ELSE /\ f = NoFrame
                /\ pte' = [pte EXCEPT ![cr3][p] = Permit(e, prot)]
        /\ refs' = RefsAfterCopy(e, f)
        /\ content' = ContentAfterCopy(e, f)
        /\ tlb' = Invlpg(p)
        /\ UNCHANGED <<alive, cr3, split>>

\* MADV_DONTNEED of one page, the zeroing goes to the physical frame.
Advise(p, f) ==
    LET e == Here(p)
        new == Resolved(e, TRUE, f)
    IN  /\ "advise" \in Ops /\ Mapped(e) /\ e.owned
        /\ CopyTo(e, TRUE, refs[e.frame], f)
        /\ pte' = [pte EXCEPT ![cr3][p] = new]
        /\ refs' = RefsAfterCopy(e, f)
        /\ content' = [content EXCEPT ![new.frame] = Zero]
        /\ tlb' = IF Resolvable(e, TRUE) THEN Invlpg(p) ELSE tlb
        /\ UNCHANGED <<alive, cr3, split>>

-----------------------------------------------------------------------------
(* Loads, stores and page faults.                                          *)

\* A load fills the TLB.
Load(p) ==
    /\ ~ Mapped(tlb[p]) /\ Mapped(Here(p)) /\ Here(p).u
    /\ tlb' = [tlb EXCEPT ![p] = Here(p)]
    /\ UNCHANGED <<alive, pte, refs, content, cr3, split>>

\* A store uses a cached writable translation without looking at the entry.
Store(p, v) ==
    /\ IF Mapped(tlb[p]) /\ tlb[p].w
       THEN content' = [content EXCEPT ![tlb[p].frame] = v] /\ UNCHANGED tlb
       ELSE /\ Mapped(Here(p)) /\ Here(p).u /\ Here(p).w
            /\ content' = [content EXCEPT ![Here(p).frame] = v]
            /\ tlb' = [tlb EXCEPT ![p] = Here(p)]
    /\ UNCHANGED <<alive, pte, refs, cr3, split>>

\* The write fault of a user store, resolved in isr_handler with interrupts
\* off.  Any other fault, or one that finds no frame, ends the task.
Fault(p, f) ==
    /\ ~ tlb[p].w /\ ~ Here(p).w /\ Resolvable(Here(p), FALSE)
    /\ CopyTo(Here(p), FALSE, refs[Here(p).frame], f)
    /\ pte' = [pte EXCEPT ![cr3][p] = Resolved(Here(p), FALSE, f)]
    /\ refs' = RefsAfterCopy(Here(p), f)
    /\ content' = ContentAfterCopy(Here(p), f)
    /\ tlb' = Invlpg(p)
    /\ UNCHANGED <<alive, cr3, split>>

\* A system call stores to a user buffer (read and its kind) in kernel mode.
\* boot.asm never sets CR0.WP, so the write bit does not stop it.
KernelWrite(p, v) ==
    /\ "kernelwrite" \in Ops /\ Mapped(Here(p)) /\ Here(p).u
    /\ content' = [content EXCEPT ![Here(p).frame] = v]
    /\ UNCHANGED <<alive, pte, refs, cr3, tlb, split>>

-----------------------------------------------------------------------------
(* Address spaces.                                                         *)

UserOwned(e) == Mapped(e) /\ e.owned /\ e.u
SharedWritable(e) ==           \* mutant: the parent's entry keeps its write bit
    IF UserOwned(e) THEN [e EXCEPT !.cow = TRUE] ELSE e
Shared(e) ==
    IF UserOwned(e)
    THEN [e EXCEPT !.cow = TRUE, !.w = FALSE, !.cowW = @ \/ e.w]
    ELSE e

\* Owned pages the user cannot reach are copied at once, to frames given by g.
Eager(s) == {p \in Pages : Mapped(pte[s][p]) /\ pte[s][p].owned /\ ~ pte[s][p].u}
PagesOf(s, f) == {p \in Pages : UserOwned(pte[s][p]) /\ pte[s][p].frame = f}

RetainableAlways(e) == UserOwned(e) => TRUE   \* mutant: the UINT16_MAX test is missing
Retainable(e) == UserOwned(e) => refs[e.frame] < MaxRefs
FlushNothing == UNCHANGED tlb  \* mutant: the TLB is not flushed
Flush == tlb' = NoTlb

\* vmm_clone_address_space, of the caller's own address space.
Fork(c, g) ==
    /\ c \in Spaces \ alive /\ alive' = alive \cup {c}
    /\ g \in [Eager(cr3) -> {f \in Frames : refs[f] = 0}]
    /\ \A p, q \in Eager(cr3) : g[p] = g[q] => p = q
    /\ \A p \in Pages : Retainable(Here(p))
    /\ pte' = [pte EXCEPT
                 ![cr3] = [p \in Pages |-> Shared(Here(p))],
                 ![c] = [p \in Pages |->
                           IF p \in Eager(cr3) THEN [Here(p) EXCEPT !.frame = g[p]]
                           ELSE Shared(Here(p))]]
    /\ refs' = [f \in Frames |-> IF \E p \in Eager(cr3) : g[p] = f THEN 1
                                 ELSE refs[f] + Cardinality(PagesOf(cr3, f))]
    /\ content' = [f \in Frames |-> IF \E p \in Eager(cr3) : g[p] = f
                                    THEN content[Here(CHOOSE p \in Eager(cr3) : g[p] = f).frame]
                                    ELSE content[f]]
    /\ Flush
    /\ UNCHANGED <<cr3, split>>

\* clone_table fails at page k, for want of a frame or at MaxRefs references:
\* what it retained is freed again, but the entries of the source below k keep
\* their copy-on-write marks, and the TLB is not flushed.
ForkFails(k) ==
    /\ pte' = [pte EXCEPT ![cr3] = [p \in Pages |-> IF p < k THEN Shared(Here(p)) ELSE Here(p)]]
    /\ UNCHANGED <<alive, refs, content, cr3, tlb, split>>

\* vmm_create_address_space for a new image, a copy of the current one without
\* its user pages.
Create(c) ==
    /\ "exec" \in Ops /\ c \in Spaces \ alive /\ alive' = alive \cup {c}
    /\ pte' = [pte EXCEPT ![c] = [p \in Pages |-> IF Here(p).u THEN NoPte ELSE Here(p)]]
    /\ UNCHANGED <<refs, content, cr3, tlb, split>>

\* vmm_destroy_address_space, which refuses the one in CR3; its tasks are dead.
OwnedPagesOf(s, f) ==
    {p \in Pages : Mapped(pte[s][p]) /\ pte[s][p].owned /\ pte[s][p].frame = f}
Destroy(s) ==
    /\ s \in alive \ {cr3, Boot} /\ alive' = alive \ {s}
    /\ pte' = [pte EXCEPT ![s] = [p \in Pages |-> NoPte]]
    /\ refs' = [f \in Frames |->
                  LET n == Cardinality(OwnedPagesOf(s, f))
                  IN  IF n < refs[f] THEN refs[f] - n ELSE 0]
    /\ split' = IF split.space = s THEN NoSplit ELSE split
    /\ UNCHANGED <<content, cr3, tlb>>

\* vmm_set_pml4, at a task switch.
Switch(s) ==
    /\ s \in alive \ {cr3}
    /\ cr3' = s /\ tlb' = NoTlb
    /\ UNCHANGED <<alive, pte, refs, content, split>>

-----------------------------------------------------------------------------
(* An mprotect(PROT_WRITE) on the int 0x80 path, which keeps interrupts on: *)
(* a tick lands between the reads of vmm_resolve_cow and its writes, which  *)
(* go by what was read.                                                     *)

ResolveRead(p) ==
    /\ "preempt" \in Ops /\ split = NoSplit
    /\ Resolvable(Here(p), TRUE) /\ refs[Here(p).frame] > 0
    /\ split' = [space |-> cr3, page |-> p, old |-> Here(p), refs |-> refs[Here(p).frame]]
    /\ UNCHANGED <<alive, pte, refs, content, cr3, tlb>>

Resuming == split # NoSplit /\ split.space = cr3
ResolveWrite(f) ==
    /\ Resuming /\ CopyTo(split.old, TRUE, split.refs, f)
    /\ pte' = [pte EXCEPT ![cr3][split.page] = Permit(Resolved(split.old, TRUE, f), "rw")]
    /\ refs' = RefsAfterCopy(split.old, f)
    /\ content' = ContentAfterCopy(split.old, f)
    /\ tlb' = Invlpg(split.page)
    /\ split' = NoSplit
    /\ UNCHANGED <<alive, cr3>>

\* No frame for the copy: mprotect returns -ENOMEM.
ResolveFails ==
    /\ Resuming /\ split.refs > 1 /\ \A f \in Frames : refs[f] # 0
    /\ split' = NoSplit
    /\ UNCHANGED <<alive, pte, refs, content, cr3, tlb>>

-----------------------------------------------------------------------------
\* The task in CR3 does what it likes, unless it is in the middle of mprotect
\* and no other thread of it can run.
Running == ~ Resuming \/ "threads" \in Ops

PageStep ==
    \E p \in Pages :
        \/ Unmap(p) \/ Load(p) \/ ResolveRead(p)
        \/ \E prot \in Protections : MapShared(p, prot)
        \/ \E prot \in Protections, f \in Frames : Map(p, prot, f)
        \/ \E prot \in Protections, f \in 0 .. NFrames : Protect(p, prot, f)
        \/ \E f \in 0 .. NFrames : Advise(p, f) \/ Fault(p, f)
        \/ \E v \in Values : Store(p, v) \/ KernelWrite(p, v)

CloneStep ==
    \/ \E c \in Spaces : Create(c)
    \/ \E c \in Spaces : \E g \in [Eager(cr3) -> Frames] : Fork(c, g)
    \/ \E k \in 0 .. NPages : ForkFails(k)

Next ==
    \/ Running /\ (PageStep \/ CloneStep)
    \/ \E s \in Spaces : Destroy(s) \/ Switch(s)
    \/ \E f \in 0 .. NFrames : ResolveWrite(f)
    \/ ResolveFails

Spec == Init /\ [][Next]_vars

-----------------------------------------------------------------------------
(* Properties.                                                             *)

TypeOK ==
    /\ alive \subseteq Spaces /\ cr3 \in alive
    /\ pte \in [Spaces -> [Pages -> Pte]]
    /\ refs \in [Frames -> 0 .. MaxRefs]
    /\ content \in [Frames -> Values]
    /\ tlb \in [Pages -> Pte]
    /\ split \in [space : Spaces, page : Pages, old : Pte, refs : 0 .. MaxRefs]

Owns(s, p, f) == Mapped(pte[s][p]) /\ pte[s][p].owned /\ pte[s][p].frame = f
Owners(f) == {sp \in Spaces \X Pages : Owns(sp[1], sp[2], f)}

\* A frame's reference count is the number of entries that own it, and one
\* more for the memfd's own: no frame is freed early, none is lost (pmm.c).
RefsMatchOwners ==
    \A f \in Frames :
        refs[f] = Cardinality(Owners(f)) + IF f = MemfdFrame THEN 1 ELSE 0

\* And no count passes its bound (UINT16_MAX) or wraps below zero.
RefsSafe == TypeOK /\ RefsMatchOwners

\* An owned page that can be written without a fault has its frame to itself.
Alone(s, p) ==
    \A t \in Spaces, q \in Pages :
        Owns(t, q, pte[s][p].frame) => t = s /\ q = p
WritableIsExclusive ==
    \A s \in Spaces, p \in Pages :
        Mapped(pte[s][p]) /\ pte[s][p].owned /\ pte[s][p].w => Alone(s, p)

\* Why they hold, as an inductive invariant: what is not marked copy-on-write
\* is exclusive, a frame is shared at one page of several spaces only, marked
\* pages are not writable, owned pages are the user's and never the memfd's,
\* and what the TLB lets through agrees with the entry.
PteShape(e) ==
    /\ Mapped(e) <=> e.u
    /\ e.owned => Mapped(e) /\ e.frame # MemfdFrame
    /\ Mapped(e) /\ ~ e.owned => e.frame = MemfdFrame /\ ~ e.cow
    /\ e.cow => e.owned /\ ~ e.w
    /\ e.w => Mapped(e)
MarkedOrAlone ==
    \A s \in Spaces, p \in Pages :
        pte[s][p].owned /\ ~ pte[s][p].cow => Alone(s, p)
TlbAgrees ==
    \A p \in Pages :
        Mapped(tlb[p]) =>
            /\ tlb[p].frame = Here(p).frame /\ tlb[p].owned = Here(p).owned
            /\ tlb[p].owned /\ tlb[p].w => Alone(cr3, p)
SamePage ==
    \A s, t \in Spaces, p, q \in Pages :
        pte[s][p].owned /\ Owns(t, q, pte[s][p].frame) => p = q
DeadAreEmpty == \A s \in Spaces \ alive : pte[s] = [p \in Pages |-> NoPte]
SplitAgrees ==
    split # NoSplit =>
        /\ split.space \in alive /\ pte[split.space][split.page] = split.old
        /\ Resolvable(split.old, TRUE) /\ split.refs > 0
        /\ split.refs = 1 => Alone(split.space, split.page)
VmmInv ==
    /\ RefsMatchOwners
    /\ \A s \in Spaces, p \in Pages : PteShape(pte[s][p])
    /\ MarkedOrAlone /\ SamePage /\ TlbAgrees /\ DeadAreEmpty /\ SplitAgrees

\* What programs see: the entry the CPU uses, the cached one where there is one.
Seen(s, p) == IF s = cr3 /\ Mapped(tlb[p]) THEN tlb[p] ELSE pte[s][p]
ViewOf(e) ==
    IF ~ Mapped(e) THEN [kind |-> "none", value |-> Zero]
    ELSE IF e.owned THEN [kind |-> "private", value |-> content[e.frame]]
    ELSE [kind |-> "shared", value |-> Zero]
memView == [s \in Spaces |-> [p \in Pages |-> ViewOf(Seen(s, p))]]

\* Copy-on-write, eager copies, reference counts and the TLB together give
\* every program the private memory it was promised (vmm.c, pmm.c).
Memory == INSTANCE PrivateMemory WITH mem <- memView, object <- content[MemfdFrame]
MemoryIsPrivate == Memory!Spec
=============================================================================
