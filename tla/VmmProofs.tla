------------------------------ MODULE VmmProofs ------------------------------
(***************************************************************************)
(* What is proved of Vmm for any number of address spaces, pages, frames   *)
(* and references, when programs do not ask for PROT_NONE and a task that  *)
(* is interrupted in mprotect has no other thread.                         *)
(***************************************************************************)
EXTENDS Vmm, FiniteSetTheorems, TLAPS

Owning(e, f) == Mapped(e) /\ e.owned /\ e.frame = f
Held(e, f) == IF Owning(e, f) THEN 1 ELSE 0     \* references an entry holds

\* Owners of a frame in a table t of leaf entries.
OwnersIn(t, f) == {sp \in Spaces \X Pages : Owning(t[sp[1]][sp[2]], f)}

LEMMA BoundFacts ==
    /\ IsFiniteSet(Spaces \X Pages) /\ Boot \in Spaces
    /\ MemfdFrame \in Frames /\ NoFrame \notin Frames
    /\ Frames \subseteq 0 .. NFrames /\ NoFrame \in 0 .. NFrames
    /\ \A f \in 0 .. NFrames : f # NoFrame => f \in Frames
    /\ 0 \in Pages
<1>1. IsFiniteSet(Pages)  BY VmmAssumption, FS_Interval DEF Pages
<1>2. IsFiniteSet(Spaces \X Pages)  BY <1>1, VmmAssumption, FS_Product
<1> QED  BY <1>2, VmmAssumption DEF Frames, MemfdFrame, NoFrame, Pages

LEMMA OwnersCount ==
    ASSUME NEW t, NEW f
    PROVE  IsFiniteSet(OwnersIn(t, f)) /\ Cardinality(OwnersIn(t, f)) \in Nat
<1>1. OwnersIn(t, f) \in SUBSET (Spaces \X Pages)  BY DEF OwnersIn
<1>2. IsFiniteSet(OwnersIn(t, f))  BY <1>1, BoundFacts, FS_Subset
<1> QED  BY <1>2, FS_CardinalityType

LEMMA OwnersAre ==
    \A f : Owners(f) = OwnersIn(pte, f) /\ Owners(f)' = OwnersIn(pte', f)
BY DEF Owners, Owns, OwnersIn, Owning, Mapped, NoFrame

\* Writing one entry moves at most one reference.
LEMMA EntryReplaced ==
    ASSUME NEW t \in [Spaces -> [Pages -> Pte]], NEW s \in Spaces, NEW p \in Pages,
           NEW e \in Pte, NEW f
    PROVE  Cardinality(OwnersIn([t EXCEPT ![s][p] = e], f)) =
               Cardinality(OwnersIn(t, f)) - Held(t[s][p], f) + Held(e, f)
<1> DEFINE u == [t EXCEPT ![s][p] = e]
<1>0. IsFiniteSet(OwnersIn(t, f)) /\ Cardinality(OwnersIn(t, f)) \in Nat
  BY OwnersCount
<1>1. \A a \in Spaces, b \in Pages :
          u[a][b] = IF a = s /\ b = p THEN e ELSE t[a][b]
  OBVIOUS
<1>2. <<s, p>> \in OwnersIn(t, f) <=> Owning(t[s][p], f)  BY DEF OwnersIn
<1> SUFFICES Cardinality(OwnersIn(u, f)) =
                 Cardinality(OwnersIn(t, f)) - Held(t[s][p], f) + Held(e, f)
  OBVIOUS
<1> HIDE DEF u
<1>3. CASE Owning(t[s][p], f) /\ ~ Owning(e, f)
  <2>1. OwnersIn(u, f) = OwnersIn(t, f) \ {<<s, p>>}  BY <1>1, <1>3 DEF OwnersIn
  <2>2. Cardinality(OwnersIn(t, f) \ {<<s, p>>}) = Cardinality(OwnersIn(t, f)) - 1
    BY <1>0, <1>2, <1>3, FS_RemoveElement
  <2>3. Held(t[s][p], f) = 1 /\ Held(e, f) = 0  BY <1>3 DEF Held
  <2> QED  BY <1>0, <2>1, <2>2, <2>3
<1>4. CASE ~ Owning(t[s][p], f) /\ Owning(e, f)
  <2>1. OwnersIn(u, f) = OwnersIn(t, f) \cup {<<s, p>>}  BY <1>1, <1>4 DEF OwnersIn
  <2>2. Cardinality(OwnersIn(t, f) \cup {<<s, p>>}) = Cardinality(OwnersIn(t, f)) + 1
    BY <1>0, <1>2, <1>4, FS_AddElement
  <2>3. Held(t[s][p], f) = 0 /\ Held(e, f) = 1  BY <1>4 DEF Held
  <2> QED  BY <1>0, <2>1, <2>2, <2>3
<1>5. CASE Owning(t[s][p], f) <=> Owning(e, f)
  <2>1. OwnersIn(u, f) = OwnersIn(t, f)  BY <1>1, <1>5 DEF OwnersIn
  <2>2. Held(t[s][p], f) = Held(e, f) /\ Held(e, f) \in {0, 1}  BY <1>5 DEF Held
  <2> QED  BY <1>0, <2>1, <2>2
<1> QED  BY <1>3, <1>4, <1>5

\* What exact counts say: an owned frame is counted, the memfd's is too, and
\* a frame with one reference has one owner.
LEMMA CountFacts ==
    ASSUME RefsMatchOwners
    PROVE  /\ \A f \in Frames : refs[f] \in Nat
           /\ refs[MemfdFrame] >= 1
           /\ \A s \in Spaces, p \in Pages, f \in Frames : Owns(s, p, f) => refs[f] >= 1
           /\ \A s, t \in Spaces, p, q \in Pages, f \in Frames \ {MemfdFrame} :
                  refs[f] = 1 /\ Owns(s, p, f) /\ Owns(t, q, f) => t = s /\ q = p
<1>1. \A f \in Frames :
          /\ IsFiniteSet(Owners(f)) /\ Cardinality(Owners(f)) \in Nat
          /\ refs[f] = Cardinality(Owners(f)) + IF f = MemfdFrame THEN 1 ELSE 0
  BY OwnersCount, OwnersAre DEF RefsMatchOwners
<1>2. ASSUME NEW s \in Spaces, NEW p \in Pages, NEW f \in Frames, Owns(s, p, f)
      PROVE  Cardinality(Owners(f)) >= 1 /\ <<s, p>> \in Owners(f)
  <2>1. <<s, p>> \in Owners(f)  BY <1>2 DEF Owners
  <2>2. Cardinality(Owners(f)) # 0  BY <1>1, <2>1, FS_EmptySet
  <2> QED  BY <1>1, <2>1, <2>2
<1>3. ASSUME NEW s \in Spaces, NEW t \in Spaces, NEW p \in Pages, NEW q \in Pages,
             NEW f \in Frames \ {MemfdFrame}, refs[f] = 1, Owns(s, p, f), Owns(t, q, f)
      PROVE  t = s /\ q = p
  <2>1. Cardinality(Owners(f)) = 1  BY <1>1, <1>3
  <2>2. PICK x : Owners(f) = {x}  BY <1>1, <2>1, FS_Singleton
  <2>3. <<s, p>> = x /\ <<t, q>> = x  BY <1>2, <1>3, <2>2
  <2> QED  BY <2>3
<1>4. \A f \in Frames : refs[f] \in Nat  BY <1>1
<1>5. refs[MemfdFrame] >= 1  BY <1>1, BoundFacts
<1>6. \A s \in Spaces, p \in Pages, f \in Frames : Owns(s, p, f) => refs[f] >= 1
  <2> TAKE s \in Spaces, p \in Pages, f \in Frames
  <2> HAVE Owns(s, p, f)
  <2>1. Cardinality(Owners(f)) >= 1 /\ Cardinality(Owners(f)) \in Nat  BY <1>1, <1>2
  <2> QED  BY <1>1, <2>1
<1>7. \A s, t \in Spaces, p, q \in Pages, f \in Frames \ {MemfdFrame} :
          refs[f] = 1 /\ Owns(s, p, f) /\ Owns(t, q, f) => t = s /\ q = p
  BY <1>3
<1> QED  BY <1>4, <1>5, <1>6, <1>7

\* The operations on an entry keep its type.
LEMMA EntryFacts ==
    /\ NoPte \in Pte /\ Borrowed \in Pte
    /\ \A f \in Frames : Fresh(f) \in Pte
    /\ \A e \in Pte : \A prot : Permit(e, prot) \in Pte
    /\ \A e \in Pte, force \in BOOLEAN, f \in 0 .. NFrames : Resolved(e, force, f) \in Pte
    /\ \A e \in Pte : Shared(e) \in Pte
<1>1. NoPte \in Pte /\ Borrowed \in Pte
  BY BoundFacts DEF NoPte, Borrowed, Pte
<1>2. \A f \in Frames : Fresh(f) \in Pte
  BY BoundFacts DEF NoPte, Fresh, Pte
<1>3. \A e \in Pte : \A prot : Permit(e, prot) \in Pte
  BY DEF Permit, Pte
<1>4. \A e \in Pte, force \in BOOLEAN, f \in 0 .. NFrames : Resolved(e, force, f) \in Pte
  BY DEF Resolved, Pte
<1>5. \A e \in Pte : Shared(e) \in Pte
  BY DEF Shared, Pte
<1> QED  BY <1>1, <1>2, <1>3, <1>4, <1>5

-----------------------------------------------------------------------------
(* One entry of the space in CR3 changes.                                  *)

IInv == TypeOK /\ VmmInv

\* An entry fits at page p of CR3 when nobody else owns its frame, or when it
\* stays a marked entry for the frame it had.
Fits(p, e) ==
    e.owned => \A t \in Spaces, q \in Pages :
        Owns(t, q, e.frame) /\ ~ (t = cr3 /\ q = p) => e.cow /\ Owns(cr3, p, e.frame)

\* A system call or fault on a page that leaves a fitting entry of the right
\* shape, moves its references and invalidates the TLB preserves the invariant.
LEMMA PageReplaced ==
    ASSUME IInv, NEW p \in Pages, NEW e \in Pte,
           PteShape(e), Fits(p, e),
           pte' = [pte EXCEPT ![cr3][p] = e],
           \A f \in Frames : refs'[f] = refs[f] - Held(Here(p), f) + Held(e, f),
           alive' = alive, cr3' = cr3, tlb' = Invlpg(p),
           (split' = split /\ ~ Resuming) \/ split' = NoSplit
    PROVE  VmmInv'
<1>0. /\ cr3 \in Spaces /\ cr3 \in alive /\ alive \subseteq Spaces
      /\ pte \in [Spaces -> [Pages -> Pte]] /\ tlb \in [Pages -> Pte]
      /\ RefsMatchOwners /\ MarkedOrAlone /\ SamePage /\ TlbAgrees
      /\ DeadAreEmpty /\ SplitAgrees
      /\ \A s \in Spaces, q \in Pages : PteShape(pte[s][q])
  BY DEF IInv, TypeOK, VmmInv
<1>1. /\ pte'[cr3][p] = e
      /\ \A s \in Spaces, q \in Pages : ~ (s = cr3 /\ q = p) => pte'[s][q] = pte[s][q]
  BY <1>0
<1>2. pte' \in [Spaces -> [Pages -> Pte]]
  BY <1>0
<1>3. \A s \in Spaces, q \in Pages : \A f :
          Owns(s, q, f)' <=> IF s = cr3 /\ q = p THEN Owning(e, f) ELSE Owns(s, q, f)
  BY <1>1 DEF Owns, Owning, Mapped, NoFrame
<1>4. RefsMatchOwners'
  <2> SUFFICES ASSUME NEW f \in Frames
               PROVE  refs'[f] = Cardinality(Owners(f)') + IF f = MemfdFrame THEN 1 ELSE 0
    BY DEF RefsMatchOwners
  <2>1. Cardinality(OwnersIn(pte', f)) =
            Cardinality(OwnersIn(pte, f)) - Held(Here(p), f) + Held(e, f)
    BY <1>0, EntryReplaced DEF Here
  <2>2. refs[f] = Cardinality(OwnersIn(pte, f)) + IF f = MemfdFrame THEN 1 ELSE 0
    BY <1>0, OwnersAre DEF RefsMatchOwners
  <2>3. Cardinality(OwnersIn(pte, f)) \in Nat  BY OwnersCount
  <2>4. Held(Here(p), f) \in {0, 1} /\ Held(e, f) \in {0, 1}  BY DEF Held
  <2>5. refs'[f] = refs[f] - Held(Here(p), f) + Held(e, f)  OBVIOUS
  <2>6. Owners(f)' = OwnersIn(pte', f)  BY OwnersAre
  <2>7. CASE f = MemfdFrame  BY <2>1, <2>2, <2>3, <2>4, <2>5, <2>6, <2>7
  <2>8. CASE f # MemfdFrame  BY <2>1, <2>2, <2>3, <2>4, <2>5, <2>6, <2>8
  <2> QED  BY <2>7, <2>8
<1>5. (\A s \in Spaces, q \in Pages : PteShape(pte[s][q]))'
  BY <1>0, <1>1 DEF PteShape, Mapped, NoFrame, MemfdFrame
<1>6. e.owned => Mapped(e) /\ Owning(e, e.frame)
  BY DEF PteShape, Owning
\* Pages that were alone stay alone.
<1>7. ASSUME NEW s \in Spaces, NEW q \in Pages, ~ (s = cr3 /\ q = p),
             pte[s][q].owned, Alone(s, q)
      PROVE  Alone(s, q)'
  <2>1. Owns(s, q, pte[s][q].frame) /\ pte'[s][q] = pte[s][q]
    BY <1>0, <1>1, <1>7 DEF Owns, PteShape
  <2>2. ~ Owning(e, pte[s][q].frame)
    BY <1>6, <1>7, <1>0, <2>1 DEF Fits, Alone, Owning
  <2> QED  BY <1>3, <1>7, <2>1, <2>2 DEF Alone
<1>8. MarkedOrAlone'
  <2> SUFFICES ASSUME NEW s \in Spaces, NEW q \in Pages,
                      pte'[s][q].owned, ~ pte'[s][q].cow
               PROVE  Alone(s, q)'
    BY DEF MarkedOrAlone
  <2>1. CASE s = cr3 /\ q = p
    <3>1. \A t \in Spaces, r \in Pages :
              Owns(t, r, e.frame) => t = cr3 /\ r = p
      BY <1>1, <2>1 DEF Fits
    <3> QED  BY <1>1, <1>3, <2>1, <3>1 DEF Alone
  <2>2. CASE ~ (s = cr3 /\ q = p)
    BY <1>0, <1>1, <1>7, <2>2 DEF MarkedOrAlone
  <2> QED  BY <2>1, <2>2
<1>9. SamePage'
  <2> SUFFICES ASSUME NEW s \in Spaces, NEW t \in Spaces, NEW q \in Pages, NEW r \in Pages,
                      pte'[s][q].owned, Owns(t, r, pte[s][q].frame)'
               PROVE  q = r
    BY DEF SamePage
  <2>1. CASE s = cr3 /\ q = p
    <3>1. ~ (t = cr3 /\ r = p) => Owns(t, r, e.frame)
      BY <1>1, <1>3, <2>1
    <3>2. ~ (t = cr3 /\ r = p) => Owns(cr3, p, e.frame)
      BY <1>1, <2>1, <3>1 DEF Fits
    <3> QED  BY <1>0, <2>1, <3>1, <3>2 DEF SamePage, Owns
  <2>2. CASE t = cr3 /\ r = p /\ ~ (s = cr3 /\ q = p)
    <3>1. Owns(s, q, e.frame) /\ e.owned
      BY <1>0, <1>1, <1>3, <2>2 DEF Owns, Owning, PteShape
    <3>2. Owns(cr3, p, e.frame)  BY <2>2, <3>1 DEF Fits
    <3> QED  BY <1>0, <2>2, <3>1, <3>2 DEF SamePage, Owns
  <2>3. CASE ~ (t = cr3 /\ r = p) /\ ~ (s = cr3 /\ q = p)
    BY <1>0, <1>1, <1>3, <2>3 DEF SamePage
  <2> QED  BY <2>1, <2>2, <2>3
<1>10. TlbAgrees'
  <2> SUFFICES ASSUME NEW q \in Pages, Mapped(tlb'[q])
               PROVE  /\ tlb'[q].frame = pte'[cr3][q].frame
                      /\ tlb'[q].owned = pte'[cr3][q].owned
                      /\ tlb'[q].owned /\ tlb'[q].w => Alone(cr3, q)'
    BY DEF TlbAgrees, Here, Alone, Owns
  <2>1. q # p /\ tlb'[q] = tlb[q]
    BY <1>0 DEF Invlpg, NoPte, Mapped, NoFrame
  <2>2. pte'[cr3][q] = pte[cr3][q]  BY <1>0, <1>1, <2>1
  <2>3. /\ tlb[q].frame = pte[cr3][q].frame /\ tlb[q].owned = pte[cr3][q].owned
        /\ tlb[q].owned /\ tlb[q].w => Alone(cr3, q)
    BY <1>0, <2>1 DEF TlbAgrees, Here
  <2> QED  BY <1>0, <1>7, <2>1, <2>2, <2>3
<1>11. DeadAreEmpty'
  BY <1>0, <1>1, <1>2 DEF DeadAreEmpty
<1>12. SplitAgrees'
  <2>1. CASE split' = NoSplit  BY <2>1 DEF SplitAgrees, NoSplit
  <2>2. CASE split' = split /\ ~ Resuming /\ split # NoSplit
    <3>1. /\ split.space \in alive /\ split.space # cr3
          /\ pte[split.space][split.page] = split.old
          /\ Resolvable(split.old, TRUE) /\ split.refs > 0
          /\ split.refs = 1 => Alone(split.space, split.page)
      BY <1>0, <2>2 DEF SplitAgrees, Resuming
    <3>2. split.space \in Spaces /\ split.page \in Pages
      BY <1>0, <3>1 DEF IInv, TypeOK
    <3>3. pte'[split.space][split.page] = split.old  BY <1>1, <3>1, <3>2
    <3>4. pte[split.space][split.page].owned  BY <3>1 DEF Resolvable
    <3>5. ASSUME split.refs = 1,
                 NEW t \in Spaces, NEW r \in Pages,
                 Owns(t, r, split.old.frame)'
          PROVE  t = split.space /\ r = split.page
      <4>1. \A s \in Spaces, q \in Pages :
                ~ (s = cr3 /\ q = p) /\ pte[s][q].owned /\ Alone(s, q)
                    => (\A x \in Spaces, y \in Pages :
                            Owns(x, y, pte[s][q].frame)' => x = s /\ y = q)
        BY <1>7 DEF Alone
      <4> QED  BY <2>2, <3>1, <3>2, <3>3, <3>4, <3>5, <4>1
    <3>6. split.refs = 1 => Alone(split.space, split.page)'
      BY <2>2, <3>3, <3>5 DEF Alone
    <3> QED  BY <2>2, <3>1, <3>3, <3>6 DEF SplitAgrees
  <2>3. CASE split' = split /\ split = NoSplit  BY <2>3 DEF SplitAgrees, NoSplit
  <2> QED  BY <2>1, <2>2, <2>3
<1> QED  BY <1>4, <1>5, <1>8, <1>9, <1>10, <1>11, <1>12 DEF VmmInv

-----------------------------------------------------------------------------
(* References given back and taken.                                        *)

LEMMA FreedFacts ==
    ASSUME IInv, NEW p \in Pages
    PROVE  /\ Freed(Here(p), refs) \in [Frames -> 0 .. MaxRefs]
           /\ \A f \in Frames : Freed(Here(p), refs)[f] = refs[f] - Held(Here(p), f)
           /\ \A f : FirstFree(f, Freed(Here(p), refs)) =>
                  /\ f \in Frames \ {MemfdFrame}
                  /\ \A t \in Spaces, q \in Pages : Owns(t, q, f) => t = cr3 /\ q = p
<1>0. /\ cr3 \in Spaces /\ pte \in [Spaces -> [Pages -> Pte]] /\ Here(p) \in Pte
      /\ refs \in [Frames -> 0 .. MaxRefs] /\ PteShape(Here(p))
      /\ RefsMatchOwners
  BY DEF IInv, TypeOK, VmmInv, Here
<1>1. \A f \in Frames : Owning(Here(p), f) <=> Owns(cr3, p, f)
  BY DEF Owning, Owns, Here
<1>2. Mapped(Here(p)) /\ Here(p).owned =>
          /\ Here(p).frame \in Frames \ {MemfdFrame}
          /\ refs[Here(p).frame] >= 1
  <2> SUFFICES ASSUME Mapped(Here(p)), Here(p).owned
               PROVE  /\ Here(p).frame \in Frames \ {MemfdFrame}
                      /\ refs[Here(p).frame] >= 1
    OBVIOUS
  <2>1. Here(p).frame \in Frames \ {MemfdFrame}
    BY <1>0, BoundFacts DEF Pte, PteShape, Mapped
  <2>2. Owns(cr3, p, Here(p).frame)  BY DEF Owns, Here
  <2> QED  BY <1>0, <2>1, <2>2, CountFacts
<1>3. \A f \in Frames : refs[f] \in 0 .. MaxRefs  BY <1>0
<1>m. MaxRefs \in Nat  BY VmmAssumption
<1>4. CASE Mapped(Here(p)) /\ Here(p).owned
  <2>1. Freed(Here(p), refs) = [refs EXCEPT ![Here(p).frame] = @ - 1]
    BY <1>2, <1>3, <1>4, <1>m DEF Freed
  <2>2. refs[Here(p).frame] - 1 \in 0 .. MaxRefs  BY <1>2, <1>3, <1>4, <1>m
  <2>3. Freed(Here(p), refs) \in [Frames -> 0 .. MaxRefs]
    BY <1>0, <2>1, <2>2
  <2>4. \A f \in Frames : Freed(Here(p), refs)[f] =
                             IF f = Here(p).frame THEN refs[f] - 1 ELSE refs[f]
    BY <1>0, <2>1
  <2>5. \A f \in Frames : Held(Here(p), f) = IF f = Here(p).frame THEN 1 ELSE 0
    BY <1>4 DEF Held, Owning
  <2>6. \A f \in Frames : Freed(Here(p), refs)[f] = refs[f] - Held(Here(p), f)
    BY <1>3, <1>m, <2>4, <2>5
  <2>7. ASSUME NEW f, FirstFree(f, Freed(Here(p), refs))
        PROVE  /\ f \in Frames \ {MemfdFrame}
               /\ \A t \in Spaces, q \in Pages : Owns(t, q, f) => t = cr3 /\ q = p
    <3>1. f \in Frames /\ Freed(Here(p), refs)[f] = 0  BY <2>7 DEF FirstFree
    <3>2. refs[MemfdFrame] >= 1 /\ Here(p).frame # MemfdFrame
      BY <1>0, <1>2, <1>4, CountFacts
    <3>3. f # MemfdFrame  BY <1>3, <2>4, <3>1, <3>2
    <3>4. CASE f = Here(p).frame
      <4>1. refs[f] = 1  BY <1>3, <1>m, <2>4, <3>1, <3>4
      <4>2. Owns(cr3, p, f)  BY <1>4, <3>4 DEF Owns, Here
      <4> QED  BY <1>0, <3>1, <3>3, <4>1, <4>2, CountFacts
    <3>5. CASE f # Here(p).frame
      <4>1. refs[f] = 0  BY <2>4, <3>1, <3>5
      <4>2. \A t \in Spaces, q \in Pages : ~ Owns(t, q, f)
        BY <1>0, <3>1, <4>1, CountFacts
      <4> QED  BY <3>1, <3>3, <4>2
    <3> QED  BY <3>4, <3>5
  <2> QED  BY <2>3, <2>6, <2>7
<1>5. CASE ~ (Mapped(Here(p)) /\ Here(p).owned)
  <2>1. Freed(Here(p), refs) = refs  BY <1>5 DEF Freed
  <2>2. \A f \in Frames : Held(Here(p), f) = 0  BY <1>5 DEF Held, Owning
  <2>3. \A f \in Frames : refs[f] = refs[f] - Held(Here(p), f)
    BY <1>3, <1>m, <2>2
  <2>4. ASSUME NEW f, FirstFree(f, refs)
        PROVE  /\ f \in Frames \ {MemfdFrame}
               /\ \A t \in Spaces, q \in Pages : ~ Owns(t, q, f)
    <3>1. f \in Frames /\ refs[f] = 0  BY <2>4 DEF FirstFree
    <3>2. refs[MemfdFrame] >= 1
          /\ \A t \in Spaces, q \in Pages : Owns(t, q, f) => refs[f] >= 1
      BY <1>0, <3>1, CountFacts
    <3> QED  BY <3>1, <3>2
  <2> QED  BY <1>0, <2>1, <2>3, <2>4
<1> QED  BY <1>4, <1>5

\* vmm_resolve_cow leaves an entry that has its frame to itself.
LEMMA CopyFacts ==
    ASSUME IInv, NEW p \in Pages, NEW force \in BOOLEAN, NEW n \in Nat,
           NEW f \in 0 .. NFrames, Resolvable(Here(p), force),
           n = 1 => Alone(cr3, p), CopyTo(Here(p), force, n, f),
           NEW new, new = Resolved(Here(p), force, f)
    PROVE  /\ new \in Pte /\ new.frame \in Frames \ {MemfdFrame}
           /\ new.u /\ new.w /\ new.owned /\ ~ new.cow /\ ~ new.cowW
           /\ \A t \in Spaces, q \in Pages : Owns(t, q, new.frame) => t = cr3 /\ q = p
           /\ RefsAfterCopy(Here(p), f) \in [Frames -> 0 .. MaxRefs]
           /\ \A g \in Frames : RefsAfterCopy(Here(p), f)[g] =
                                    refs[g] - Held(Here(p), g) + Held(new, g)
           /\ ContentAfterCopy(Here(p), f) \in [Frames -> Values]
<1>0. /\ cr3 \in Spaces /\ pte \in [Spaces -> [Pages -> Pte]] /\ Here(p) \in Pte
      /\ refs \in [Frames -> 0 .. MaxRefs] /\ PteShape(Here(p))
      /\ content \in [Frames -> Values] /\ RefsMatchOwners
  BY DEF IInv, TypeOK, VmmInv, Here
<1>1. /\ Mapped(Here(p)) /\ Here(p).u /\ Here(p).owned /\ Here(p).cow
      /\ Here(p).frame \in Frames \ {MemfdFrame}
  BY <1>0, BoundFacts DEF Resolvable, PteShape, Mapped, Pte
<1>2. /\ new \in Pte /\ new.u /\ new.w /\ new.owned /\ ~ new.cow /\ ~ new.cowW
      /\ new.frame = IF f = NoFrame THEN Here(p).frame ELSE f
  BY <1>0, <1>1 DEF Resolved, Pte
<1>3. Owns(cr3, p, Here(p).frame) /\ refs[Here(p).frame] >= 1
  BY <1>0, <1>1, CountFacts DEF Owns, Here
<1>4. \A g \in Frames : refs[g] \in 0 .. MaxRefs  BY <1>0
<1>m. MaxRefs \in Nat \ {0}  BY VmmAssumption
<1>5. \A g \in Frames : /\ Held(Here(p), g) = IF g = Here(p).frame THEN 1 ELSE 0
                        /\ Held(new, g) = IF g = new.frame THEN 1 ELSE 0
  BY <1>1, <1>2, BoundFacts DEF Held, Owning, Mapped
<1>6. CASE f = NoFrame
  <2>1. n = 1  BY <1>6, BoundFacts DEF CopyTo, FirstFree
  <2>2. \A t \in Spaces, q \in Pages : Owns(t, q, new.frame) => t = cr3 /\ q = p
    BY <1>2, <1>6, <2>1 DEF Alone, Here
  <2>3. RefsAfterCopy(Here(p), f) = refs /\ ContentAfterCopy(Here(p), f) = content
    BY <1>6 DEF RefsAfterCopy, ContentAfterCopy
  <2>4. new.frame = Here(p).frame  BY <1>2, <1>6
  <2>5. \A g \in Frames : refs[g] = refs[g] - Held(Here(p), g) + Held(new, g)
    BY <1>4, <1>m, <1>5, <2>4
  <2> QED  BY <1>0, <1>1, <1>2, <2>2, <2>3, <2>4, <2>5
<1>7. CASE f # NoFrame
  <2>1. f \in Frames /\ refs[f] = 0 /\ new.frame = f
    BY <1>2, <1>7 DEF CopyTo, FirstFree
  <2>2. refs[MemfdFrame] >= 1
        /\ \A t \in Spaces, q \in Pages : Owns(t, q, f) => refs[f] >= 1
    BY <1>0, <2>1, CountFacts
  <2>3. f # MemfdFrame /\ f # Here(p).frame  BY <1>3, <2>1, <2>2
  <2>4. \A t \in Spaces, q \in Pages : ~ Owns(t, q, f)  BY <2>1, <2>2
  <2> DEFINE taken == [refs EXCEPT ![f] = 1]
  <2>a. taken[Here(p).frame] = refs[Here(p).frame] /\ taken[Here(p).frame] > 0
    <3>1. refs[Here(p).frame] \in Nat  BY <1>1, <1>4, <1>m
    <3> QED  BY <1>0, <1>1, <1>3, <2>3, <3>1
  <2>b. RefsAfterCopy(Here(p), f) = Freed(Here(p), taken)
    BY <1>7 DEF RefsAfterCopy
  <2>5. /\ RefsAfterCopy(Here(p), f) = [taken EXCEPT ![Here(p).frame] = @ - 1]
        /\ taken[Here(p).frame] = refs[Here(p).frame]
    <3> HIDE DEF taken
    <3> QED  BY <1>1, <2>a, <2>b DEF Freed
  <2>6. \A g \in Frames : RefsAfterCopy(Here(p), f)[g] =
            IF g = f THEN 1 ELSE IF g = Here(p).frame THEN refs[g] - 1 ELSE refs[g]
    BY <1>0, <1>1, <2>1, <2>3, <2>5
  <2>c. 1 \in 0 .. MaxRefs  BY <1>m
  <2>7. taken \in [Frames -> 0 .. MaxRefs]  BY <1>0, <2>c
  <2>8. taken[Here(p).frame] - 1 \in 0 .. MaxRefs
    BY <1>1, <1>3, <1>4, <1>m, <2>5
  <2> HIDE DEF taken
  <2>9. RefsAfterCopy(Here(p), f) \in [Frames -> 0 .. MaxRefs]
    BY <2>5, <2>7, <2>8
  <2>10. \A g \in Frames : RefsAfterCopy(Here(p), f)[g] =
                              refs[g] - Held(Here(p), g) + Held(new, g)
    BY <1>4, <1>5, <1>m, <2>1, <2>3, <2>6
  <2>11. ContentAfterCopy(Here(p), f) \in [Frames -> Values]
    BY <1>0, <1>1, <1>7 DEF ContentAfterCopy
  <2> QED  BY <1>2, <2>1, <2>3, <2>4, <2>9, <2>10, <2>11
<1> QED  BY <1>6, <1>7

-----------------------------------------------------------------------------
(* The steps that change one entry.                                        *)

Accessible == "none" \notin Protections

\* What mmap, mprotect and munmap leave in an entry has the right shape.
LEMMA ShapeFacts ==
    ASSUME Accessible
    PROVE  /\ \A f \in Frames \ {MemfdFrame}, prot \in Protections :
                  /\ PteShape(Permit(Fresh(f), prot))
                  /\ Permit(Fresh(f), prot).owned /\ Permit(Fresh(f), prot).frame = f
           /\ \A prot \in Protections :
                  PteShape(Permit(Borrowed, prot)) /\ ~ Permit(Borrowed, prot).owned
           /\ PteShape(NoPte) /\ ~ NoPte.owned
           /\ \A e \in Pte, prot \in Protections :
                  /\ Permit(e, prot).frame = e.frame /\ Permit(e, prot).owned = e.owned
                  /\ Permit(e, prot).cow = e.cow
                  /\ PteShape(e) /\ Mapped(e) /\ (prot = "rw" => ~ e.cow)
                         => PteShape(Permit(e, prot))
<1>0. \A prot \in Protections : prot # "none"  BY DEF Accessible
<1>1. \A f \in Frames \ {MemfdFrame} : f # NoFrame /\ f # MemfdFrame
  BY BoundFacts
<1>2. ASSUME NEW f \in Frames \ {MemfdFrame}, NEW prot \in Protections
      PROVE  /\ PteShape(Permit(Fresh(f), prot))
             /\ Permit(Fresh(f), prot).owned /\ Permit(Fresh(f), prot).frame = f
  <2> DEFINE x == Permit(Fresh(f), prot)
  <2>1. /\ x.frame = f /\ x.owned /\ ~ x.cow
        /\ x.u = (prot # "none") /\ x.w = (prot = "rw")
    BY DEF Permit, Fresh, NoPte
  <2>2. x.u  BY <1>0, <2>1
  <2> HIDE DEF x
  <2>3. Mapped(x)  BY <1>1, <2>1 DEF Mapped
  <2>4. PteShape(x)  BY <1>1, <2>1, <2>2, <2>3 DEF PteShape
  <2> QED  BY <2>1, <2>4 DEF x
<1>3. \A prot \in Protections :
          PteShape(Permit(Borrowed, prot)) /\ ~ Permit(Borrowed, prot).owned
  BY <1>0, BoundFacts DEF PteShape, Permit, Borrowed, NoPte, Mapped
<1>4. PteShape(NoPte) /\ ~ NoPte.owned  BY DEF PteShape, NoPte, Mapped
<1>5. ASSUME NEW e \in Pte, NEW prot \in Protections
      PROVE  /\ Permit(e, prot).frame = e.frame /\ Permit(e, prot).owned = e.owned
             /\ Permit(e, prot).cow = e.cow
             /\ Permit(e, prot).u /\ Permit(e, prot).w = (prot = "rw")
  BY <1>0 DEF Permit, Pte
<1>6. ASSUME NEW e \in Pte, NEW prot \in Protections,
             PteShape(e), Mapped(e), prot = "rw" => ~ e.cow
      PROVE  PteShape(Permit(e, prot))
  BY <1>5, <1>6, ZenonT(40) DEF PteShape, Mapped
<1> QED  BY <1>2, <1>3, <1>4, <1>5, <1>6

\* The type of the state after one entry has changed.
LEMMA PageTypes ==
    ASSUME TypeOK, NEW p \in Pages, NEW e \in Pte,
           pte' = [pte EXCEPT ![cr3][p] = e],
           refs' \in [Frames -> 0 .. MaxRefs], content' \in [Frames -> Values],
           alive' = alive, cr3' = cr3, tlb' = Invlpg(p),
           split' = split \/ split' = NoSplit
    PROVE  TypeOK'
<1>1. pte' \in [Spaces -> [Pages -> Pte]]  BY DEF TypeOK
<1>2. tlb' \in [Pages -> Pte]  BY EntryFacts DEF TypeOK, Invlpg
<1>3. NoSplit \in [space : Spaces, page : Pages, old : Pte, refs : 0 .. MaxRefs]
  BY EntryFacts, BoundFacts, VmmAssumption DEF NoSplit
<1> QED  BY <1>1, <1>2, <1>3 DEF TypeOK

LEMMA MapInv ==
    ASSUME IInv, Accessible, ~ Resuming,
           NEW p \in Pages, NEW prot \in Protections, NEW f \in Frames, Map(p, prot, f)
    PROVE  IInv'
<1> DEFINE e == Permit(Fresh(f), prot)
           released == Freed(Here(p), refs)
<1>1. /\ FirstFree(f, released) /\ refs' = [released EXCEPT ![f] = 1]
      /\ content' = [content EXCEPT ![f] = Zero]
      /\ pte' = [pte EXCEPT ![cr3][p] = e] /\ tlb' = Invlpg(p)
      /\ UNCHANGED <<alive, cr3, split>>
  BY DEF Map
<1>2. /\ f # MemfdFrame
      /\ \A t \in Spaces, q \in Pages : Owns(t, q, f) => t = cr3 /\ q = p
  BY <1>1, FreedFacts
<1>3. e \in Pte /\ PteShape(e) /\ e.owned /\ e.frame = f
  BY <1>2, EntryFacts, ShapeFacts
<1>4. /\ released \in [Frames -> 0 .. MaxRefs] /\ released[f] = 0
      /\ \A g \in Frames : released[g] = refs[g] - Held(Here(p), g)
  BY <1>1, FreedFacts DEF FirstFree
<1>m. MaxRefs \in Nat \ {0} /\ 1 \in 0 .. MaxRefs  BY VmmAssumption
<1>5. \A g \in Frames : Held(e, g) = IF g = f THEN 1 ELSE 0
  BY <1>3, BoundFacts DEF Held, Owning, Mapped
<1> HIDE DEF e, released
<1>6. refs' \in [Frames -> 0 .. MaxRefs]  BY <1>1, <1>4, <1>m
<1>7. \A g \in Frames : refs'[g] = refs[g] - Held(Here(p), g) + Held(e, g)
  <2> TAKE g \in Frames
  <2>1. refs'[g] = IF g = f THEN 1 ELSE released[g]  BY <1>1, <1>4
  <2>2. released[g] \in Nat /\ released[g] = refs[g] - Held(Here(p), g)
    BY <1>4, <1>m
  <2>3. refs[g] \in Nat /\ Held(Here(p), g) \in Nat
    BY <1>m DEF IInv, TypeOK, Held
  <2> QED  BY <1>4, <1>5, <2>1, <2>2, <2>3
<1>8. content' \in [Frames -> Values]  BY <1>1, VmmAssumption DEF IInv, TypeOK
<1>9. Fits(p, e)  BY <1>2, <1>3 DEF Fits
<1>10. VmmInv'  BY <1>1, <1>3, <1>7, <1>9, PageReplaced
<1>11. TypeOK'  BY <1>1, <1>3, <1>6, <1>8, PageTypes DEF IInv
<1> QED  BY <1>10, <1>11 DEF IInv

\* munmap and MAP_SHARED: an entry that owns nothing takes the place.
LEMMA ReleaseInv ==
    ASSUME IInv, ~ Resuming, NEW p \in Pages, NEW e \in Pte, PteShape(e), ~ e.owned,
           refs' = Freed(Here(p), refs), pte' = [pte EXCEPT ![cr3][p] = e],
           tlb' = Invlpg(p), UNCHANGED <<alive, content, cr3, split>>
    PROVE  IInv'
<1>1. /\ refs' \in [Frames -> 0 .. MaxRefs]
      /\ \A g \in Frames : refs'[g] = refs[g] - Held(Here(p), g)
  BY FreedFacts
<1>2. \A g \in Frames : refs'[g] = refs[g] - Held(Here(p), g) + Held(e, g)
  <2> TAKE g \in Frames
  <2>1. Held(e, g) = 0  BY DEF Held, Owning
  <2>2. refs'[g] \in Nat  BY <1>1, VmmAssumption
  <2> QED  BY <1>1, <2>1, <2>2
<1>3. Fits(p, e)  BY DEF Fits
<1>4. VmmInv'  BY <1>2, <1>3, PageReplaced
<1>5. content' \in [Frames -> Values]  BY DEF IInv, TypeOK
<1>6. TypeOK'  BY <1>1, <1>5, PageTypes DEF IInv
<1> QED  BY <1>4, <1>6 DEF IInv

\* An entry that stays for its frame, with other permission bits.
LEMMA RepermitInv ==
    ASSUME IInv, ~ Resuming, NEW p \in Pages, NEW e \in Pte, PteShape(e),
           e.frame = Here(p).frame, e.owned = Here(p).owned, e.cow = Here(p).cow,
           pte' = [pte EXCEPT ![cr3][p] = e],
           tlb' = Invlpg(p), UNCHANGED <<alive, refs, content, cr3, split>>
    PROVE  IInv'
<1>0. /\ cr3 \in Spaces /\ Here(p) \in Pte /\ PteShape(Here(p))
      /\ refs \in [Frames -> 0 .. MaxRefs] /\ MarkedOrAlone
  BY DEF IInv, TypeOK, VmmInv, Here
<1>1. \A g \in Frames : refs'[g] = refs[g] - Held(Here(p), g) + Held(e, g)
  <2> TAKE g \in Frames
  <2>1. Held(e, g) = Held(Here(p), g) /\ Held(e, g) \in {0, 1}
    BY DEF Held, Owning, Mapped
  <2>2. refs[g] \in Nat  BY <1>0, VmmAssumption
  <2> QED  BY <2>1, <2>2
<1>2. Fits(p, e)
  BY <1>0 DEF Fits, MarkedOrAlone, Alone, Here, Owns, PteShape
<1>3. VmmInv'  BY <1>1, <1>2, PageReplaced
<1>4. TypeOK'  BY <1>0, PageTypes DEF IInv, TypeOK
<1> QED  BY <1>3, <1>4 DEF IInv

\* Copy-on-write resolved, with or without a change of permissions after it.
LEMMA ResolveInv ==
    ASSUME IInv, NEW p \in Pages, NEW force \in BOOLEAN, NEW n \in Nat,
           NEW f \in 0 .. NFrames, Resolvable(Here(p), force),
           n = 1 => Alone(cr3, p), CopyTo(Here(p), force, n, f),
           NEW e \in Pte,
           \/ e = Resolved(Here(p), force, f)
           \/ e = Permit(Resolved(Here(p), force, f), "rw"),
           pte' = [pte EXCEPT ![cr3][p] = e], refs' = RefsAfterCopy(Here(p), f),
           content' \in [Frames -> Values], tlb' = Invlpg(p), UNCHANGED <<alive, cr3>>,
           (split' = split /\ ~ Resuming) \/ split' = NoSplit
    PROVE  IInv'
<1> DEFINE new == Resolved(Here(p), force, f)
<1>1. /\ new \in Pte /\ new.frame \in Frames \ {MemfdFrame}
      /\ new.u /\ new.w /\ new.owned /\ ~ new.cow /\ ~ new.cowW
      /\ \A t \in Spaces, q \in Pages : Owns(t, q, new.frame) => t = cr3 /\ q = p
      /\ refs' \in [Frames -> 0 .. MaxRefs]
      /\ \A g \in Frames : refs'[g] = refs[g] - Held(Here(p), g) + Held(new, g)
  BY CopyFacts
<1>2. /\ e.frame = new.frame /\ e.u /\ e.w /\ e.owned /\ ~ e.cow
  BY <1>1 DEF Permit, Pte
<1>3. PteShape(e)  BY <1>1, <1>2, BoundFacts DEF PteShape, Mapped
<1>4. Fits(p, e)  BY <1>1, <1>2 DEF Fits
<1>5. \A g \in Frames : Held(e, g) = Held(new, g)
  BY <1>1, <1>2 DEF Held, Owning, Mapped
<1>6. VmmInv'  BY <1>1, <1>3, <1>4, <1>5, PageReplaced
<1>7. TypeOK'  BY <1>1, PageTypes DEF IInv
<1> QED  BY <1>6, <1>7 DEF IInv

\* A frame with one reference, copy-on-write or not, has its owner to itself.
LEMMA SoleOwner ==
    ASSUME IInv, NEW p \in Pages, NEW force \in BOOLEAN, Resolvable(Here(p), force)
    PROVE  /\ refs[Here(p).frame] \in 0 .. MaxRefs
           /\ refs[Here(p).frame] \in Nat /\ refs[Here(p).frame] > 0
           /\ refs[Here(p).frame] = 1 => Alone(cr3, p)
<1>0. /\ cr3 \in Spaces /\ pte \in [Spaces -> [Pages -> Pte]] /\ Here(p) \in Pte
      /\ refs \in [Frames -> 0 .. MaxRefs] /\ PteShape(Here(p)) /\ RefsMatchOwners
  BY DEF IInv, TypeOK, VmmInv, Here
<1>1. Here(p).frame \in Frames \ {MemfdFrame} /\ Mapped(Here(p)) /\ Here(p).owned
  BY <1>0, BoundFacts DEF Resolvable, PteShape, Mapped, Pte
<1>2. Owns(cr3, p, Here(p).frame)  BY <1>1 DEF Owns, Here
<1>3. refs[Here(p).frame] >= 1 /\ refs[Here(p).frame] \in Nat
  BY <1>0, <1>1, <1>2, CountFacts
<1>4. refs[Here(p).frame] = 1 => Alone(cr3, p)
  BY <1>0, <1>1, <1>2, CountFacts DEF Alone, Here
<1> QED  BY <1>0, <1>1, <1>3, <1>4

LEMMA ProtectInv ==
    ASSUME IInv, Accessible, ~ Resuming, NEW p \in Pages, NEW prot \in Protections,
           NEW f \in 0 .. NFrames, Protect(p, prot, f)
    PROVE  IInv'
<1>0. Here(p) \in Pte /\ PteShape(Here(p))
  BY DEF IInv, TypeOK, VmmInv, Here
<1>1. CASE prot = "rw" /\ Here(p).cow
  <2>1. Resolvable(Here(p), TRUE)
    BY <1>0, <1>1 DEF Resolvable, PteShape
  <2>2. /\ CopyTo(Here(p), TRUE, refs[Here(p).frame], f)
        /\ pte' = [pte EXCEPT ![cr3][p] = Permit(Resolved(Here(p), TRUE, f), "rw")]
        /\ refs' = RefsAfterCopy(Here(p), f) /\ content' = ContentAfterCopy(Here(p), f)
        /\ tlb' = Invlpg(p) /\ UNCHANGED <<alive, cr3, split>>
    BY <1>1 DEF Protect
  <2>3. /\ refs[Here(p).frame] \in Nat
        /\ refs[Here(p).frame] = 1 => Alone(cr3, p)
    BY <2>1, SoleOwner
  <2>4. content' \in [Frames -> Values]  BY <2>1, <2>2, <2>3, CopyFacts
  <2>5. Permit(Resolved(Here(p), TRUE, f), "rw") \in Pte  BY <1>0, EntryFacts
  <2> QED  BY <2>1, <2>2, <2>3, <2>4, <2>5, ResolveInv
<1>2. CASE ~ (prot = "rw" /\ Here(p).cow)
  <2> DEFINE e == Permit(Here(p), prot)
  <2>1. /\ f = NoFrame /\ pte' = [pte EXCEPT ![cr3][p] = e]
        /\ tlb' = Invlpg(p) /\ UNCHANGED <<alive, cr3, split>> /\ Mapped(Here(p))
    BY <1>2 DEF Protect
  <2>2. UNCHANGED <<refs, content>>
    BY <2>1 DEF Protect, RefsAfterCopy, ContentAfterCopy
  <2>3. /\ e \in Pte /\ PteShape(e) /\ e.frame = Here(p).frame
        /\ e.owned = Here(p).owned /\ e.cow = Here(p).cow
    BY <1>0, <1>2, <2>1, EntryFacts, ShapeFacts
  <2> HIDE DEF e
  <2> QED  BY <2>1, <2>2, <2>3, RepermitInv
<1> QED  BY <1>1, <1>2

LEMMA FaultInv ==
    ASSUME IInv, ~ Resuming, NEW p \in Pages, NEW f \in 0 .. NFrames, Fault(p, f)
    PROVE  IInv'
<1>1. /\ Resolvable(Here(p), FALSE) /\ CopyTo(Here(p), FALSE, refs[Here(p).frame], f)
      /\ pte' = [pte EXCEPT ![cr3][p] = Resolved(Here(p), FALSE, f)]
      /\ refs' = RefsAfterCopy(Here(p), f) /\ content' = ContentAfterCopy(Here(p), f)
      /\ tlb' = Invlpg(p) /\ UNCHANGED <<alive, cr3, split>>
  BY DEF Fault
<1>2. refs[Here(p).frame] \in Nat /\ (refs[Here(p).frame] = 1 => Alone(cr3, p))
  BY <1>1, SoleOwner
<1>3. Resolved(Here(p), FALSE, f) \in Pte
  BY EntryFacts DEF IInv, TypeOK, Here
<1>4. content' \in [Frames -> Values]  BY <1>1, <1>2, CopyFacts
<1> QED  BY <1>1, <1>2, <1>3, <1>4, ResolveInv

LEMMA ResolveWriteInv ==
    ASSUME IInv, NEW f \in 0 .. NFrames, ResolveWrite(f)
    PROVE  IInv'
<1> DEFINE p == split.page
<1>0. split \in [space : Spaces, page : Pages, old : Pte, refs : 0 .. MaxRefs]
  BY DEF IInv, TypeOK
<1>1. /\ p \in Pages /\ Here(p) = split.old /\ Resolvable(Here(p), TRUE)
      /\ split.refs = 1 => Alone(cr3, p)
  BY <1>0 DEF ResolveWrite, Resuming, IInv, VmmInv, SplitAgrees, Here
<1>2. split.refs \in Nat  BY <1>0, VmmAssumption
<1>3. /\ CopyTo(Here(p), TRUE, split.refs, f)
      /\ pte' = [pte EXCEPT ![cr3][p] = Permit(Resolved(Here(p), TRUE, f), "rw")]
      /\ refs' = RefsAfterCopy(Here(p), f) /\ content' = ContentAfterCopy(Here(p), f)
      /\ tlb' = Invlpg(p) /\ UNCHANGED <<alive, cr3>> /\ split' = NoSplit
  BY <1>1 DEF ResolveWrite
<1>4. Permit(Resolved(Here(p), TRUE, f), "rw") \in Pte
  BY <1>1, EntryFacts DEF IInv, TypeOK, Here
<1>5. content' \in [Frames -> Values]
  BY <1>1, <1>2, <1>3, CopyFacts
<1> HIDE DEF p
<1> QED  BY <1>1, <1>2, <1>3, <1>4, <1>5, ResolveInv

-----------------------------------------------------------------------------
(* The steps that change no entry.                                         *)

LEMMA TablesKept ==
    ASSUME IInv, UNCHANGED <<alive, pte, refs>>, TlbAgrees', SplitAgrees'
    PROVE  VmmInv'
<1>1. RefsMatchOwners'  BY DEF IInv, VmmInv, RefsMatchOwners, Owners, Owns
<1>2. MarkedOrAlone' /\ SamePage' /\ DeadAreEmpty'
  BY DEF IInv, VmmInv, MarkedOrAlone, SamePage, DeadAreEmpty, Alone, Owns
<1>3. (\A s \in Spaces, p \in Pages : PteShape(pte[s][p]))'
  BY DEF IInv, VmmInv
<1> QED  BY <1>1, <1>2, <1>3 DEF VmmInv

\* The program's loads and stores: the TLB may learn entries as they are.
LEMMA AccessInv ==
    ASSUME IInv, UNCHANGED <<alive, pte, refs, cr3>>,
           split' = split \/ split' = NoSplit,
           content' \in [Frames -> Values], tlb' \in [Pages -> Pte],
           \A q \in Pages : tlb'[q] = tlb[q] \/ tlb'[q] = Here(q)
    PROVE  IInv'
<1>1. TlbAgrees'
  <2> SUFFICES ASSUME NEW q \in Pages, Mapped(tlb'[q])
               PROVE  /\ tlb'[q].frame = Here(q).frame
                      /\ tlb'[q].owned = Here(q).owned
                      /\ tlb'[q].owned /\ tlb'[q].w => Alone(cr3, q)
    BY DEF TlbAgrees, Here, Alone, Owns
  <2>1. CASE tlb'[q] = tlb[q]
    BY <2>1 DEF IInv, VmmInv, TlbAgrees
  <2>2. CASE tlb'[q] = Here(q)
    <3>1. Here(q).owned /\ Here(q).w => ~ Here(q).cow /\ cr3 \in Spaces
      BY DEF IInv, TypeOK, VmmInv, PteShape, Here
    <3>2. Here(q).owned /\ Here(q).w => Alone(cr3, q)
      BY <3>1 DEF IInv, VmmInv, MarkedOrAlone, Here
    <3> QED  BY <2>2, <3>2
  <2> QED  BY <2>1, <2>2
<1>2. SplitAgrees'
  <2>1. CASE split' = NoSplit  BY <2>1 DEF SplitAgrees, NoSplit
  <2>2. CASE split' = split
    BY <2>2 DEF IInv, VmmInv, SplitAgrees, NoSplit, Alone, Owns
  <2> QED  BY <2>1, <2>2
<1>3. VmmInv'  BY <1>1, <1>2, TablesKept
<1>4. NoSplit \in [space : Spaces, page : Pages, old : Pte, refs : 0 .. MaxRefs]
  BY EntryFacts, BoundFacts, VmmAssumption DEF NoSplit
<1>5. TypeOK'  BY <1>4 DEF IInv, TypeOK
<1> QED  BY <1>3, <1>5 DEF IInv

LEMMA LoadStoreInv ==
    ASSUME IInv, NEW p \in Pages,
           \/ Load(p)
           \/ \E v \in Values : Store(p, v) \/ KernelWrite(p, v)
    PROVE  IInv'
<1>0. /\ tlb \in [Pages -> Pte] /\ Here(p) \in Pte
      /\ content \in [Frames -> Values]
  BY DEF IInv, TypeOK, Here
<1>1. CASE Load(p)
  <2>1. /\ UNCHANGED <<alive, pte, refs, content, cr3, split>>
        /\ tlb' = [tlb EXCEPT ![p] = Here(p)]
    BY <1>1 DEF Load
  <2> QED  BY <1>0, <2>1, AccessInv
<1>2. ASSUME NEW v \in Values, Store(p, v)
      PROVE  IInv'
  <2>1. /\ UNCHANGED <<alive, pte, refs, cr3, split>>
        /\ content' \in [Frames -> Values]
        /\ tlb' = tlb \/ tlb' = [tlb EXCEPT ![p] = Here(p)]
    BY <1>0, <1>2 DEF Store
  <2> QED  BY <1>0, <2>1, AccessInv
<1>3. ASSUME NEW v \in Values, KernelWrite(p, v)
      PROVE  IInv'
  <2>1. /\ UNCHANGED <<alive, pte, refs, cr3, tlb, split>>
        /\ content' \in [Frames -> Values]
    BY <1>0, <1>3 DEF KernelWrite
  <2> QED  BY <1>0, <2>1, AccessInv
<1> QED  BY <1>1, <1>2, <1>3

LEMMA AdviseInv ==
    ASSUME IInv, ~ Resuming, NEW p \in Pages, NEW f \in 0 .. NFrames, Advise(p, f)
    PROVE  IInv'
<1> DEFINE e == Here(p)
           new == Resolved(e, TRUE, f)
<1>0. /\ e \in Pte /\ content \in [Frames -> Values] /\ tlb \in [Pages -> Pte]
      /\ pte \in [Spaces -> [Pages -> Pte]] /\ cr3 \in Spaces
  BY DEF IInv, TypeOK, Here
<1>1. /\ CopyTo(e, TRUE, refs[e.frame], f) /\ pte' = [pte EXCEPT ![cr3][p] = new]
      /\ refs' = RefsAfterCopy(e, f)
      /\ content' = [content EXCEPT ![new.frame] = Zero]
      /\ tlb' = IF Resolvable(e, TRUE) THEN Invlpg(p) ELSE tlb
      /\ UNCHANGED <<alive, cr3, split>>
  BY DEF Advise
<1>2. content' \in [Frames -> Values]  BY <1>0, <1>1, VmmAssumption
<1>3. CASE Resolvable(e, TRUE)
  <2>1. refs[e.frame] \in Nat /\ (refs[e.frame] = 1 => Alone(cr3, p))
    BY <1>3, SoleOwner
  <2>2. new \in Pte  BY <1>0, EntryFacts
  <2> QED  BY <1>1, <1>2, <1>3, <2>1, <2>2, ResolveInv
<1>4. CASE ~ Resolvable(e, TRUE)
  <2>1. f = NoFrame /\ new = e /\ tlb' = tlb
    BY <1>1, <1>4 DEF CopyTo, Resolved
  <2>2. refs' = refs  BY <1>1, <2>1 DEF RefsAfterCopy
  <2>3. pte' = pte  BY <1>0, <1>1, <2>1 DEF Here
  <2> QED  BY <1>0, <1>1, <1>2, <2>1, <2>2, <2>3, AccessInv
<1> QED  BY <1>3, <1>4

LEMMA ResolveReadInv ==
    ASSUME IInv, NEW p \in Pages, ResolveRead(p)
    PROVE  IInv'
<1>0. cr3 \in Spaces /\ cr3 \in alive /\ Here(p) \in Pte
  BY DEF IInv, TypeOK, Here
<1>1. /\ Resolvable(Here(p), TRUE)
      /\ split' = [space |-> cr3, page |-> p, old |-> Here(p),
                   refs |-> refs[Here(p).frame]]
      /\ UNCHANGED <<alive, pte, refs, content, cr3, tlb>>
  BY DEF ResolveRead
<1>2. /\ refs[Here(p).frame] \in 0 .. MaxRefs /\ refs[Here(p).frame] > 0
      /\ refs[Here(p).frame] = 1 => Alone(cr3, p)
  BY <1>1, SoleOwner
<1>3. SplitAgrees'
  BY <1>0, <1>1, <1>2 DEF SplitAgrees, Here, Alone, Owns
<1>4. TlbAgrees'
  BY <1>1 DEF IInv, VmmInv, TlbAgrees, Here, Alone, Owns
<1>5. VmmInv'  BY <1>1, <1>3, <1>4, TablesKept
<1>6. TypeOK'  BY <1>0, <1>1, <1>2 DEF IInv, TypeOK
<1> QED  BY <1>5, <1>6 DEF IInv

LEMMA SwitchInv ==
    ASSUME IInv, NEW s \in Spaces, Switch(s)
    PROVE  IInv'
<1>1. /\ UNCHANGED <<alive, pte, refs, content, split>>
      /\ s \in alive /\ cr3' = s /\ tlb' = NoTlb
  BY DEF Switch
<1>2. NoTlb \in [Pages -> Pte] /\ \A q \in Pages : ~ Mapped(NoTlb[q])
  BY EntryFacts DEF NoTlb, NoPte, Mapped
<1>3. TlbAgrees'  BY <1>1, <1>2 DEF TlbAgrees
<1>4. SplitAgrees'
  BY <1>1 DEF IInv, VmmInv, SplitAgrees, NoSplit, Alone, Owns
<1>5. VmmInv'  BY <1>1, <1>3, <1>4, TablesKept
<1>6. TypeOK'  BY <1>1, <1>2 DEF IInv, TypeOK
<1> QED  BY <1>5, <1>6 DEF IInv

-----------------------------------------------------------------------------
(* Address spaces.                                                         *)

\* Tables that own the same frames at the same places: marks, empty entries.
LEMMA OwnersKept ==
    ASSUME IInv, pte' \in [Spaces -> [Pages -> Pte]], UNCHANGED refs,
           \A s \in Spaces, p \in Pages :
               /\ PteShape(pte'[s][p])
               /\ pte'[s][p].owned <=> pte[s][p].owned
               /\ pte[s][p].owned => pte'[s][p].frame = pte[s][p].frame
               /\ pte[s][p].cow => pte'[s][p].cow
    PROVE  /\ RefsMatchOwners' /\ MarkedOrAlone' /\ SamePage'
           /\ \A s \in Spaces, p \in Pages : \A f : Owns(s, p, f)' <=> Owns(s, p, f)
<1>0. /\ \A s \in Spaces, p \in Pages : PteShape(pte[s][p])
      /\ MarkedOrAlone /\ SamePage /\ RefsMatchOwners
  BY DEF IInv, VmmInv
<1>1. \A s \in Spaces, p \in Pages : \A f : Owns(s, p, f)' <=> Owns(s, p, f)
  <2>1. \A s \in Spaces, p \in Pages :
            /\ pte[s][p].owned => Mapped(pte[s][p])
            /\ pte'[s][p].owned => Mapped(pte'[s][p])
    BY <1>0 DEF PteShape
  <2> QED  BY <2>1 DEF Owns, Mapped, NoFrame
<1>2. \A f : Owners(f)' = Owners(f)  BY <1>1 DEF Owners
<1>3. RefsMatchOwners'
  <2> SUFFICES ASSUME NEW f \in Frames
               PROVE  refs'[f] = Cardinality(Owners(f)') + IF f = MemfdFrame THEN 1 ELSE 0
    BY DEF RefsMatchOwners
  <2> QED  BY <1>0, <1>2 DEF RefsMatchOwners
<1>4. MarkedOrAlone'
  BY <1>0, <1>1 DEF MarkedOrAlone, Alone
<1>5. SamePage'
  BY <1>0, <1>1 DEF SamePage
<1> QED  BY <1>1, <1>3, <1>4, <1>5

LEMMA CreateInv ==
    ASSUME IInv, NEW c \in Spaces, Create(c)
    PROVE  IInv'
<1>0. /\ cr3 \in alive /\ alive \subseteq Spaces /\ pte \in [Spaces -> [Pages -> Pte]]
      /\ \A s \in Spaces, p \in Pages : PteShape(pte[s][p])
      /\ DeadAreEmpty /\ TlbAgrees /\ SplitAgrees
  BY DEF IInv, TypeOK, VmmInv
<1>1. /\ c \notin alive /\ alive' = alive \cup {c}
      /\ pte' = [pte EXCEPT ![c] = [p \in Pages |-> IF Here(p).u THEN NoPte ELSE Here(p)]]
      /\ UNCHANGED <<refs, content, cr3, tlb, split>>
  BY DEF Create
<1>2. \A p \in Pages : Here(p) \in Pte /\ PteShape(Here(p))
  BY <1>0 DEF Here
<1>3. /\ pte' \in [Spaces -> [Pages -> Pte]]
      /\ \A s \in Spaces \ {c} : pte'[s] = pte[s]
      /\ \A p \in Pages : pte'[c][p] = IF Here(p).u THEN NoPte ELSE Here(p)
  BY <1>0, <1>1, <1>2, EntryFacts
<1>4. PteShape(NoPte) /\ ~ NoPte.owned /\ ~ NoPte.cow
  BY DEF PteShape, NoPte, Mapped
<1>5. \A p \in Pages : PteShape(pte'[c][p]) /\ ~ pte'[c][p].owned
  BY <1>2, <1>3, <1>4 DEF PteShape
<1>6. \A p \in Pages : pte[c][p] = NoPte  BY <1>0, <1>1 DEF DeadAreEmpty
<1>7. \A s \in Spaces, p \in Pages :
          /\ PteShape(pte'[s][p])
          /\ pte'[s][p].owned <=> pte[s][p].owned
          /\ pte[s][p].owned => pte'[s][p].frame = pte[s][p].frame
          /\ pte[s][p].cow => pte'[s][p].cow
  BY <1>0, <1>3, <1>4, <1>5, <1>6
<1>8. /\ RefsMatchOwners' /\ MarkedOrAlone' /\ SamePage'
      /\ \A s \in Spaces, p \in Pages : \A f : Owns(s, p, f)' <=> Owns(s, p, f)
  BY <1>1, <1>3, <1>7, OwnersKept
<1>9. TlbAgrees'
  <2>1. \A p \in Pages : Here(p)' = Here(p)  BY <1>0, <1>1, <1>3 DEF Here
  <2>2. \A p \in Pages : Alone(cr3, p)' <=> Alone(cr3, p)
    BY <1>0, <1>1, <1>3, <1>8 DEF Alone
  <2> QED  BY <1>0, <1>1, <2>1, <2>2 DEF TlbAgrees
<1>10. DeadAreEmpty'  BY <1>0, <1>1, <1>3 DEF DeadAreEmpty
<1>11. SplitAgrees'
  <2>1. split' = split /\ (\A s \in alive : s # c /\ s \in Spaces /\ s \in alive')
    BY <1>0, <1>1
  <2>2. SUFFICES ASSUME split # NoSplit
                 PROVE  /\ split.space \in alive' /\ pte'[split.space][split.page] = split.old
                        /\ Resolvable(split.old, TRUE) /\ split.refs > 0
                        /\ split.refs = 1 => Alone(split.space, split.page)'
    BY <2>1 DEF SplitAgrees, NoSplit
  <2>3. /\ split.space \in alive /\ pte[split.space][split.page] = split.old
        /\ Resolvable(split.old, TRUE) /\ split.refs > 0
        /\ split.refs = 1 => Alone(split.space, split.page)
    BY <1>0, <2>2 DEF SplitAgrees
  <2>4. pte'[split.space] = pte[split.space]
    BY <1>3, <2>1, <2>3
  <2>5. ASSUME Alone(split.space, split.page)  PROVE  Alone(split.space, split.page)'
    BY <1>8, <2>1, <2>4, <2>5 DEF Alone
  <2> QED  BY <2>1, <2>3, <2>4, <2>5
<1>12. TypeOK'  BY <1>1, <1>3 DEF IInv, TypeOK
<1> QED  BY <1>7, <1>8, <1>9, <1>10, <1>11, <1>12 DEF IInv, VmmInv

\* What fork leaves in the entries of the parent.
LEMMA SharedFacts ==
    ASSUME NEW e \in Pte, PteShape(e)
    PROVE  /\ Shared(e) \in Pte /\ PteShape(Shared(e))
           /\ Shared(e).frame = e.frame /\ Shared(e).owned = e.owned
           /\ e.owned => Shared(e).cow
           /\ UserOwned(e) <=> e.owned
<1>1. UserOwned(e) <=> e.owned  BY DEF UserOwned, PteShape
<1>2. CASE UserOwned(e)
  BY <1>1, <1>2 DEF Shared, PteShape, Pte, Mapped
<1>3. CASE ~ UserOwned(e)
  BY <1>1, <1>3 DEF Shared
<1> QED  BY <1>1, <1>2, <1>3

LEMMA ForkFailsInv ==
    ASSUME IInv, ~ Resuming, NEW k, ForkFails(k)
    PROVE  IInv'
<1>0. /\ cr3 \in alive /\ alive \subseteq Spaces /\ pte \in [Spaces -> [Pages -> Pte]]
      /\ \A s \in Spaces, p \in Pages : PteShape(pte[s][p])
      /\ DeadAreEmpty /\ TlbAgrees /\ SplitAgrees
  BY DEF IInv, TypeOK, VmmInv
<1>1. /\ pte' = [pte EXCEPT ![cr3] = [p \in Pages |->
                                        IF p < k THEN Shared(Here(p)) ELSE Here(p)]]
      /\ UNCHANGED <<alive, refs, content, cr3, tlb, split>>
  BY DEF ForkFails
<1>2. \A p \in Pages : Here(p) \in Pte /\ PteShape(Here(p)) /\ Here(p) = pte[cr3][p]
  BY <1>0 DEF Here
<1>3. /\ \A s \in Spaces \ {cr3} : pte'[s] = pte[s]
      /\ \A p \in Pages : pte'[cr3][p] = IF p < k THEN Shared(Here(p)) ELSE Here(p)
      /\ pte' \in [Spaces -> [Pages -> Pte]]
  BY <1>0, <1>1, <1>2, EntryFacts
<1>4. ASSUME NEW s \in Spaces, NEW p \in Pages
      PROVE  /\ PteShape(pte'[s][p])
             /\ pte'[s][p].owned = pte[s][p].owned
             /\ pte'[s][p].frame = pte[s][p].frame
             /\ pte[s][p].cow => pte'[s][p].cow
  <2>1. CASE s # cr3  BY <1>0, <1>3, <2>1
  <2>2. CASE s = cr3 /\ ~ p < k  BY <1>2, <1>3, <2>2
  <2>3. CASE s = cr3 /\ p < k
    <3>1. pte'[s][p] = Shared(Here(p))  BY <1>3, <2>3
    <3>2. Here(p).cow => Here(p).owned  BY <1>2 DEF PteShape
    <3> QED  BY <1>2, <2>3, <3>1, <3>2, SharedFacts
  <2> QED  BY <2>1, <2>2, <2>3
<1>5. /\ RefsMatchOwners' /\ MarkedOrAlone' /\ SamePage'
      /\ \A s \in Spaces, p \in Pages : \A f : Owns(s, p, f)' <=> Owns(s, p, f)
  BY <1>1, <1>3, <1>4, OwnersKept
<1>6. \A s \in Spaces, p \in Pages : Alone(s, p)' <=> Alone(s, p)
  BY <1>4, <1>5 DEF Alone
<1>7. TlbAgrees'
  BY <1>0, <1>1, <1>4, <1>6 DEF TlbAgrees, Here
<1>8. DeadAreEmpty'  BY <1>0, <1>1, <1>3 DEF DeadAreEmpty
<1>9. SplitAgrees'
  BY <1>0, <1>1, <1>3, <1>6 DEF SplitAgrees, NoSplit, Resuming, IInv, TypeOK
<1>10. TypeOK'  BY <1>1, <1>3 DEF IInv, TypeOK
<1> QED  BY <1>4, <1>5, <1>7, <1>8, <1>9, <1>10 DEF IInv, VmmInv

LEMMA DestroyInv ==
    ASSUME IInv, NEW s \in Spaces, Destroy(s)
    PROVE  IInv'
<1>0. /\ cr3 \in alive /\ alive \subseteq Spaces /\ pte \in [Spaces -> [Pages -> Pte]]
      /\ refs \in [Frames -> 0 .. MaxRefs] /\ MaxRefs \in Nat
      /\ \A t \in Spaces, p \in Pages : PteShape(pte[t][p])
      /\ RefsMatchOwners /\ MarkedOrAlone /\ SamePage
      /\ DeadAreEmpty /\ TlbAgrees /\ SplitAgrees
  BY VmmAssumption DEF IInv, TypeOK, VmmInv
<1>1. /\ s \in alive /\ s # cr3 /\ alive' = alive \ {s}
      /\ pte' = [pte EXCEPT ![s] = [p \in Pages |-> NoPte]]
      /\ refs' = [f \in Frames |->
                    LET n == Cardinality(OwnedPagesOf(s, f))
                    IN  IF n < refs[f] THEN refs[f] - n ELSE 0]
      /\ split' = IF split.space = s THEN NoSplit ELSE split
      /\ UNCHANGED <<content, cr3, tlb>>
  BY DEF Destroy
<1>2. /\ pte' \in [Spaces -> [Pages -> Pte]]
      /\ \A t \in Spaces \ {s} : pte'[t] = pte[t]
      /\ pte'[s] = [p \in Pages |-> NoPte]
  BY <1>0, <1>1, EntryFacts
<1>3. PteShape(NoPte) /\ ~ NoPte.owned /\ ~ Mapped(NoPte)
  BY DEF PteShape, NoPte, Mapped
<1>4. \A t \in Spaces, p \in Pages : \A f : Owns(t, p, f)' <=> t # s /\ Owns(t, p, f)
  BY <1>2, <1>3 DEF Owns
<1>5. ASSUME NEW f \in Frames
      PROVE  /\ refs'[f] = Cardinality(Owners(f)') + IF f = MemfdFrame THEN 1 ELSE 0
             /\ refs'[f] \in 0 .. MaxRefs
  <2>1. refs[f] = Cardinality(Owners(f)) + IF f = MemfdFrame THEN 1 ELSE 0
    BY <1>0 DEF RefsMatchOwners
  <2>2. IsFiniteSet(Owners(f)) /\ Cardinality(Owners(f)) \in Nat
    BY OwnersCount, OwnersAre
  <2>3. CASE OwnedPagesOf(s, f) = {}
    <3>1. \A p \in Pages : ~ Owns(s, p, f)  BY <2>3 DEF OwnedPagesOf, Owns
    <3>2. Owners(f)' = Owners(f)
      <4>1. Owners(f)' = {sp \in Spaces \X Pages : Owns(sp[1], sp[2], f)'}
        BY DEF Owners
      <4> QED  BY <1>4, <3>1, <4>1 DEF Owners
    <3>3. Cardinality(OwnedPagesOf(s, f)) = 0  BY <2>3, FS_EmptySet
    <3>4. refs'[f] = IF 0 < refs[f] THEN refs[f] - 0 ELSE 0
      BY <1>1, <3>3
    <3> QED  BY <1>0, <2>1, <3>2, <3>4
  <2>4. ASSUME NEW p \in OwnedPagesOf(s, f)
        PROVE  /\ refs'[f] = Cardinality(Owners(f)') + IF f = MemfdFrame THEN 1 ELSE 0
               /\ refs'[f] \in 0 .. MaxRefs
    <3>1. p \in Pages /\ Owns(s, p, f) /\ pte[s][p].owned /\ pte[s][p].frame = f
      BY DEF OwnedPagesOf, Owns
    <3>2. \A q \in Pages : Owns(s, q, f) => q = p
      BY <1>0, <3>1 DEF SamePage
    <3>3. OwnedPagesOf(s, f) = {p}
      BY <3>1, <3>2 DEF OwnedPagesOf, Owns
    <3>4. Cardinality(OwnedPagesOf(s, f)) = 1  BY <3>3, FS_Singleton
    <3>5. Owners(f)' = Owners(f) \ {<<s, p>>}
      <4>1. Owners(f)' = {sp \in Spaces \X Pages : Owns(sp[1], sp[2], f)'}
        BY DEF Owners
      <4> QED  BY <1>4, <3>1, <3>2, <4>1 DEF Owners
    <3>6. <<s, p>> \in Owners(f)  BY <3>1 DEF Owners
    <3>7. Cardinality(Owners(f) \ {<<s, p>>}) = Cardinality(Owners(f)) - 1
      BY <2>2, <3>6, FS_RemoveElement
    <3>8. Cardinality(Owners(f)) # 0  BY <2>2, <3>6, FS_EmptySet
    <3>9. refs'[f] = IF 1 < refs[f] THEN refs[f] - 1 ELSE 0
      BY <1>1, <3>4
    <3> QED  BY <1>0, <2>1, <2>2, <3>5, <3>7, <3>8, <3>9
  <2> QED  BY <2>3, <2>4
<1>6. RefsMatchOwners'  BY <1>5 DEF RefsMatchOwners
<1>7. (\A t \in Spaces, p \in Pages : PteShape(pte[t][p]))'
  <2>1. \A t \in Spaces, p \in Pages : PteShape(pte'[t][p])
    BY <1>0, <1>2, <1>3
  <2> QED  BY <2>1
<1>8. \A t \in Spaces \ {s}, p \in Pages : Alone(t, p) => Alone(t, p)'
  BY <1>2, <1>4 DEF Alone
<1>9. MarkedOrAlone'
  BY <1>0, <1>2, <1>3, <1>8 DEF MarkedOrAlone
<1>10. SamePage'
  <2> SUFFICES ASSUME NEW t \in Spaces, NEW r \in Spaces, NEW p \in Pages, NEW q \in Pages,
                      pte'[t][p].owned, Owns(r, q, pte[t][p].frame)'
               PROVE  p = q
    BY DEF SamePage
  <2>1. t # s /\ pte'[t] = pte[t]  BY <1>2, <1>3
  <2> QED  BY <1>0, <1>4, <2>1 DEF SamePage
<1>11. TlbAgrees'
  BY <1>0, <1>1, <1>2, <1>8 DEF TlbAgrees, Here
<1>12. DeadAreEmpty'  BY <1>0, <1>1, <1>2 DEF DeadAreEmpty
<1>13. SplitAgrees'
  <2>1. CASE split' = NoSplit  BY <2>1 DEF SplitAgrees, NoSplit
  <2>2. CASE split.space # s /\ split' = split
    BY <1>0, <1>1, <1>2, <1>8, <2>2 DEF SplitAgrees, NoSplit, IInv, TypeOK
  <2> QED  BY <1>1, <2>1, <2>2
<1>14. NoSplit \in [space : Spaces, page : Pages, old : Pte, refs : 0 .. MaxRefs]
  BY EntryFacts, BoundFacts, <1>0 DEF NoSplit
<1>15. refs' \in [Frames -> 0 .. MaxRefs]  BY <1>1, <1>5
<1>16. TypeOK'  BY <1>0, <1>1, <1>2, <1>14, <1>15 DEF IInv, TypeOK
<1> QED  BY <1>6, <1>7, <1>9, <1>10, <1>11, <1>12, <1>13, <1>16 DEF IInv, VmmInv

\* With no page out of the user's reach, fork shares every page it finds.
LEMMA ForkEffect ==
    ASSUME IInv, NEW c \in Spaces, NEW g, Fork(c, g)
    PROVE  /\ c \notin alive /\ alive' = alive \cup {c} /\ c # cr3
           /\ \A p \in Pages : Retainable(Here(p))
           /\ tlb' = NoTlb /\ UNCHANGED <<cr3, split>>
           /\ pte' = [pte EXCEPT ![cr3] = [p \in Pages |-> Shared(Here(p))],
                                 ![c] = [p \in Pages |-> Shared(Here(p))]]
           /\ refs' = [f \in Frames |-> refs[f] + Cardinality(PagesOf(cr3, f))]
           /\ content' = content
<1>0. cr3 \in alive /\ refs \in [Frames -> 0 .. MaxRefs] /\ content \in [Frames -> Values]
  BY DEF IInv, TypeOK
<1>1. \A p \in Pages : PteShape(Here(p)) /\ Here(p) = pte[cr3][p]
  BY DEF IInv, TypeOK, VmmInv, Here
<1>2. Eager(cr3) = {}
  BY <1>1 DEF Eager, PteShape
<1>3. /\ c \notin alive /\ alive' = alive \cup {c} /\ c # cr3
      /\ \A p \in Pages : Retainable(Here(p))
      /\ tlb' = NoTlb /\ UNCHANGED <<cr3, split>>
  BY <1>0 DEF Fork, Flush
<1>4. /\ pte' = [pte EXCEPT ![cr3] = [p \in Pages |-> Shared(Here(p))],
                             ![c] = [p \in Pages |-> Shared(Here(p))]]
      /\ refs' = [f \in Frames |-> refs[f] + Cardinality(PagesOf(cr3, f))]
      /\ content' = content
  <2>1. \A p \in Pages : p \notin Eager(cr3)  BY <1>2
  <2>2. pte' = [pte EXCEPT ![cr3] = [p \in Pages |-> Shared(Here(p))],
                            ![c] = [p \in Pages |->
                               IF p \in Eager(cr3) THEN [Here(p) EXCEPT !.frame = g[p]]
                               ELSE Shared(Here(p))]]
    BY DEF Fork
  <2>3. [p \in Pages |-> IF p \in Eager(cr3) THEN [Here(p) EXCEPT !.frame = g[p]]
                         ELSE Shared(Here(p))] = [p \in Pages |-> Shared(Here(p))]
    BY <2>1
  <2>4. refs' = [f \in Frames |-> refs[f] + Cardinality(PagesOf(cr3, f))]
    BY <1>2 DEF Fork
  <2>5. content' = [f \in Frames |-> content[f]]
    BY <1>2 DEF Fork
  <2> QED  BY <1>0, <2>2, <2>3, <2>4, <2>5
<1> QED  BY <1>3, <1>4

LEMMA ForkInv ==
    ASSUME IInv, Accessible, ~ Resuming, NEW c \in Spaces, NEW g, Fork(c, g)
    PROVE  IInv'
<1>0. /\ cr3 \in alive /\ alive \subseteq Spaces /\ pte \in [Spaces -> [Pages -> Pte]]
      /\ refs \in [Frames -> 0 .. MaxRefs] /\ MaxRefs \in Nat \ {0}
      /\ content \in [Frames -> Values]
      /\ \A s \in Spaces, p \in Pages : PteShape(pte[s][p])
      /\ RefsMatchOwners /\ MarkedOrAlone /\ SamePage
      /\ DeadAreEmpty /\ TlbAgrees /\ SplitAgrees
  BY VmmAssumption DEF IInv, TypeOK, VmmInv
<1>1. \A p \in Pages : Here(p) \in Pte /\ PteShape(Here(p)) /\ Here(p) = pte[cr3][p]
  BY <1>0 DEF Here
<1>3. /\ c \notin alive /\ alive' = alive \cup {c} /\ c # cr3
      /\ \A p \in Pages : Retainable(Here(p))
      /\ tlb' = NoTlb /\ UNCHANGED <<cr3, split>>
  BY ForkEffect
<1>4. /\ pte' = [pte EXCEPT ![cr3] = [p \in Pages |-> Shared(Here(p))],
                             ![c] = [p \in Pages |-> Shared(Here(p))]]
      /\ refs' = [f \in Frames |-> refs[f] + Cardinality(PagesOf(cr3, f))]
      /\ content' = content
  BY ForkEffect
<1>5. /\ pte' \in [Spaces -> [Pages -> Pte]]
      /\ \A s \in Spaces \ {cr3, c} : pte'[s] = pte[s]
      /\ \A p \in Pages : pte'[cr3][p] = Shared(Here(p)) /\ pte'[c][p] = Shared(Here(p))
  BY <1>0, <1>1, <1>3, <1>4, EntryFacts
<1>6. \A p \in Pages :
          /\ PteShape(Shared(Here(p))) /\ Shared(Here(p)).frame = Here(p).frame
          /\ Shared(Here(p)).owned = Here(p).owned
          /\ Here(p).owned => Shared(Here(p)).cow
          /\ UserOwned(Here(p)) <=> Here(p).owned
  BY <1>1, SharedFacts
\* The child owns what the parent owns, everything else is as it was.
<1>7. \A p \in Pages : ~ Owns(c, p, pte[c][p].frame) /\ ~ pte[c][p].owned
  BY <1>0, <1>3 DEF DeadAreEmpty, Owns, NoPte
<1>8. \A s \in Spaces, p \in Pages : \A f :
          Owns(s, p, f)' <=> IF s = c THEN Owns(cr3, p, f) ELSE Owns(s, p, f)
  <2>1. \A p \in Pages : \A f : Owning(Shared(Here(p)), f) <=> Owning(Here(p), f)
    BY <1>6 DEF Owning, Mapped
  <2>2. \A s \in Spaces, p \in Pages : \A f :
            /\ Owns(s, p, f) <=> Owning(pte[s][p], f)
            /\ Owns(s, p, f)' <=> Owning(pte'[s][p], f)
    BY DEF Owns, Owning, Mapped, NoFrame
  <2> TAKE s \in Spaces, p \in Pages
  <2> TAKE f
  <2>3. CASE s \in {c, cr3}
    <3>1. pte'[s][p] = Shared(Here(p))  BY <1>5, <2>3
    <3> QED  BY <1>0, <1>1, <2>1, <2>2, <2>3, <3>1
  <2>4. CASE s \notin {c, cr3}
    BY <1>5, <2>2, <2>4
  <2> QED  BY <2>3, <2>4
<1>9. \A s \in Spaces, p \in Pages : pte[s][p].owned => Mapped(pte[s][p])
  BY <1>0 DEF PteShape
<1>10. ASSUME NEW f \in Frames
       PROVE  /\ refs'[f] = Cardinality(Owners(f)') + IF f = MemfdFrame THEN 1 ELSE 0
              /\ refs'[f] \in 0 .. MaxRefs
  <2>1. refs[f] = Cardinality(Owners(f)) + IF f = MemfdFrame THEN 1 ELSE 0
    BY <1>0 DEF RefsMatchOwners
  <2>2. IsFiniteSet(Owners(f)) /\ Cardinality(Owners(f)) \in Nat
    BY OwnersCount, OwnersAre
  <2>3. refs'[f] = refs[f] + Cardinality(PagesOf(cr3, f)) /\ refs[f] \in 0 .. MaxRefs
    BY <1>0, <1>4
  <2>4. \A p \in Pages : p \in PagesOf(cr3, f) <=> Owns(cr3, p, f)
    BY <1>1, <1>6, <1>9, <1>0 DEF PagesOf, Owns
  <2>5. Owners(f)' = {sp \in Spaces \X Pages : Owns(sp[1], sp[2], f)'}
    BY DEF Owners
  <2>6. CASE PagesOf(cr3, f) = {}
    <3>1. Owners(f)' = Owners(f)
      <4>1. \A p \in Pages : ~ Owns(c, p, f)
        BY <1>7 DEF Owns
      <4>2. \A p \in Pages : ~ Owns(cr3, p, f)  BY <2>4, <2>6
      <4> QED  BY <1>8, <2>5, <4>1, <4>2 DEF Owners
    <3>2. Cardinality(PagesOf(cr3, f)) = 0  BY <2>6, FS_EmptySet
    <3> QED  BY <1>0, <2>1, <2>3, <3>1, <3>2
  <2>7. ASSUME NEW p \in PagesOf(cr3, f)
        PROVE  /\ refs'[f] = Cardinality(Owners(f)') + IF f = MemfdFrame THEN 1 ELSE 0
               /\ refs'[f] \in 0 .. MaxRefs
    <3>1. /\ p \in Pages /\ Owns(cr3, p, f) /\ UserOwned(Here(p))
          /\ pte[cr3][p].owned /\ pte[cr3][p].frame = f
      BY <1>1 DEF PagesOf, Owns, UserOwned, Here
    <3>2. \A q \in Pages : Owns(cr3, q, f) => q = p
      BY <1>0, <3>1 DEF SamePage
    <3>3. PagesOf(cr3, f) = {p}
      <4>1. PagesOf(cr3, f) \subseteq Pages  BY DEF PagesOf
      <4> QED  BY <2>4, <3>1, <3>2, <4>1
    <3>4. Cardinality(PagesOf(cr3, f)) = 1  BY <3>3, FS_Singleton
    <3>5. \A q \in Pages : ~ Owns(c, q, f)  BY <1>7 DEF Owns
    <3>6. Owners(f)' = Owners(f) \cup {<<c, p>>}
      BY <1>8, <2>5, <3>1, <3>2, <3>5 DEF Owners
    <3>7. <<c, p>> \notin Owners(f)  BY <3>1, <3>5 DEF Owners
    <3>8. Cardinality(Owners(f) \cup {<<c, p>>}) = Cardinality(Owners(f)) + 1
      BY <2>2, <3>7, FS_AddElement
    <3>9. refs[f] < MaxRefs
      BY <1>1, <1>3, <3>1 DEF Retainable
    <3> QED  BY <1>0, <2>1, <2>2, <2>3, <3>4, <3>6, <3>8, <3>9
  <2> QED  BY <2>6, <2>7
<1>11. RefsMatchOwners'  BY <1>10 DEF RefsMatchOwners
<1>12. \A s \in Spaces, p \in Pages : PteShape(pte'[s][p])
  BY <1>0, <1>5, <1>6
\* A page of a third space that is alone is not the parent's, so it stays alone.
<1>13. ASSUME NEW s \in Spaces \ {cr3, c}, NEW p \in Pages, pte[s][p].owned, Alone(s, p)
       PROVE  Alone(s, p)'
  <2>1. \A q \in Pages : ~ Owns(cr3, q, pte[s][p].frame)
    BY <1>0, <1>13 DEF Alone
  <2> QED  BY <1>5, <1>8, <1>13, <2>1 DEF Alone
<1>14. MarkedOrAlone'
  <2> SUFFICES ASSUME NEW s \in Spaces, NEW p \in Pages,
                      pte'[s][p].owned, ~ pte'[s][p].cow
               PROVE  Alone(s, p)'
    BY DEF MarkedOrAlone
  <2>1. s \notin {cr3, c}  BY <1>5, <1>6
  <2> QED  BY <1>0, <1>5, <1>13, <2>1 DEF MarkedOrAlone
<1>15. SamePage'
  <2> SUFFICES ASSUME NEW s \in Spaces, NEW t \in Spaces, NEW p \in Pages, NEW q \in Pages,
                      pte'[s][p].owned, Owns(t, q, pte[s][p].frame)'
               PROVE  p = q
    BY DEF SamePage
  <2> DEFINE s0 == IF s = c THEN cr3 ELSE s
             t0 == IF t = c THEN cr3 ELSE t
  <2>1. s0 \in Spaces /\ t0 \in Spaces  BY <1>0
  <2>2. pte[s0][p].owned /\ pte[s0][p].frame = pte'[s][p].frame
    <3>1. CASE s \in {c, cr3}  BY <1>1, <1>5, <1>6, <3>1
    <3>2. CASE s \notin {c, cr3}  BY <1>5, <3>2
    <3> QED  BY <3>1, <3>2
  <2>3. Owns(t0, q, pte'[s][p].frame)  BY <1>8
  <2> HIDE DEF s0, t0
  <2> QED  BY <1>0, <2>1, <2>2, <2>3 DEF SamePage
<1>16. TlbAgrees'
  <2>1. \A q \in Pages : ~ Mapped(NoTlb[q])  BY DEF NoTlb, NoPte, Mapped
  <2> QED  BY <1>3, <2>1 DEF TlbAgrees
<1>17. DeadAreEmpty'  BY <1>0, <1>3, <1>5 DEF DeadAreEmpty
<1>18. SplitAgrees'
  <2>1. CASE split = NoSplit  BY <1>3, <2>1 DEF SplitAgrees, NoSplit
  <2>2. CASE split # NoSplit
    <3>1. /\ split.space \in Spaces \ {cr3, c} /\ split.page \in Pages
          /\ split.space \in alive /\ pte[split.space][split.page] = split.old
          /\ Resolvable(split.old, TRUE) /\ split.refs > 0
          /\ split.refs = 1 => Alone(split.space, split.page)
      BY <1>0, <1>3, <2>2 DEF SplitAgrees, Resuming, IInv, TypeOK
    <3>2. pte[split.space][split.page].owned  BY <3>1 DEF Resolvable
    <3>3. split.refs = 1 => Alone(split.space, split.page)'
      <4>1. split.refs = 1 => Alone(split.space, split.page) /\ split' = split
        BY <1>3, <3>1
      <4>2. \A s \in Spaces \ {cr3, c}, q \in Pages :
                pte[s][q].owned /\ Alone(s, q) => Alone(s, q)'
        BY <1>13
      <4>3. \A s \in Spaces \ {cr3, c}, q \in Pages, t \in Spaces, r \in Pages :
                /\ pte[s][q].owned /\ Alone(s, q) /\ Owns(t, r, pte[s][q].frame)'
                => t = s /\ r = q
        BY <1>5, <4>2 DEF Alone
      <4>4. pte'[split.space][split.page] = pte[split.space][split.page]
        BY <1>5, <3>1
      <4> QED  BY <3>1, <3>2, <4>1, <4>3, <4>4 DEF Alone
    <3>4. pte'[split.space][split.page] = split.old  BY <1>5, <3>1
    <3> QED  BY <1>3, <3>1, <3>3, <3>4 DEF SplitAgrees
  <2> QED  BY <2>1, <2>2
<1>19. refs' \in [Frames -> 0 .. MaxRefs]  BY <1>4, <1>10
<1>20. TypeOK'
  BY <1>0, <1>3, <1>4, <1>5, <1>19, EntryFacts DEF IInv, TypeOK, NoTlb
<1> QED  BY <1>11, <1>12, <1>14, <1>15, <1>16, <1>17, <1>18, <1>20 DEF IInv, VmmInv

-----------------------------------------------------------------------------
(* The specification.                                                      *)

LEMMA InitInv == Init => IInv
<1> SUFFICES ASSUME Init PROVE IInv
  OBVIOUS
<1>1. PteShape(NoPte) /\ ~ NoPte.owned /\ ~ Mapped(NoPte) /\ NoPte \in Pte
  BY EntryFacts DEF PteShape, NoPte, Mapped
<1>2. /\ \A s \in Spaces, p \in Pages : pte[s][p] = NoPte
      /\ alive = {Boot} /\ cr3 = Boot /\ tlb = NoTlb /\ split = NoSplit
      /\ refs = [f \in Frames |-> IF f = MemfdFrame THEN 1 ELSE 0]
  BY DEF Init
<1>3. NoSplit \in [space : Spaces, page : Pages, old : Pte, refs : 0 .. MaxRefs]
  BY EntryFacts, BoundFacts, VmmAssumption DEF NoSplit
<1>4. refs \in [Frames -> 0 .. MaxRefs]
  <2>1. 0 \in 0 .. MaxRefs /\ 1 \in 0 .. MaxRefs  BY VmmAssumption
  <2> QED  BY <1>2, <2>1
<1>5. TypeOK
  BY <1>1, <1>2, <1>3, <1>4, VmmAssumption DEF Init, TypeOK, NoTlb
<1>6. \A s \in Spaces, p \in Pages : \A f : ~ Owns(s, p, f)
  BY <1>1, <1>2 DEF Owns
<1>7. RefsMatchOwners
  <2> SUFFICES ASSUME NEW f \in Frames
               PROVE  refs[f] = Cardinality(Owners(f)) + IF f = MemfdFrame THEN 1 ELSE 0
    BY DEF RefsMatchOwners
  <2>1. Owners(f) = {}  BY <1>6 DEF Owners
  <2>2. Cardinality(Owners(f)) = 0  BY <2>1, FS_EmptySet
  <2> QED  BY <1>2, <2>2
<1>8. MarkedOrAlone /\ SamePage  BY <1>1, <1>2 DEF MarkedOrAlone, SamePage
<1>9. TlbAgrees  BY <1>1, <1>2 DEF TlbAgrees, NoTlb
<1>10. DeadAreEmpty  BY DEF Init, DeadAreEmpty
<1>11. SplitAgrees  BY <1>2 DEF SplitAgrees
<1>12. \A s \in Spaces, p \in Pages : PteShape(pte[s][p])  BY <1>1, <1>2
<1> QED  BY <1>5, <1>7, <1>8, <1>9, <1>10, <1>11, <1>12 DEF IInv, VmmInv

LEMMA NextInv ==
    ASSUME Accessible, "threads" \notin Ops, IInv, [Next]_vars
    PROVE  IInv'
<1>1. CASE Running /\ PageStep
  <2>1. ~ Resuming  BY <1>1 DEF Running
  <2>2. PICK p \in Pages :
            \/ Unmap(p) \/ Load(p) \/ ResolveRead(p)
            \/ \E prot \in Protections : MapShared(p, prot)
            \/ \E prot \in Protections, f \in Frames : Map(p, prot, f)
            \/ \E prot \in Protections, f \in 0 .. NFrames : Protect(p, prot, f)
            \/ \E f \in 0 .. NFrames : Advise(p, f) \/ Fault(p, f)
            \/ \E v \in Values : Store(p, v) \/ KernelWrite(p, v)
    BY <1>1 DEF PageStep
  <2>3. CASE Unmap(p)
    <3>1. NoPte \in Pte /\ PteShape(NoPte) /\ ~ NoPte.owned
      BY EntryFacts, ShapeFacts
    <3>2. /\ refs' = Freed(Here(p), refs) /\ pte' = [pte EXCEPT ![cr3][p] = NoPte]
          /\ tlb' = Invlpg(p) /\ UNCHANGED <<alive, content, cr3, split>>
      BY <2>3 DEF Unmap
    <3> QED  BY <2>1, <3>1, <3>2, ReleaseInv
  <2>4. ASSUME NEW prot \in Protections, MapShared(p, prot)
        PROVE  IInv'
    <3> DEFINE e == Permit(Borrowed, prot)
    <3>1. e \in Pte /\ PteShape(e) /\ ~ e.owned
      BY EntryFacts, ShapeFacts
    <3>2. /\ refs' = Freed(Here(p), refs) /\ pte' = [pte EXCEPT ![cr3][p] = e]
          /\ tlb' = Invlpg(p) /\ UNCHANGED <<alive, content, cr3, split>>
      BY <2>4 DEF MapShared
    <3> HIDE DEF e
    <3> QED  BY <2>1, <3>1, <3>2, ReleaseInv
  <2>5. CASE Load(p) \/ \E v \in Values : Store(p, v) \/ KernelWrite(p, v)
    BY <2>5, LoadStoreInv
  <2>6. CASE ResolveRead(p)  BY <2>6, ResolveReadInv
  <2>7. CASE \E prot \in Protections, f \in Frames : Map(p, prot, f)
    BY <2>1, <2>7, MapInv
  <2>8. CASE \E prot \in Protections, f \in 0 .. NFrames : Protect(p, prot, f)
    BY <2>1, <2>8, ProtectInv
  <2>9. CASE \E f \in 0 .. NFrames : Advise(p, f) \/ Fault(p, f)
    BY <2>1, <2>9, AdviseInv, FaultInv
  <2> QED  BY <2>2, <2>3, <2>4, <2>5, <2>6, <2>7, <2>8, <2>9
<1>2. CASE Running /\ CloneStep
  <2>1. ~ Resuming  BY <1>2 DEF Running
  <2>2. CASE \E c \in Spaces : Create(c)  BY <2>2, CreateInv
  <2>3. CASE \E c \in Spaces : \E g \in [Eager(cr3) -> Frames] : Fork(c, g)
    BY <2>1, <2>3, ForkInv
  <2>4. CASE \E k \in 0 .. NPages : ForkFails(k)
    BY <2>1, <2>4, ForkFailsInv
  <2> QED  BY <1>2, <2>2, <2>3, <2>4 DEF CloneStep
<1>3. CASE \E s \in Spaces : Destroy(s) \/ Switch(s)
  BY <1>3, DestroyInv, SwitchInv
<1>4. CASE \E f \in 0 .. NFrames : ResolveWrite(f)
  BY <1>4, ResolveWriteInv
<1>5. CASE ResolveFails
  <2>1. /\ split' = NoSplit /\ UNCHANGED <<alive, pte, refs, content, cr3, tlb>>
    BY <1>5 DEF ResolveFails
  <2>2. content \in [Frames -> Values] /\ tlb \in [Pages -> Pte]
    BY DEF IInv, TypeOK
  <2> QED  BY <2>1, <2>2, AccessInv
<1>6. CASE UNCHANGED vars
  <2>1. UNCHANGED <<alive, pte, refs, content, cr3, tlb, split>>  BY <1>6 DEF vars
  <2>2. content \in [Frames -> Values] /\ tlb \in [Pages -> Pte]
    BY DEF IInv, TypeOK
  <2> QED  BY <2>1, <2>2, AccessInv
<1> QED  BY <1>1, <1>2, <1>3, <1>4, <1>5, <1>6 DEF Next

\* The state of the allocator, the page tables and the TLB keeps its type: in
\* particular no reference count passes UINT16_MAX or wraps below zero.
THEOREM VmmTypeOK ==
    ASSUME Accessible, "threads" \notin Ops
    PROVE  Spec => []TypeOK
<1>1. Init => IInv  BY InitInv
<1>2. IInv /\ [Next]_vars => IInv'  BY NextInv
<1>3. IInv => TypeOK  BY DEF IInv
<1> QED  BY <1>1, <1>2, <1>3, PTL DEF Spec

\* The inductive invariant of the page tables, the reference counts and the TLB.
THEOREM VmmInvariant ==
    ASSUME Accessible, "threads" \notin Ops
    PROVE  Spec => []VmmInv
<1>1. Init => IInv  BY InitInv
<1>2. IInv /\ [Next]_vars => IInv'  BY NextInv
<1>3. IInv => VmmInv  BY DEF IInv
<1> QED  BY <1>1, <1>2, <1>3, PTL DEF Spec

\* A frame's reference count is always the number of page table entries that
\* own it, and in range: fork, exec, exit, munmap and copy-on-write faults, in any
\* order and number of processes, never free a frame that is in use or lose one.
THEOREM RefsCounted ==
    ASSUME Accessible, "threads" \notin Ops
    PROVE  Spec => []RefsSafe
<1>1. Spec => []VmmInv  BY VmmInvariant
<1>2. Spec => []TypeOK  BY VmmTypeOK
<1>3. TypeOK /\ VmmInv => RefsSafe  BY DEF VmmInv, RefsSafe
<1> QED  BY <1>1, <1>2, <1>3, PTL

\* A page that can be written without a fault has its frame to itself.
THEOREM WritersAlone ==
    ASSUME Accessible, "threads" \notin Ops
    PROVE  Spec => []WritableIsExclusive
<1>1. Spec => []VmmInv  BY VmmInvariant
<1>2. VmmInv => WritableIsExclusive
  BY DEF VmmInv, WritableIsExclusive, MarkedOrAlone, PteShape
<1> QED  BY <1>1, <1>2, PTL

-----------------------------------------------------------------------------
(* Vmm implements PrivateMemory: whatever programs do, fork, exec, faults, *)
(* copy-on-write and the TLB are invisible to them.  Kernel stores to user *)
(* buffers are left out: they break it, see README.md.                     *)

\* What an entry shows when the frames hold c, and what all of them show.
ViewIn(e, c) ==
    IF ~ Mapped(e) THEN [kind |-> "none", value |-> Zero]
    ELSE IF e.owned THEN [kind |-> "private", value |-> c[e.frame]]
    ELSE [kind |-> "shared", value |-> Zero]
Contents(t, c) == [s \in Spaces |-> [p \in Pages |-> ViewIn(t[s][p], c)]]

\* The TLB makes no difference: programs see what the entries say.
LEMMA ViewIs == IInv => memView = Contents(pte, content)
<1> SUFFICES ASSUME IInv PROVE memView = Contents(pte, content)
  OBVIOUS
<1>1. ASSUME NEW s \in Spaces, NEW p \in Pages
      PROVE  ViewOf(Seen(s, p)) = ViewIn(pte[s][p], content)
  <2>1. CASE s = cr3 /\ Mapped(tlb[p])
    <3>1. /\ tlb[p].frame = pte[s][p].frame /\ tlb[p].owned = pte[s][p].owned
          /\ Seen(s, p) = tlb[p]
      BY <2>1 DEF IInv, VmmInv, TlbAgrees, Here, Seen
    <3> QED  BY <3>1 DEF ViewOf, ViewIn, Mapped
  <2>2. CASE ~ (s = cr3 /\ Mapped(tlb[p]))
    BY <2>2 DEF Seen, ViewOf, ViewIn
  <2> QED  BY <2>1, <2>2
<1> QED  BY <1>1 DEF memView, Contents

LEMMA ViewIsNext == IInv' => memView' = Contents(pte', content')
<1>1. (IInv => memView = Contents(pte, content))'  BY ViewIs, PTL
<1>2. Contents(pte, content)' = Contents(pte', content')
  BY DEF Contents, ViewIn, Mapped, NoFrame
<1> QED  BY <1>1, <1>2

LEMMA Updated ==
    ASSUME NEW S, NEW T, NEW V, NEW h \in [S -> [T -> V]],
           NEW s \in S, NEW t \in T, NEW v
    PROVE  [h EXCEPT ![s][t] = v] =
               [a \in S |-> [b \in T |-> IF a = s /\ b = t THEN v ELSE h[a][b]]]
<1>1. h[s] \in [T -> V]  OBVIOUS
<1>2. [h[s] EXCEPT ![t] = v] = [b \in T |-> IF b = t THEN v ELSE h[s][b]]
  BY <1>1
<1>3. [h EXCEPT ![s][t] = v] = [a \in S |-> IF a = s THEN [h[s] EXCEPT ![t] = v] ELSE h[a]]
  OBVIOUS
<1>4. \A a \in S : h[a] = [b \in T |-> h[a][b]]  OBVIOUS
<1>5. ASSUME NEW a \in S
      PROVE  (IF a = s THEN [h[s] EXCEPT ![t] = v] ELSE h[a]) =
                 [b \in T |-> IF a = s /\ b = t THEN v ELSE h[a][b]]
  <2>1. CASE a = s  BY <1>2, <2>1
  <2>2. CASE a # s  BY <1>4, <2>2
  <2> QED  BY <2>1, <2>2
<1> QED  BY <1>3, <1>5

\* When one entry changes and frames change only where nobody else looks, one
\* page of one space changes its look, and the memfd's page does not.
LEMMA PageView ==
    ASSUME IInv, NEW p \in Pages, NEW e, pte' = [pte EXCEPT ![cr3][p] = e],
           \A g \in Frames : content'[g] # content[g] =>
               g # MemfdFrame /\ \A t \in Spaces, q \in Pages :
                                     Owns(t, q, g) => t = cr3 /\ q = p
    PROVE  /\ Contents(pte', content') =
                  [Contents(pte, content) EXCEPT ![cr3][p] = ViewIn(e, content')]
           /\ content'[MemfdFrame] = content[MemfdFrame]
<1>0. cr3 \in Spaces /\ pte \in [Spaces -> [Pages -> Pte]]
  BY DEF IInv, TypeOK
<1>1. ASSUME NEW s \in Spaces, NEW q \in Pages, ~ (s = cr3 /\ q = p)
      PROVE  ViewIn(pte'[s][q], content') = ViewIn(pte[s][q], content)
  <2>1. pte'[s][q] = pte[s][q] /\ pte[s][q] \in Pte  BY <1>0, <1>1
  <2>2. CASE Mapped(pte[s][q]) /\ pte[s][q].owned
    <3>1. pte[s][q].frame \in Frames /\ Owns(s, q, pte[s][q].frame)
      BY <2>1, <2>2, BoundFacts DEF Pte, Mapped, Owns
    <3>2. content'[pte[s][q].frame] = content[pte[s][q].frame]  BY <1>1, <3>1
    <3> QED  BY <2>1, <3>2 DEF ViewIn
  <2>3. CASE ~ (Mapped(pte[s][q]) /\ pte[s][q].owned)
    BY <2>1, <2>3 DEF ViewIn
  <2> QED  BY <2>2, <2>3
<1>2. pte'[cr3][p] = e  BY <1>0
<1>3. Contents(pte', content') =
          [Contents(pte, content) EXCEPT ![cr3][p] = ViewIn(e, content')]
  <2> DEFINE old == Contents(pte, content)
             new == [s \in Spaces |-> [q \in Pages |->
                        IF s = cr3 /\ q = p THEN ViewIn(e, content') ELSE old[s][q]]]
             V == {ViewIn(pte[s][q], content) : s \in Spaces, q \in Pages}
  <2>1. old \in [Spaces -> [Pages -> V]]
    BY DEF Contents
  <2>2. [old EXCEPT ![cr3][p] = ViewIn(e, content')] = new
    <3> HIDE DEF old, V
    <3>1. [old EXCEPT ![cr3][p] = ViewIn(e, content')] =
              [a \in Spaces |-> [b \in Pages |->
                  IF a = cr3 /\ b = p THEN ViewIn(e, content') ELSE old[a][b]]]
      BY <1>0, <2>1, Updated
    <3> QED  BY <3>1
  <2>3. \A s \in Spaces, q \in Pages : old[s][q] = ViewIn(pte[s][q], content)
    BY DEF Contents
  <2>4. \A s \in Spaces, q \in Pages :
            new[s][q] = IF s = cr3 /\ q = p THEN ViewIn(e, content') ELSE old[s][q]
    OBVIOUS
  <2>5. Contents(pte', content') = new
    <3> HIDE DEF old
    <3>1. \A s \in Spaces, q \in Pages :
              ViewIn(pte'[s][q], content') =
                  IF s = cr3 /\ q = p THEN ViewIn(e, content') ELSE old[s][q]
      BY <1>1, <1>2, <2>3
    <3> QED  BY <3>1 DEF Contents
  <2> QED  BY <2>2, <2>5
<1>4. content'[MemfdFrame] = content[MemfdFrame]  BY BoundFacts
<1> QED  BY <1>3, <1>4

\* A page that looks as before.
LEMMA SameView ==
    ASSUME IInv, NEW p \in Pages, NEW v, v = ViewIn(Here(p), content)
    PROVE  [Contents(pte, content) EXCEPT ![cr3][p] = v] = Contents(pte, content)
<1>1. Contents(pte, content)[cr3][p] = v
  BY DEF IInv, TypeOK, Contents, Here
<1>2. Contents(pte, content) \in
          [Spaces -> [Pages -> {ViewIn(pte[s][q], content) : s \in Spaces, q \in Pages}]]
  BY DEF Contents
<1> HIDE DEF Contents
<1> QED  BY <1>1, <1>2

\* Copying a page on write changes nothing anybody sees.
LEMMA CopyView ==
    ASSUME IInv, NEW p \in Pages, NEW force \in BOOLEAN, NEW n \in Nat,
           NEW f \in 0 .. NFrames, Resolvable(Here(p), force),
           CopyTo(Here(p), force, n, f)
    PROVE  /\ \A g \in Frames : ContentAfterCopy(Here(p), f)[g] # content[g] =>
                  /\ g # MemfdFrame
                  /\ \A t \in Spaces, q \in Pages : ~ Owns(t, q, g)
           /\ ContentAfterCopy(Here(p), f)[Resolved(Here(p), force, f).frame] =
                  content[Here(p).frame]
           /\ Mapped(Resolved(Here(p), force, f)) /\ Resolved(Here(p), force, f).owned
<1>0. /\ Here(p) \in Pte /\ content \in [Frames -> Values] /\ RefsMatchOwners
      /\ Mapped(Here(p)) /\ Here(p).owned
  BY DEF IInv, TypeOK, VmmInv, Here, Resolvable
<1>1. /\ Resolved(Here(p), force, f).frame = IF f = NoFrame THEN Here(p).frame ELSE f
      /\ Resolved(Here(p), force, f).owned
  BY <1>0 DEF Resolved, Pte
<1>2. CASE f = NoFrame
  BY <1>0, <1>1, <1>2 DEF ContentAfterCopy, Mapped
<1>3. CASE f # NoFrame
  <2>1. f \in Frames /\ refs[f] = 0  BY <1>3 DEF CopyTo, FirstFree
  <2>2. f # MemfdFrame /\ \A t \in Spaces, q \in Pages : ~ Owns(t, q, f)
    BY <1>0, <2>1, CountFacts
  <2>3. ContentAfterCopy(Here(p), f) = [content EXCEPT ![f] = content[Here(p).frame]]
    BY <1>3 DEF ContentAfterCopy
  <2> QED  BY <1>0, <1>1, <1>3, <2>1, <2>2, <2>3 DEF Mapped
<1> QED  BY <1>2, <1>3

LEMMA ResolveView ==
    ASSUME IInv, NEW p \in Pages, NEW force \in BOOLEAN, NEW n \in Nat,
           NEW f \in 0 .. NFrames, Resolvable(Here(p), force),
           CopyTo(Here(p), force, n, f), NEW e,
           \/ e = Resolved(Here(p), force, f)
           \/ e = Permit(Resolved(Here(p), force, f), "rw"),
           pte' = [pte EXCEPT ![cr3][p] = e],
           content' = ContentAfterCopy(Here(p), f)
    PROVE  /\ Contents(pte', content') = Contents(pte, content)
           /\ content'[MemfdFrame] = content[MemfdFrame]
<1>1. /\ \A g \in Frames : content'[g] # content[g] =>
             g # MemfdFrame /\ \A t \in Spaces, q \in Pages : ~ Owns(t, q, g)
      /\ content'[Resolved(Here(p), force, f).frame] = content[Here(p).frame]
      /\ Mapped(Resolved(Here(p), force, f)) /\ Resolved(Here(p), force, f).owned
  BY CopyView
<1>2. Resolved(Here(p), force, f) \in Pte
  BY EntryFacts DEF IInv, TypeOK, Here
<1>3. /\ e.frame = Resolved(Here(p), force, f).frame
      /\ e.owned = Resolved(Here(p), force, f).owned
  BY <1>2 DEF Permit, Pte
<1>4. Mapped(Here(p)) /\ Here(p).owned  BY DEF Resolvable
<1>5. ViewIn(e, content') = ViewIn(Here(p), content)
  BY <1>1, <1>3, <1>4 DEF ViewIn, Mapped
<1>6. /\ Contents(pte', content') =
             [Contents(pte, content) EXCEPT ![cr3][p] = ViewIn(e, content')]
      /\ content'[MemfdFrame] = content[MemfdFrame]
  BY <1>1, PageView
<1> QED  BY <1>5, <1>6, SameView

-----------------------------------------------------------------------------
(* Steps.                                                                  *)

MemoryVars == <<memView, content[MemfdFrame]>>

\* Entries may change as long as each shows what it showed.
LEMMA SameContents ==
    ASSUME IInv, IInv', content'[MemfdFrame] = content[MemfdFrame],
           \A s \in Spaces, p \in Pages :
               ViewIn(pte'[s][p], content') = ViewIn(pte[s][p], content)
    PROVE  UNCHANGED MemoryVars
<1>1. Contents(pte', content') = Contents(pte, content)  BY DEF Contents
<1>2. memView' = memView  BY <1>1, ViewIs, ViewIsNext
<1> QED  BY <1>2 DEF MemoryVars

LEMMA ResolveStutters ==
    ASSUME IInv, IInv', NEW p \in Pages, NEW force \in BOOLEAN, NEW n \in Nat,
           NEW f \in 0 .. NFrames, Resolvable(Here(p), force),
           CopyTo(Here(p), force, n, f), NEW e,
           \/ e = Resolved(Here(p), force, f)
           \/ e = Permit(Resolved(Here(p), force, f), "rw"),
           pte' = [pte EXCEPT ![cr3][p] = e],
           content' = ContentAfterCopy(Here(p), f)
    PROVE  UNCHANGED MemoryVars
<1>1. /\ Contents(pte', content') = Contents(pte, content)
      /\ content'[MemfdFrame] = content[MemfdFrame]
  BY ResolveView
<1>2. memView' = memView  BY <1>1, ViewIs, ViewIsNext
<1> QED  BY <1>1, <1>2 DEF MemoryVars

\* One page takes another look.
LEMMA PageChanges ==
    ASSUME IInv, IInv', NEW p \in Pages, NEW e, pte' = [pte EXCEPT ![cr3][p] = e],
           \A g \in Frames : content'[g] # content[g] =>
               g # MemfdFrame /\ \A t \in Spaces, q \in Pages :
                                     Owns(t, q, g) => t = cr3 /\ q = p
    PROVE  /\ memView' = [memView EXCEPT ![cr3][p] = ViewIn(e, content')]
           /\ content'[MemfdFrame] = content[MemfdFrame]
BY PageView, ViewIs, ViewIsNext

LEMMA MapRefines ==
    ASSUME IInv, IInv', NEW p \in Pages, NEW prot, NEW f \in Frames, Map(p, prot, f)
    PROVE  Memory!Map(cr3, p)
<1> DEFINE e == Permit(Fresh(f), prot)
<1>1. /\ pte' = [pte EXCEPT ![cr3][p] = e] /\ content' = [content EXCEPT ![f] = Zero]
      /\ FirstFree(f, Freed(Here(p), refs))
  BY DEF Map
<1>2. content \in [Frames -> Values]  BY DEF IInv, TypeOK
<1>3. /\ f # MemfdFrame
      /\ \A t \in Spaces, q \in Pages : Owns(t, q, f) => t = cr3 /\ q = p
  BY <1>1, FreedFacts
<1>4. e.frame = f /\ e.owned  BY DEF Permit, Fresh, NoPte
<1>5. content'[f] = Zero  BY <1>1, <1>2
<1>6. f # NoFrame  BY BoundFacts
<1>7. ViewIn(e, content') = [kind |-> "private", value |-> Zero]
  <2> HIDE DEF e
  <2> QED  BY <1>4, <1>5, <1>6 DEF ViewIn, Mapped
<1>8. \A g \in Frames : content'[g] # content[g] =>
          g # MemfdFrame /\ \A t \in Spaces, q \in Pages :
                                Owns(t, q, g) => t = cr3 /\ q = p
  <2>1. \A g \in Frames : content'[g] # content[g] => g = f  BY <1>1, <1>2
  <2> QED  BY <1>3, <2>1
<1> HIDE DEF e
<1>9. /\ memView' = [memView EXCEPT ![cr3][p] = ViewIn(e, content')]
      /\ content'[MemfdFrame] = content[MemfdFrame]
  BY <1>1, <1>8, PageChanges
<1> QED  BY <1>7, <1>9 DEF Memory!Map, Memory!Private

LEMMA MapSharedRefines ==
    ASSUME IInv, IInv', NEW p \in Pages, NEW prot, MapShared(p, prot)
    PROVE  Memory!MapShared(cr3, p)
<1> DEFINE e == Permit(Borrowed, prot)
<1>1. pte' = [pte EXCEPT ![cr3][p] = e] /\ content' = content  BY DEF MapShared
<1>2. e.frame = MemfdFrame /\ ~ e.owned  BY DEF Permit, Borrowed, NoPte
<1> HIDE DEF e
<1>3. ViewIn(e, content') = [kind |-> "shared", value |-> Zero]
  BY <1>2, BoundFacts DEF ViewIn, Mapped
<1>4. /\ memView' = [memView EXCEPT ![cr3][p] = ViewIn(e, content')]
      /\ content'[MemfdFrame] = content[MemfdFrame]
  BY <1>1, PageChanges
<1> QED  BY <1>3, <1>4 DEF Memory!MapShared, Memory!Shared

LEMMA UnmapRefines ==
    ASSUME IInv, IInv', NEW p \in Pages, Unmap(p)
    PROVE  Memory!Unmap(cr3, p)
<1>1. pte' = [pte EXCEPT ![cr3][p] = NoPte] /\ content' = content  BY DEF Unmap
<1>2. ViewIn(NoPte, content') = [kind |-> "none", value |-> Zero]
  BY DEF ViewIn, Mapped, NoPte
<1>3. /\ memView' = [memView EXCEPT ![cr3][p] = ViewIn(NoPte, content')]
      /\ content'[MemfdFrame] = content[MemfdFrame]
  BY <1>1, PageChanges
<1> QED  BY <1>2, <1>3 DEF Memory!Unmap, Memory!Hole

\* A store to a page that has its frame to itself, or to the memfd's.
LEMMA WriteRefines ==
    ASSUME IInv, IInv', NEW p \in Pages, NEW v,
           Mapped(Here(p)), Here(p).owned => Alone(cr3, p),
           pte' = pte, content' = [content EXCEPT ![Here(p).frame] = v]
    PROVE  Memory!WritePrivate(cr3, p, v) \/ Memory!WriteShared(cr3, p, v)
<1>0. /\ pte \in [Spaces -> [Pages -> Pte]] /\ cr3 \in Spaces /\ Here(p) \in Pte
      /\ content \in [Frames -> Values] /\ PteShape(Here(p)) /\ Here(p) = pte[cr3][p]
  BY DEF IInv, TypeOK, VmmInv, Here
<1>1. Here(p).frame \in Frames  BY <1>0, BoundFacts DEF Pte, Mapped
<1>2. content'[Here(p).frame] = v  BY <1>0, <1>1
<1>3. \A g \in Frames : content'[g] # content[g] => g = Here(p).frame  BY <1>0
<1>4. memView = Contents(pte, content) /\ memView' = Contents(pte', content')
  BY ViewIs, ViewIsNext
<1>5. memView[cr3][p] = ViewIn(Here(p), content)
  BY <1>0, <1>4 DEF Contents
<1>6. CASE Here(p).owned
  <2>1. pte' = [pte EXCEPT ![cr3][p] = Here(p)]  BY <1>0
  <2>2. \A g \in Frames : content'[g] # content[g] =>
            g # MemfdFrame /\ \A t \in Spaces, q \in Pages :
                                  Owns(t, q, g) => t = cr3 /\ q = p
    <3>1. /\ Here(p).frame # MemfdFrame
          /\ \A t \in Spaces, q \in Pages :
                 Owns(t, q, Here(p).frame) => t = cr3 /\ q = p
      BY <1>0, <1>6 DEF PteShape, Alone
    <3> QED  BY <1>3, <3>1
  <2>3. /\ memView' = [memView EXCEPT ![cr3][p] = ViewIn(Here(p), content')]
        /\ content'[MemfdFrame] = content[MemfdFrame]
    BY <2>1, <2>2, PageChanges
  <2>4. ViewIn(Here(p), content') = [kind |-> "private", value |-> v]
    BY <1>2, <1>6 DEF ViewIn
  <2>5. memView[cr3][p].kind = "private"  BY <1>5, <1>6 DEF ViewIn
  <2> QED  BY <2>3, <2>4, <2>5 DEF Memory!WritePrivate, Memory!Private
<1>7. CASE ~ Here(p).owned
  <2>1. Here(p).frame = MemfdFrame  BY <1>0, <1>7 DEF PteShape
  <2>2. ASSUME NEW s \in Spaces, NEW q \in Pages
        PROVE  ViewIn(pte'[s][q], content') = ViewIn(pte[s][q], content)
    <3>1. pte[s][q] \in Pte /\ PteShape(pte[s][q])
      BY DEF IInv, TypeOK, VmmInv
    <3>2. CASE pte[s][q].owned
      <4>1. pte[s][q].frame \in Frames /\ pte[s][q].frame # MemfdFrame
        BY <3>1, <3>2, BoundFacts DEF PteShape, Mapped, Pte
      <4>2. content'[pte[s][q].frame] = content[pte[s][q].frame]
        BY <1>3, <2>1, <4>1
      <4> QED  BY <3>2, <4>2 DEF ViewIn
    <3>3. CASE ~ pte[s][q].owned  BY <3>3 DEF ViewIn
    <3> QED  BY <3>2, <3>3
  <2>3. memView' = memView  BY <1>4, <2>2 DEF Contents
  <2>4. content'[MemfdFrame] = v  BY <1>2, <2>1
  <2>5. memView[cr3][p].kind = "shared"  BY <1>5, <1>7 DEF ViewIn
  <2> QED  BY <2>3, <2>4, <2>5 DEF Memory!WriteShared
<1> QED  BY <1>6, <1>7

LEMMA StoreRefines ==
    ASSUME IInv, IInv', NEW p \in Pages, NEW v, Store(p, v)
    PROVE  Memory!WritePrivate(cr3, p, v) \/ Memory!WriteShared(cr3, p, v)
<1>0. PteShape(Here(p)) /\ cr3 \in Spaces
  BY DEF IInv, TypeOK, VmmInv, Here
<1>1. pte' = pte  BY DEF Store
<1>2. CASE Mapped(tlb[p]) /\ tlb[p].w
  <2>1. /\ tlb[p].frame = Here(p).frame
        /\ Here(p).owned => Alone(cr3, p)
    BY <1>2 DEF IInv, VmmInv, TlbAgrees
  <2>2. Mapped(Here(p))  BY <1>2, <2>1 DEF Mapped
  <2>3. content' = [content EXCEPT ![Here(p).frame] = v]
    BY <1>2, <2>1 DEF Store
  <2> QED  BY <1>1, <2>1, <2>2, <2>3, WriteRefines
<1>3. CASE ~ (Mapped(tlb[p]) /\ tlb[p].w)
  <2>1. /\ Mapped(Here(p)) /\ Here(p).w
        /\ content' = [content EXCEPT ![Here(p).frame] = v]
    BY <1>3 DEF Store
  <2>2. Here(p).owned => Alone(cr3, p)
    BY <1>0, <2>1 DEF PteShape, IInv, VmmInv, MarkedOrAlone, Here
  <2> QED  BY <1>1, <2>1, <2>2, WriteRefines
<1> QED  BY <1>2, <1>3

\* mprotect only copies.
LEMMA ProtectRefines ==
    ASSUME IInv, IInv', NEW p \in Pages, NEW prot, NEW f \in 0 .. NFrames,
           Protect(p, prot, f)
    PROVE  UNCHANGED MemoryVars
<1>0. PteShape(Here(p)) /\ Here(p) \in Pte
  BY DEF IInv, TypeOK, VmmInv, Here
<1>1. CASE prot = "rw" /\ Here(p).cow
  <2>1. Resolvable(Here(p), TRUE)  BY <1>0, <1>1 DEF Resolvable, PteShape
  <2>2. /\ CopyTo(Here(p), TRUE, refs[Here(p).frame], f)
        /\ pte' = [pte EXCEPT ![cr3][p] = Permit(Resolved(Here(p), TRUE, f), "rw")]
        /\ content' = ContentAfterCopy(Here(p), f)
    BY <1>1 DEF Protect
  <2>3. refs[Here(p).frame] \in Nat  BY <2>1, SoleOwner
  <2> QED  BY <2>1, <2>2, <2>3, ResolveStutters
<1>2. CASE ~ (prot = "rw" /\ Here(p).cow)
  <2> DEFINE e == Permit(Here(p), prot)
  <2>1. f = NoFrame /\ pte' = [pte EXCEPT ![cr3][p] = e]
    BY <1>2 DEF Protect
  <2>2. content' = content
    BY <2>1 DEF Protect, ContentAfterCopy
  <2>3. e.frame = Here(p).frame /\ e.owned = Here(p).owned
    BY <1>0 DEF Permit, Pte
  <2> HIDE DEF e
  <2>4. ViewIn(e, content') = ViewIn(Here(p), content)
    BY <2>2, <2>3 DEF ViewIn, Mapped
  <2>5. /\ Contents(pte', content') =
               [Contents(pte, content) EXCEPT ![cr3][p] = ViewIn(e, content')]
        /\ content'[MemfdFrame] = content[MemfdFrame]
    BY <2>1, <2>2, PageView
  <2>6. Contents(pte', content') = Contents(pte, content)
    BY <2>4, <2>5, SameView
  <2>7. memView' = memView  BY <2>6, ViewIs, ViewIsNext
  <2> QED  BY <2>5, <2>7 DEF MemoryVars
<1> QED  BY <1>1, <1>2

LEMMA FaultRefines ==
    ASSUME IInv, IInv', NEW p \in Pages, NEW f \in 0 .. NFrames, Fault(p, f)
    PROVE  UNCHANGED MemoryVars
<1>1. /\ Resolvable(Here(p), FALSE) /\ CopyTo(Here(p), FALSE, refs[Here(p).frame], f)
      /\ pte' = [pte EXCEPT ![cr3][p] = Resolved(Here(p), FALSE, f)]
      /\ content' = ContentAfterCopy(Here(p), f)
  BY DEF Fault
<1>2. refs[Here(p).frame] \in Nat  BY <1>1, SoleOwner
<1> QED  BY <1>1, <1>2, ResolveStutters

LEMMA ResolveWriteRefines ==
    ASSUME IInv, IInv', NEW f \in 0 .. NFrames, ResolveWrite(f)
    PROVE  UNCHANGED MemoryVars
<1> DEFINE p == split.page
<1>0. split \in [space : Spaces, page : Pages, old : Pte, refs : 0 .. MaxRefs]
  BY DEF IInv, TypeOK
<1>1. p \in Pages /\ Here(p) = split.old /\ Resolvable(Here(p), TRUE)
  BY <1>0 DEF ResolveWrite, Resuming, IInv, VmmInv, SplitAgrees, Here
<1>2. split.refs \in Nat  BY <1>0, VmmAssumption
<1>3. /\ CopyTo(Here(p), TRUE, split.refs, f)
      /\ pte' = [pte EXCEPT ![cr3][p] = Permit(Resolved(Here(p), TRUE, f), "rw")]
      /\ content' = ContentAfterCopy(Here(p), f)
  BY <1>1 DEF ResolveWrite
<1> HIDE DEF p
<1> QED  BY <1>1, <1>2, <1>3, ResolveStutters

\* MADV_DONTNEED is a store of zeroes.
LEMMA AdviseRefines ==
    ASSUME IInv, IInv', NEW p \in Pages, NEW f \in 0 .. NFrames, Advise(p, f)
    PROVE  Memory!WritePrivate(cr3, p, Zero)
<1> DEFINE e == Here(p)
           new == Resolved(e, TRUE, f)
<1>0. /\ e \in Pte /\ content \in [Frames -> Values] /\ PteShape(e) /\ e = pte[cr3][p]
      /\ cr3 \in Spaces /\ pte \in [Spaces -> [Pages -> Pte]]
  BY DEF IInv, TypeOK, VmmInv, Here
<1>1. /\ CopyTo(e, TRUE, refs[e.frame], f) /\ pte' = [pte EXCEPT ![cr3][p] = new]
      /\ content' = [content EXCEPT ![new.frame] = Zero]
      /\ Mapped(e) /\ e.owned
  BY DEF Advise
<1>2. /\ new.owned /\ new.frame \in Frames \ {MemfdFrame}
      /\ \A t \in Spaces, q \in Pages : Owns(t, q, new.frame) => t = cr3 /\ q = p
  <2>1. CASE Resolvable(e, TRUE)
    <3>1. refs[e.frame] \in Nat /\ (refs[e.frame] = 1 => Alone(cr3, p))
      BY <2>1, SoleOwner
    <3> QED  BY <1>1, <2>1, <3>1, CopyFacts, ZenonT(40)
  <2>2. CASE ~ Resolvable(e, TRUE)
    <3>1. new = e  BY <2>2 DEF Resolved
    <3>2. ~ e.cow  BY <1>0, <1>1, <2>2 DEF Resolvable, PteShape
    <3>3. Alone(cr3, p)
      BY <1>0, <1>1, <3>2 DEF IInv, VmmInv, MarkedOrAlone
    <3>4. e.frame \in Frames \ {MemfdFrame}
      BY <1>0, <1>1, BoundFacts DEF PteShape, Mapped, Pte
    <3> QED  BY <1>0, <1>1, <3>1, <3>3, <3>4 DEF Alone
  <2> QED  BY <2>1, <2>2
<1> HIDE DEF new
<1>3. content'[new.frame] = Zero  BY <1>0, <1>1, <1>2
<1>4. ViewIn(new, content') = [kind |-> "private", value |-> Zero]
  BY <1>2, <1>3, BoundFacts DEF ViewIn, Mapped
<1>5. \A g \in Frames : content'[g] # content[g] =>
          g # MemfdFrame /\ \A t \in Spaces, q \in Pages :
                                Owns(t, q, g) => t = cr3 /\ q = p
  <2>1. \A g \in Frames : content'[g] # content[g] => g = new.frame  BY <1>0, <1>1
  <2> QED  BY <1>2, <2>1
<1>6. /\ memView' = [memView EXCEPT ![cr3][p] = ViewIn(new, content')]
      /\ content'[MemfdFrame] = content[MemfdFrame]
  BY <1>1, <1>5, PageChanges
<1>7. memView[cr3][p] = ViewIn(e, content)
  BY <1>0, ViewIs DEF Contents
<1>8. memView[cr3][p].kind = "private"  BY <1>1, <1>7 DEF ViewIn
<1> QED  BY <1>4, <1>6, <1>8 DEF Memory!WritePrivate, Memory!Private

LEMMA ForkRefines ==
    ASSUME IInv, IInv', NEW c \in Spaces, NEW g, Fork(c, g)
    PROVE  c # cr3 /\ Memory!Fork(cr3, c)
<1>0. /\ cr3 \in Spaces /\ pte \in [Spaces -> [Pages -> Pte]]
      /\ \A p \in Pages : Here(p) \in Pte /\ PteShape(Here(p)) /\ Here(p) = pte[cr3][p]
  BY DEF IInv, TypeOK, VmmInv, Here
<1>1. /\ c # cr3 /\ content' = content
      /\ pte' = [pte EXCEPT ![cr3] = [p \in Pages |-> Shared(Here(p))],
                            ![c] = [p \in Pages |-> Shared(Here(p))]]
  BY ForkEffect
<1>2. /\ \A p \in Pages : /\ pte'[cr3][p] = Shared(Here(p))
                          /\ pte'[c][p] = Shared(Here(p))
      /\ \A s \in Spaces \ {cr3, c} : pte'[s] = pte[s]
  BY <1>0, <1>1
<1>3. \A p \in Pages : ViewIn(Shared(Here(p)), content') = ViewIn(pte[cr3][p], content)
  <2> TAKE p \in Pages
  <2>1. /\ Shared(Here(p)).frame = Here(p).frame
        /\ Shared(Here(p)).owned = Here(p).owned
    BY <1>0, SharedFacts
  <2> QED  BY <1>0, <1>1, <2>1 DEF ViewIn, Mapped
<1>4. memView = Contents(pte, content) /\ memView' = Contents(pte', content')
  BY ViewIs, ViewIsNext
<1>5. ASSUME NEW s \in Spaces
      PROVE  Contents(pte', content')[s] =
                 IF s = c THEN Contents(pte, content)[cr3] ELSE Contents(pte, content)[s]
  <2>1. Contents(pte', content')[s] = [p \in Pages |-> ViewIn(pte'[s][p], content')]
    BY DEF Contents
  <2>2. \A t \in Spaces : Contents(pte, content)[t] =
            [p \in Pages |-> ViewIn(pte[t][p], content)]
    BY DEF Contents
  <2>3. CASE s \in {c, cr3}
    <3>1. \A p \in Pages : ViewIn(pte'[s][p], content') = ViewIn(pte[cr3][p], content)
      BY <1>2, <1>3, <2>3
    <3> QED  BY <1>0, <2>1, <2>2, <2>3, <3>1
  <2>4. CASE s \notin {c, cr3}
    BY <1>1, <1>2, <2>1, <2>2, <2>4
  <2> QED  BY <2>3, <2>4
<1>6. Contents(pte', content') =
          [s \in Spaces |-> Contents(pte', content')[s]]
  BY DEF Contents
<1>7. [Contents(pte, content) EXCEPT ![c] = Contents(pte, content)[cr3]] =
          [s \in Spaces |-> IF s = c THEN Contents(pte, content)[cr3]
                            ELSE Contents(pte, content)[s]]
  BY DEF Contents
<1>8. memView' = [memView EXCEPT ![c] = memView[cr3]]
  BY <1>4, <1>5, <1>6, <1>7
<1> QED  BY <1>1, <1>8 DEF Memory!Fork

LEMMA DestroyRefines ==
    ASSUME IInv, IInv', NEW s \in Spaces, Destroy(s)
    PROVE  Memory!Clear(s)
<1>0. pte \in [Spaces -> [Pages -> Pte]]  BY DEF IInv, TypeOK
<1>1. pte' = [pte EXCEPT ![s] = [p \in Pages |-> NoPte]] /\ content' = content
  BY DEF Destroy
<1>2. ViewIn(NoPte, content') = [kind |-> "none", value |-> Zero]
  BY DEF ViewIn, Mapped, NoPte
<1>3. ASSUME NEW t \in Spaces
      PROVE  Contents(pte', content')[t] =
                 IF t = s THEN [p \in Pages |-> [kind |-> "none", value |-> Zero]]
                 ELSE Contents(pte, content)[t]
  BY <1>0, <1>1, <1>2 DEF Contents
<1>4. Contents(pte', content') = [t \in Spaces |-> Contents(pte', content')[t]]
  BY DEF Contents
<1>5. [Contents(pte, content) EXCEPT
          ![s] = [p \in Pages |-> [kind |-> "none", value |-> Zero]]] =
          [t \in Spaces |-> IF t = s THEN [p \in Pages |-> [kind |-> "none", value |-> Zero]]
                            ELSE Contents(pte, content)[t]]
  BY DEF Contents
<1>6. memView' = [memView EXCEPT
                     ![s] = [p \in Pages |-> [kind |-> "none", value |-> Zero]]]
  BY <1>3, <1>4, <1>5, ViewIs, ViewIsNext
<1> QED  BY <1>1, <1>6 DEF Memory!Clear, Memory!Hole

LEMMA ForkFailsRefines ==
    ASSUME IInv, IInv', NEW k, ForkFails(k)
    PROVE  UNCHANGED MemoryVars
<1>0. /\ pte \in [Spaces -> [Pages -> Pte]] /\ cr3 \in Spaces
      /\ \A p \in Pages : Here(p) \in Pte /\ PteShape(Here(p)) /\ Here(p) = pte[cr3][p]
  BY DEF IInv, TypeOK, VmmInv, Here
<1>1. /\ content' = content
      /\ pte' = [pte EXCEPT ![cr3] = [p \in Pages |->
                                        IF p < k THEN Shared(Here(p)) ELSE Here(p)]]
  BY DEF ForkFails
<1>2. /\ \A s \in Spaces \ {cr3} : pte'[s] = pte[s]
      /\ \A p \in Pages : pte'[cr3][p] = IF p < k THEN Shared(Here(p)) ELSE Here(p)
  BY <1>0, <1>1
<1>3. ASSUME NEW s \in Spaces, NEW p \in Pages
      PROVE  ViewIn(pte'[s][p], content') = ViewIn(pte[s][p], content)
  <2>1. CASE s # cr3 \/ ~ p < k  BY <1>0, <1>1, <1>2, <2>1
  <2>2. CASE s = cr3 /\ p < k
    <3>1. pte'[s][p] = Shared(Here(p))  BY <1>2, <2>2
    <3>2. /\ Shared(Here(p)).frame = Here(p).frame
          /\ Shared(Here(p)).owned = Here(p).owned
      BY <1>0, SharedFacts
    <3> QED  BY <1>0, <1>1, <2>2, <3>1, <3>2 DEF ViewIn, Mapped
  <2> QED  BY <2>1, <2>2
<1> QED  BY <1>1, <1>3, SameContents

LEMMA CreateRefines ==
    ASSUME IInv, IInv', NEW c \in Spaces, Create(c)
    PROVE  UNCHANGED MemoryVars
<1>0. /\ pte \in [Spaces -> [Pages -> Pte]] /\ cr3 \in Spaces /\ DeadAreEmpty
      /\ \A p \in Pages : PteShape(Here(p))
  BY DEF IInv, TypeOK, VmmInv, Here
<1>1. /\ content' = content /\ c \notin alive
      /\ pte' = [pte EXCEPT ![c] = [p \in Pages |-> IF Here(p).u THEN NoPte ELSE Here(p)]]
  BY DEF Create
<1>2. ASSUME NEW s \in Spaces, NEW p \in Pages
      PROVE  ViewIn(pte'[s][p], content') = ViewIn(pte[s][p], content)
  <2>1. CASE s # c
    <3>1. pte'[s][p] = pte[s][p]  BY <1>0, <1>1, <2>1
    <3> QED  BY <1>1, <3>1
  <2>2. CASE s = c
    <3>1. pte'[s][p] = IF Here(p).u THEN NoPte ELSE Here(p)
      BY <1>0, <1>1, <2>2
    <3>2. ~ Mapped(NoPte)  BY DEF Mapped, NoPte
    <3>3. ~ Mapped(pte'[s][p])  BY <1>0, <3>1, <3>2 DEF PteShape
    <3>4. pte[s][p] = NoPte  BY <1>0, <1>1, <2>2 DEF DeadAreEmpty
    <3> QED  BY <3>2, <3>3, <3>4 DEF ViewIn
  <2> QED  BY <2>1, <2>2
<1> QED  BY <1>1, <1>2, SameContents

-----------------------------------------------------------------------------
LEMMA InitRefines == Init => Memory!Init
<1> SUFFICES ASSUME Init PROVE Memory!Init
  OBVIOUS
<1>1. IInv  BY InitInv
<1>2. memView = Contents(pte, content)  BY <1>1, ViewIs
<1>3. \A s \in Spaces, p \in Pages :
          ViewIn(pte[s][p], content) = [kind |-> "none", value |-> Zero]
  BY DEF Init, ViewIn, Mapped, NoPte
<1>4. memView = [s \in Spaces |-> [p \in Pages |-> [kind |-> "none", value |-> Zero]]]
  BY <1>2, <1>3 DEF Contents
<1>5. content[MemfdFrame] = Zero  BY BoundFacts DEF Init
<1> QED  BY <1>4, <1>5 DEF Memory!Init, Memory!Hole

LEMMA StepRefines ==
    ASSUME "kernelwrite" \notin Ops, "threads" \notin Ops,
           IInv, IInv', [Next]_vars
    PROVE  [Memory!Next]_MemoryVars
<1>0. cr3 \in Spaces /\ Zero \in Values  BY VmmAssumption DEF IInv, TypeOK
\* Steps that change no entry and no frame.
<1>1. ASSUME UNCHANGED <<pte, content>> PROVE UNCHANGED MemoryVars
  BY <1>1, SameContents
<1>2. CASE Running /\ PageStep
  <2>1. PICK p \in Pages :
            \/ Unmap(p) \/ Load(p) \/ ResolveRead(p)
            \/ \E prot \in Protections : MapShared(p, prot)
            \/ \E prot \in Protections, f \in Frames : Map(p, prot, f)
            \/ \E prot \in Protections, f \in 0 .. NFrames : Protect(p, prot, f)
            \/ \E f \in 0 .. NFrames : Advise(p, f) \/ Fault(p, f)
            \/ \E v \in Values : Store(p, v) \/ KernelWrite(p, v)
    BY <1>2 DEF PageStep
  <2>2. CASE Unmap(p)  BY <1>0, <2>2, UnmapRefines DEF Memory!Next
  <2>3. CASE Load(p) \/ ResolveRead(p)  BY <1>1, <2>3 DEF Load, ResolveRead
  <2>4. ASSUME NEW prot \in Protections, MapShared(p, prot)
        PROVE  Memory!Next
    <3>1. Memory!MapShared(cr3, p)  BY <2>4, MapSharedRefines
    <3> QED  BY <1>0, <3>1 DEF Memory!Next
  <2>5. ASSUME NEW prot \in Protections, NEW f \in Frames, Map(p, prot, f)
        PROVE  Memory!Next
    <3>1. Memory!Map(cr3, p)  BY <2>5, MapRefines
    <3> QED  BY <1>0, <3>1 DEF Memory!Next
  <2>6. ASSUME NEW prot \in Protections, NEW f \in 0 .. NFrames, Protect(p, prot, f)
        PROVE  UNCHANGED MemoryVars
    BY <2>6, ProtectRefines
  <2>7. ASSUME NEW f \in 0 .. NFrames, Advise(p, f)
        PROVE  Memory!Next
    <3>1. Memory!WritePrivate(cr3, p, Zero)  BY <2>7, AdviseRefines
    <3> QED  BY <1>0, <3>1 DEF Memory!Next
  <2>8. ASSUME NEW f \in 0 .. NFrames, Fault(p, f)
        PROVE  UNCHANGED MemoryVars
    BY <2>8, FaultRefines
  <2>9. ASSUME NEW v \in Values, Store(p, v)
        PROVE  Memory!Next
    <3>1. Memory!WritePrivate(cr3, p, v) \/ Memory!WriteShared(cr3, p, v)
      BY <2>9, StoreRefines
    <3> QED  BY <1>0, <3>1 DEF Memory!Next
  <2>10. ~ \E v \in Values : KernelWrite(p, v)  BY DEF KernelWrite
  <2> QED  BY <2>1, <2>2, <2>3, <2>4, <2>5, <2>6, <2>7, <2>8, <2>9, <2>10
<1>3. CASE Running /\ CloneStep
  <2>1. ASSUME NEW c \in Spaces, Create(c)
        PROVE  UNCHANGED MemoryVars
    BY <2>1, CreateRefines
  <2>2. ASSUME NEW c \in Spaces, NEW g \in [Eager(cr3) -> Frames], Fork(c, g)
        PROVE  Memory!Next
    <3>1. c # cr3 /\ Memory!Fork(cr3, c)  BY <2>2, ForkRefines
    <3> QED  BY <1>0, <3>1 DEF Memory!Next
  <2>3. ASSUME NEW k \in 0 .. NPages, ForkFails(k)
        PROVE  UNCHANGED MemoryVars
    BY <2>3, ForkFailsRefines
  <2> QED  BY <1>3, <2>1, <2>2, <2>3 DEF CloneStep
<1>4. CASE \E s \in Spaces : Destroy(s)
  BY <1>4, DestroyRefines DEF Memory!Next
<1>5. CASE \E s \in Spaces : Switch(s)
  BY <1>1, <1>5 DEF Switch
<1>6. CASE \E f \in 0 .. NFrames : ResolveWrite(f)
  BY <1>6, ResolveWriteRefines
<1>7. CASE ResolveFails  BY <1>1, <1>7 DEF ResolveFails
<1>8. CASE UNCHANGED vars  BY <1>1, <1>8 DEF vars
<1> QED  BY <1>2, <1>3, <1>4, <1>5, <1>6, <1>7, <1>8 DEF Next

\* Programs get the memory they were promised, for any number of spaces, pages,
\* frames and references: private pages per space, copied by fork, written by
\* nobody else, and one object behind every MAP_SHARED mapping.
THEOREM VmmImplementsPrivateMemory ==
    ASSUME Accessible, "threads" \notin Ops, "kernelwrite" \notin Ops
    PROVE  Spec => MemoryIsPrivate
<1>1. Init => Memory!Init /\ IInv  BY InitRefines, InitInv
<1>2. IInv /\ [Next]_vars => IInv'  BY NextInv
<1>3. IInv /\ IInv' /\ [Next]_vars => [Memory!Next]_<<memView, content[MemfdFrame]>>
  BY StepRefines DEF MemoryVars
<1> QED  BY <1>1, <1>2, <1>3, PTL DEF Spec, MemoryIsPrivate, Memory!Spec
=============================================================================
