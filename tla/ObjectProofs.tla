---------------------------- MODULE ObjectProofs ----------------------------
(***************************************************************************)
(* The kernel heap keeps its pool in order, for any size of the pool and   *)
(* any requests, the references of descriptor tables, event slots and      *)
(* pipes are exact, for any number of tasks, tables, numbers and objects,  *)
(* and every area of an address space shows the memfd it says, for any     *)
(* number of spaces, pages, frames and memfds.                             *)
(***************************************************************************)
EXTENDS Heap, Descriptors, Areas, FiniteSetTheorems, SequenceTheorems, NaturalsInduction,
        WellFoundedInduction, TLAPS

USE HeapConstants

\* A set of natural numbers that is not empty has a least one.
LEMMA LeastExists ==
    ASSUME NEW S \in SUBSET Nat, S # {}
    PROVE  \E n \in S : \A m \in S : n <= m
<1>1. PICK n \in S : \A m \in S : ~ (<<m, n>> \in OpToRel(<, Nat))
  BY NatLessThanWellFounded, WFMin
<1>2. \A m \in S : ~ m < n  BY <1>1 DEF OpToRel
<1> QED  BY <1>2

-----------------------------------------------------------------------------
(* Lists of blocks.                                                        *)

End(h, b) == b + Header + h[b].size

IsList(h) == DOMAIN h \subseteq PoolUnits /\ h \in [DOMAIN h -> Block]

\* What ListTilesPool says of the heap, for any list.
Before(h, b) ==
    IF h[b].prev = Null THEN b = 0
    ELSE h[b].prev \in DOMAIN h /\ h[h[b].prev].next = b
After(h, b) ==
    IF h[b].next = Null THEN End(h, b) = PoolSize
    ELSE h[b].next = End(h, b) /\ h[b].next \in DOMAIN h /\ h[h[b].next].prev = b
Tiles(h) ==
    /\ 0 \in DOMAIN h
    /\ \A b \in DOMAIN h : After(h, b) /\ Before(h, b)
    /\ \A b, c \in DOMAIN h : b < c => End(h, b) <= c

\* Two free blocks are never neighbours.
Coalesced(h) == \A b, c \in DOMAIN h : h[b].free /\ h[c].free => c # End(h, b)

LEMMA TilesIsList == Tiles(heap) <=> ListTilesPool
BY DEF Tiles, ListTilesPool, After, Before, End, EndOf

LEMMA CoalescedIs == Coalesced(heap) <=> FreeIsCoalesced
BY DEF Coalesced, FreeIsCoalesced, End, EndOf

LEMMA BlockIs ==
    ASSUME NEW h, IsList(h), NEW b \in DOMAIN h
    PROVE  /\ h[b] \in Block
           /\ b \in Nat /\ b < PoolSize /\ b # Null
           /\ h[b].size \in Nat /\ h[b].free \in BOOLEAN
           /\ h[b].prev \in PoolUnits \cup {Null} /\ h[b].next \in PoolUnits \cup {Null}
           /\ End(h, b) \in Nat
BY DEF IsList, Block, PoolUnits, Null, End, Header

LEMMA EndInPool ==
    ASSUME NEW h, IsList(h), Tiles(h), NEW b \in DOMAIN h
    PROVE  End(h, b) <= PoolSize /\ (h[b].next # Null => End(h, b) < PoolSize)
<1>1. CASE h[b].next = Null  BY <1>1, BlockIs DEF Tiles, After
<1>2. CASE h[b].next # Null
  <2>1. End(h, b) \in DOMAIN h  BY <1>2 DEF Tiles, After
  <2> QED  BY <2>1 DEF IsList, PoolUnits
<1> QED  BY <1>1, <1>2

LEMMA LinkNextIs ==
    ASSUME NEW h, IsList(h), NEW b \in DOMAIN h
    PROVE  /\ IsList(LinkNext(h, b)) /\ DOMAIN LinkNext(h, b) = DOMAIN h
           /\ \A c \in DOMAIN h :
                /\ LinkNext(h, b)[c].size = h[c].size
                /\ LinkNext(h, b)[c].free = h[c].free
                /\ LinkNext(h, b)[c].next = h[c].next
                /\ LinkNext(h, b)[c].prev = IF c = h[b].next THEN b ELSE h[c].prev
                /\ End(LinkNext(h, b), c) = End(h, c)
<1> DEFINE l == LinkNext(h, b)
<1>1. DOMAIN l = DOMAIN h  BY DEF LinkNext
<1>2. ASSUME NEW c \in DOMAIN h
      PROVE  /\ l[c] \in Block /\ l[c].size = h[c].size /\ l[c].free = h[c].free
             /\ l[c].next = h[c].next
             /\ l[c].prev = IF c = h[b].next THEN b ELSE h[c].prev
  BY <1>2, BlockIs DEF LinkNext, Block, IsList
<1>3. l = [c \in DOMAIN h |-> l[c]]  BY DEF LinkNext
<1>4. IsList(l)  BY <1>1, <1>2, <1>3 DEF IsList
<1>5. \A c \in DOMAIN h : End(l, c) = End(h, c)  BY <1>2 DEF End
<1> HIDE DEF l
<1> QED  BY <1>1, <1>2, <1>4, <1>5 DEF l

\* A list s made of h by cutting block b: b keeps at least wanted units, and
\* the rest, if it was worth it, is a free block.
IsCut(h, s, b, wanted) ==
    /\ IsList(s) /\ Tiles(s)
    /\ DOMAIN h \subseteq DOMAIN s
    /\ s[b].size >= wanted /\ s[b].free = h[b].free /\ End(s, b) <= End(h, b)
    /\ \A c \in DOMAIN h \ {b} : s[c].size = h[c].size /\ s[c].free = h[c].free
    /\ \A c \in DOMAIN s \ DOMAIN h :
          s[c].free /\ c = End(s, b) /\ End(s, c) = End(h, b)
    /\ DOMAIN s = DOMAIN h => End(s, b) = End(h, b)

LEMMA SplitCuts ==
    ASSUME NEW h, IsList(h), Tiles(h), NEW b \in DOMAIN h, NEW wanted \in Nat,
           h[b].size >= wanted
    PROVE  IsCut(h, split_block(h, b, wanted), b, wanted)
<1>1. CASE h[b].size < wanted + Header + 1
  BY <1>1, BlockIs DEF split_block, IsCut
<1>2. CASE ~ h[b].size < wanted + Header + 1
  <2> DEFINE tail == b + Header + wanted
             new == [size |-> TailSize(h, b, wanted), free |-> TRUE,
                     prev |-> b, next |-> h[b].next]
             head == [h[b] EXCEPT !.size = wanted, !.next = tail]
             cut == [c \in DOMAIN h \cup {tail} |->
                       IF c = b THEN head ELSE IF c = tail THEN new ELSE h[c]]
             s == LinkNext(cut, tail)
  <2>1. split_block(h, b, wanted) = s  BY <1>2 DEF split_block
  <2>2. /\ tail \in Nat /\ b < tail /\ tail < End(h, b) /\ tail < PoolSize
        /\ tail \in PoolUnits /\ tail # Null /\ tail # b
    BY <1>2, BlockIs, EndInPool DEF End, Header, PoolUnits, Null
  <2>3. tail \notin DOMAIN h
    <3>1. \A c \in DOMAIN h : b < c => End(h, b) <= c  BY DEF Tiles
    <3> QED  BY <2>2, <3>1, BlockIs
  <2>4. /\ new \in Block /\ new.free /\ new.next = h[b].next /\ new.prev = b
        /\ new.size = h[b].size - wanted - Header /\ new.size \in Nat
    BY <1>2, BlockIs DEF TailSize, Block, Header, IsList
  <2>5. /\ head \in Block /\ head.size = wanted /\ head.next = tail
        /\ head.free = h[b].free /\ head.prev = h[b].prev
    <3>1. h[b] \in Block  BY BlockIs
    <3>2. tail \in PoolUnits \cup {Null}  BY <2>2
    <3> HIDE DEF tail
    <3> QED  BY <3>1, <3>2 DEF Block
  <2>6. /\ DOMAIN cut = DOMAIN h \cup {tail}
        /\ cut[b] = head /\ cut[tail] = new
        /\ \A c \in DOMAIN h \ {b} : cut[c] = h[c]
    BY <2>2, <2>3
  <2>7. IsList(cut)
    <3> HIDE DEF head, new, tail
    <3>1. \A c \in DOMAIN cut : cut[c] \in Block
      BY <2>2, <2>4, <2>5, BlockIs
    <3> QED  BY <2>2, <3>1 DEF IsList
  <2> HIDE DEF cut, new, head
  <2>8. /\ IsList(s) /\ DOMAIN s = DOMAIN h \cup {tail}
        /\ \A c \in DOMAIN cut :
             /\ s[c].size = cut[c].size /\ s[c].free = cut[c].free /\ s[c].next = cut[c].next
             /\ s[c].prev = IF c = cut[tail].next THEN tail ELSE cut[c].prev
             /\ End(s, c) = End(cut, c)
    BY <2>6, <2>7, LinkNextIs
  <2> HIDE DEF s
  <2>9. /\ End(s, b) = tail /\ End(s, tail) = End(h, b)
        /\ \A c \in DOMAIN h \ {b} : End(s, c) = End(h, c)
    BY <2>2, <2>4, <2>5, <2>6, <2>8, BlockIs DEF End, Header, tail
  <2> HIDE DEF tail
  <2>10. /\ s[b].next = tail /\ s[tail].next = h[b].next /\ s[tail].prev = b
         /\ s[b].prev = h[b].prev
         /\ \A c \in DOMAIN h \ {b} : s[c].next = h[c].next
         /\ \A c \in DOMAIN h \ {b} : s[c].prev = IF c = h[b].next THEN tail ELSE h[c].prev
    <3>1. h[b].next # b /\ h[b].next # tail
      <4>1. CASE h[b].next = Null  BY <2>2, <4>1, BlockIs
      <4>2. CASE h[b].next # Null
        <5>1. h[b].next = End(h, b)  BY <4>2 DEF Tiles, After
        <5> QED  BY <2>2, <5>1, BlockIs
      <4> QED  BY <4>1, <4>2
    <3> QED  BY <2>4, <2>5, <2>6, <2>8, <3>1
  <2>11. \A c \in DOMAIN s : After(s, c)
    <3>1. After(s, b)  BY <2>2, <2>8, <2>9, <2>10 DEF After
    <3>2. After(s, tail)
      <4>1. After(h, b)  BY DEF Tiles
      <4>2. h[b].next # Null => h[b].next # b /\ h[b].next # tail
        BY <2>2, <4>1, BlockIs DEF After
      <4> QED  BY <2>8, <2>9, <2>10, <4>1, <4>2 DEF After
    <3>3. ASSUME NEW c \in DOMAIN h \ {b} PROVE After(s, c)
      <4>1. After(h, c)  BY DEF Tiles
      <4>2. CASE h[c].next = Null  BY <2>9, <2>10, <4>1, <4>2 DEF After
      <4>3. CASE h[c].next # Null
        <5>1. h[c].next = End(h, c) /\ h[c].next \in DOMAIN h /\ h[h[c].next].prev = c
          BY <4>1, <4>3 DEF After
        <5>2. h[c].next # h[b].next
          <6> SUFFICES ASSUME h[c].next = h[b].next PROVE FALSE  OBVIOUS
          <6>1. h[h[b].next].prev = b  BY <4>3 DEF Tiles, After
          <6> QED  BY <5>1, <6>1
        <5>3. s[h[c].next].prev = c  BY <2>10, <5>1, <5>2
        <5>4. s[c].next = h[c].next /\ End(s, c) = End(h, c)  BY <2>9, <2>10
        <5> QED  BY <2>8, <4>3, <5>1, <5>3, <5>4 DEF After
      <4> QED  BY <4>2, <4>3
    <3> QED  BY <2>8, <3>1, <3>2, <3>3
  <2>12. \A c \in DOMAIN s : Before(s, c)
    <3>1. Before(s, tail)  BY <2>2, <2>8, <2>10, BlockIs DEF Before
    <3>2. ASSUME NEW c \in DOMAIN h, c # h[b].next \/ h[b].next = Null PROVE Before(s, c)
      <4>1. Before(h, c)  BY DEF Tiles
      <4>2. s[c].prev = h[c].prev  BY <2>10, <3>2, BlockIs
      <4>3. CASE h[c].prev = Null  BY <4>1, <4>2, <4>3 DEF Before
      <4>4. CASE h[c].prev # Null
        <5>1. h[c].prev \in DOMAIN h /\ h[h[c].prev].next = c  BY <4>1, <4>4 DEF Before
        <5>2. h[c].prev # b  BY <3>2, <5>1, BlockIs
        <5> QED  BY <2>8, <2>10, <4>2, <4>4, <5>1, <5>2 DEF Before
      <4> QED  BY <4>3, <4>4
    <3>3. ASSUME NEW c \in DOMAIN h, c = h[b].next PROVE Before(s, c)
      <4>1. c # b /\ c # Null
        <5>1. c # Null  BY BlockIs
        <5>2. c = End(h, b)  BY <3>3, <5>1 DEF Tiles, After
        <5> QED  BY <2>2, <5>1, <5>2, BlockIs
      <4>2. s[c].prev = tail /\ s[tail].next = c  BY <2>10, <3>3, <4>1
      <4> QED  BY <2>2, <2>8, <4>2 DEF Before
    <3> QED  BY <2>8, <3>1, <3>2, <3>3
  <2>13. \A c, d \in DOMAIN s : c < d => End(s, c) <= d
    <3>1. \A c, d \in DOMAIN h : c < d => End(h, c) <= d  BY DEF Tiles
    <3>2. ASSUME NEW c \in DOMAIN h \ {b}, NEW d \in DOMAIN h, c < d
          PROVE  End(s, c) <= d
      BY <2>9, <3>1, <3>2
    <3>3. ASSUME NEW c \in DOMAIN h \ {b}, c < tail PROVE End(s, c) <= tail
      <4>1. c < b
        <5>1. ~ b < c  BY <2>2, <3>1, <3>3, BlockIs
        <5> QED  BY <5>1, BlockIs
      <4> QED  BY <2>2, <2>9, <3>1, <4>1, BlockIs
    <3>4. ASSUME NEW d \in DOMAIN h, b < d PROVE End(s, b) <= d /\ End(s, tail) <= d
      BY <2>2, <2>9, <3>1, <3>4, BlockIs
    <3>5. ASSUME NEW d \in DOMAIN h, tail < d PROVE b < d
      BY <2>2, <3>5, BlockIs
    <3> QED  BY <2>2, <2>8, <2>9, <3>2, <3>3, <3>4, <3>5, BlockIs
  <2>14. 0 \in DOMAIN s  BY <2>8 DEF Tiles
  <2>15. Tiles(s)  BY <2>11, <2>12, <2>13, <2>14 DEF Tiles
  <2>16. /\ s[b].size = wanted /\ s[b].free = h[b].free /\ s[tail].free
         /\ \A c \in DOMAIN h \ {b} : s[c].size = h[c].size /\ s[c].free = h[c].free
    BY <2>4, <2>5, <2>6, <2>8
  <2>17. IsCut(h, s, b, wanted)
    BY <2>2, <2>3, <2>8, <2>9, <2>15, <2>16, BlockIs DEF IsCut
  <2> QED  BY <2>1, <2>17
<1> QED  BY <1>1, <1>2

\* A list m made of h by letting block b swallow the next one if it is free.
IsJoin(h, m, b) ==
    /\ IsList(m) /\ Tiles(m)
    /\ b \in DOMAIN m /\ DOMAIN m \subseteq DOMAIN h
    /\ m[b].free = h[b].free
    /\ \A c \in DOMAIN m \ {b} :
          m[c].size = h[c].size /\ m[c].free = h[c].free /\ End(m, c) = End(h, c)
    /\ \A c \in DOMAIN h \ DOMAIN m : h[c].free /\ c = h[b].next /\ End(m, b) = End(h, c)
    /\ DOMAIN m = DOMAIN h =>
          /\ h[b].next = Null \/ ~ h[h[b].next].free
          /\ End(m, b) = End(h, b) /\ m[b].next = h[b].next

LEMMA MergeJoins ==
    ASSUME NEW h, IsList(h), Tiles(h), NEW b \in DOMAIN h
    PROVE  IsJoin(h, merge_next(h, b), b)
<1> DEFINE n == h[b].next
<1>1. CASE n = Null \/ ~ h[n].free
  BY <1>1 DEF merge_next, IsJoin
<1>2. CASE ~ (n = Null \/ ~ h[n].free)
  <2> DEFINE grown == [h[b] EXCEPT !.size = @ + Header + h[n].size, !.next = h[n].next]
             joined == [c \in DOMAIN h \ {n} |-> IF c = b THEN grown ELSE h[c]]
             m == LinkNext(joined, b)
  <2>1. merge_next(h, b) = m  BY <1>2 DEF merge_next
  <2>2. n = End(h, b) /\ n \in DOMAIN h /\ h[n].prev = b /\ h[n].free /\ b < n
    <3>1. After(h, b)  BY DEF Tiles
    <3> QED  BY <1>2, <3>1, BlockIs DEF After, End, Header
  <2>3. grown \in Block /\ grown.size = h[b].size + Header + h[n].size
        /\ grown.next = h[n].next /\ grown.prev = h[b].prev /\ grown.free = h[b].free
    <3>1. h[b] \in Block /\ h[n] \in Block  BY <2>2, BlockIs
    <3> HIDE DEF n
    <3>2. h[b].size + Header + h[n].size \in Nat  BY <3>1 DEF Block, Header
    <3> QED  BY <3>1, <3>2 DEF Block
  <2>4. /\ DOMAIN joined = DOMAIN h \ {n} /\ joined[b] = grown
        /\ \A c \in DOMAIN h \ {n, b} : joined[c] = h[c]
    BY <2>2, BlockIs
  <2>5. IsList(joined)
    <3> HIDE DEF grown, n
    <3>1. \A c \in DOMAIN joined : joined[c] \in Block  BY <2>3, <2>4, BlockIs
    <3> QED  BY <3>1 DEF IsList
  <2>6. b \in DOMAIN joined  BY <2>2, <2>4, BlockIs
  <2> HIDE DEF joined, grown
  <2>7. /\ IsList(m) /\ DOMAIN m = DOMAIN h \ {n}
        /\ \A c \in DOMAIN joined :
             /\ m[c].size = joined[c].size /\ m[c].free = joined[c].free
             /\ m[c].next = joined[c].next
             /\ m[c].prev = IF c = joined[b].next THEN b ELSE joined[c].prev
             /\ End(m, c) = End(joined, c)
    BY <2>4, <2>5, <2>6, LinkNextIs
  <2> HIDE DEF m
  <2>8. /\ End(m, b) = End(h, n)
        /\ \A c \in DOMAIN h \ {n, b} : End(m, c) = End(h, c)
    BY <2>2, <2>3, <2>4, <2>6, <2>7, BlockIs DEF End, Header
  <2>9. /\ m[b].free = h[b].free
        /\ \A c \in DOMAIN h \ {n, b} : m[c].size = h[c].size /\ m[c].free = h[c].free
    BY <2>3, <2>4, <2>6, <2>7
  <2>10. \A c, d \in DOMAIN h : c < d => End(h, c) <= d  BY DEF Tiles
  <2>11. h[n].next = Null \/ (h[n].next = End(h, n) /\ h[n].next \in DOMAIN h
                               /\ n < h[n].next /\ h[h[n].next].prev = n)
    <3>1. After(h, n)  BY <2>2 DEF Tiles
    <3> QED  BY <2>2, <3>1, BlockIs DEF After, End, Header
  <2>12. /\ m[b].next = h[n].next /\ m[b].prev = h[b].prev
         /\ \A c \in DOMAIN h \ {n, b} :
              m[c].next = h[c].next /\ m[c].prev = IF c = h[n].next THEN b ELSE h[c].prev
    <3>1. h[n].next # b  BY <2>2, <2>11, BlockIs
    <3> QED  BY <2>3, <2>4, <2>6, <2>7, <3>1
  <2>13. \A c \in DOMAIN m : After(m, c)
    <3>1. After(m, b)
      <4>1. CASE h[n].next = Null
        <5>1. After(h, n)  BY <2>2 DEF Tiles
        <5> QED  BY <2>8, <2>12, <4>1, <5>1 DEF After
      <4>2. CASE h[n].next # Null
        <5>1. h[n].next \in DOMAIN h \ {n, b}  BY <2>2, <2>11, <4>2, BlockIs
        <5> QED  BY <2>7, <2>8, <2>11, <2>12, <4>2, <5>1 DEF After
      <4> QED  BY <4>1, <4>2
    <3>2. ASSUME NEW c \in DOMAIN h \ {n, b} PROVE After(m, c)
      <4>1. After(h, c)  BY DEF Tiles
      <4>2. m[c].next = h[c].next /\ End(m, c) = End(h, c)  BY <2>8, <2>12
      <4>3. CASE h[c].next = Null  BY <4>1, <4>2, <4>3 DEF After
      <4>4. CASE h[c].next # Null
        <5>1. h[c].next = End(h, c) /\ h[c].next \in DOMAIN h /\ h[h[c].next].prev = c
          BY <4>1, <4>4 DEF After
        <5>2. h[c].next # n  BY <2>2, <5>1
        <5>3. h[c].next # h[n].next
          <6> SUFFICES ASSUME h[c].next = h[n].next PROVE FALSE  OBVIOUS
          <6>1. h[h[n].next].prev = n  BY <2>11, <4>4
          <6> QED  BY <5>1, <6>1
        <5>4. m[h[c].next].prev = c
          <6>1. CASE h[c].next = b  BY <2>12, <5>1, <6>1
          <6>2. CASE h[c].next # b  BY <2>12, <5>1, <5>2, <5>3, <6>2
          <6> QED  BY <6>1, <6>2
        <5> QED  BY <2>7, <4>2, <4>4, <5>1, <5>2, <5>4 DEF After
      <4> QED  BY <4>3, <4>4
    <3> QED  BY <2>7, <3>1, <3>2
  <2>14. \A c \in DOMAIN m : Before(m, c)
    <3>1. ASSUME NEW c \in DOMAIN m, c = h[n].next PROVE Before(m, c)
      <4>1. c \in DOMAIN h \ {n, b}  BY <2>2, <2>7, <2>11, <3>1, BlockIs
      <4>2. m[c].prev = b /\ m[b].next = c  BY <2>12, <3>1, <4>1
      <4>3. b \in DOMAIN m  BY <2>2, <2>7, BlockIs
      <4> QED  BY <4>2, <4>3, BlockIs DEF Before
    <3>2. ASSUME NEW c \in DOMAIN m, c # h[n].next PROVE Before(m, c)
      <4>1. Before(h, c)  BY <2>7 DEF Tiles
      <4>2. m[c].prev = h[c].prev  BY <2>7, <2>12, <3>2
      <4>3. CASE h[c].prev = Null  BY <4>1, <4>2, <4>3 DEF Before
      <4>4. CASE h[c].prev # Null
        <5>1. h[c].prev \in DOMAIN h /\ h[h[c].prev].next = c  BY <4>1, <4>4 DEF Before
        <5>2. h[c].prev # n  BY <3>2, <5>1
        <5>3. h[c].prev # b  BY <2>7, <5>1
        <5> QED  BY <2>7, <2>12, <4>2, <4>4, <5>1, <5>2, <5>3 DEF Before
      <4> QED  BY <4>3, <4>4
    <3> QED  BY <3>1, <3>2
  <2>15. \A c, d \in DOMAIN m : c < d => End(m, c) <= d
    <3>1. ASSUME NEW d \in DOMAIN h \ {n}, b < d PROVE End(m, b) <= d
      <4>1. n < d  BY <2>2, <2>10, <3>1, BlockIs
      <4> QED  BY <2>2, <2>8, <2>10, <4>1
    <3> QED  BY <2>7, <2>8, <2>10, <3>1
  <2>16. Tiles(m)
    <3>1. 0 \in DOMAIN h /\ b >= 0  BY BlockIs DEF Tiles
    <3>2. 0 \in DOMAIN m  BY <2>2, <2>7, <3>1, BlockIs
    <3> QED  BY <2>13, <2>14, <2>15, <3>2 DEF Tiles
  <2>17. b \in DOMAIN m /\ DOMAIN m # DOMAIN h  BY <2>2, <2>7, BlockIs
  <2>18. IsJoin(h, m, b)
    BY <2>2, <2>7, <2>8, <2>9, <2>16, <2>17 DEF IsJoin
  <2> QED  BY <2>1, <2>18
<1> QED  BY <1>1, <1>2

\* A list r made of h by giving back block b.
IsRelease(h, r, b) ==
    /\ IsList(r) /\ Tiles(r) /\ Coalesced(r)
    /\ DOMAIN r \subseteq DOMAIN h
    /\ \A c \in DOMAIN h \ {b} :
          ~ h[c].free => /\ c \in DOMAIN r /\ ~ r[c].free /\ r[c].size = h[c].size
    /\ \A c \in DOMAIN r : ~ r[c].free => c # b /\ ~ h[c].free

LEMMA ReleaseReleases ==
    ASSUME NEW h, IsList(h), Tiles(h), Coalesced(h), NEW b \in DOMAIN h, ~ h[b].free
    PROVE  IsRelease(h, Released(h, b), b)
<1> DEFINE g == [h EXCEPT ![b].free = TRUE]
           m == merge_next(g, b)
           p == m[b].prev
           r == merge_next(m, p)
<1>1. /\ IsList(g) /\ DOMAIN g = DOMAIN h /\ g[b].free
      /\ \A c \in DOMAIN h : /\ g[c].size = h[c].size /\ g[c].next = h[c].next
                             /\ g[c].prev = h[c].prev /\ End(g, c) = End(h, c)
      /\ \A c \in DOMAIN h \ {b} : g[c].free = h[c].free
  <2>1. DOMAIN g = DOMAIN h /\ \A c \in DOMAIN h \ {b} : g[c] = h[c]  OBVIOUS
  <2>2. h[b] \in Block /\ g[b] = [h[b] EXCEPT !.free = TRUE]  BY BlockIs DEF IsList
  <2>3. g[b] \in Block /\ g[b].size = h[b].size /\ g[b].next = h[b].next
        /\ g[b].prev = h[b].prev /\ g[b].free
    <3> HIDE DEF g
    <3> QED  BY <2>2 DEF Block
  <2>4. g = [c \in DOMAIN h |-> g[c]]  OBVIOUS
  <2> HIDE DEF g
  <2>5. \A c \in DOMAIN h : g[c] \in Block  BY <2>1, <2>3, BlockIs
  <2>6. IsList(g)  BY <2>1, <2>4, <2>5 DEF IsList
  <2> QED  BY <2>1, <2>3, <2>6 DEF End
<1> HIDE DEF g
<1>2. Tiles(g)
  <2>1. \A c \in DOMAIN h : After(g, c)
    <3> SUFFICES ASSUME NEW c \in DOMAIN h PROVE After(g, c)  OBVIOUS
    <3>1. After(h, c)  BY DEF Tiles
    <3> QED  BY <1>1, <3>1 DEF After
  <2>2. \A c \in DOMAIN h : Before(g, c)
    <3> SUFFICES ASSUME NEW c \in DOMAIN h PROVE Before(g, c)  OBVIOUS
    <3>1. Before(h, c)  BY DEF Tiles
    <3> QED  BY <1>1, <3>1 DEF Before
  <2> QED  BY <1>1, <2>1, <2>2 DEF Tiles
<1>3. IsJoin(g, m, b)  BY <1>1, <1>2, MergeJoins
<1> HIDE DEF m
<1>4. IsList(m) /\ Tiles(m) /\ b \in DOMAIN m /\ m[b].free /\ DOMAIN m \subseteq DOMAIN h
  BY <1>1, <1>3 DEF IsJoin
<1>5. \A c, d \in DOMAIN m \ {b} : m[c].free /\ m[d].free => d # End(m, c)
  <2> SUFFICES ASSUME NEW c \in DOMAIN m \ {b}, NEW d \in DOMAIN m \ {b},
                      m[c].free, m[d].free
               PROVE  d # End(m, c)
    OBVIOUS
  <2>1. h[c].free /\ h[d].free /\ End(m, c) = End(h, c) /\ c \in DOMAIN h /\ d \in DOMAIN h
    BY <1>1, <1>3 DEF IsJoin
  <2> QED  BY <2>1 DEF Coalesced
<1>6. \A d \in DOMAIN m : m[d].free => d # End(m, b)
  <2> SUFFICES ASSUME NEW d \in DOMAIN m, m[d].free, d = End(m, b) PROVE FALSE  OBVIOUS
  <2>1. d # b  BY <1>4, BlockIs DEF End, Header
  <2>2. d \in DOMAIN h /\ h[d].free  BY <1>1, <1>3, <2>1 DEF IsJoin
  <2>3. CASE DOMAIN m = DOMAIN g
    <3>1. g[b].next = Null \/ ~ g[g[b].next].free  BY <1>3, <2>3 DEF IsJoin
    <3>2. d = End(g, b)  BY <1>3, <2>3 DEF IsJoin
    <3>3. After(g, b) /\ d < PoolSize  BY <1>1, <1>2, <2>2, BlockIs DEF Tiles
    <3> QED  BY <1>1, <2>1, <2>2, <3>1, <3>2, <3>3 DEF After
  <2>4. CASE DOMAIN m # DOMAIN g
    <3>1. PICK n \in DOMAIN g \ DOMAIN m : g[n].free /\ End(m, b) = End(g, n)
      BY <1>3, <2>4 DEF IsJoin
    <3>2. n # b /\ h[n].free /\ n \in DOMAIN h /\ End(g, n) = End(h, n)
      BY <1>1, <1>4, <3>1
    <3> QED  BY <2>2, <3>1, <3>2 DEF Coalesced
  <2> QED  BY <2>3, <2>4
<1>7. Before(m, b)  BY <1>4 DEF Tiles
<1>8. \A c \in DOMAIN h \ {b} : ~ h[c].free =>
          c \in DOMAIN m /\ ~ m[c].free /\ m[c].size = h[c].size
  BY <1>1, <1>3 DEF IsJoin
<1>9. \A c \in DOMAIN m : ~ m[c].free => c # b /\ ~ h[c].free
  BY <1>1, <1>3, <1>4 DEF IsJoin
<1>10. \A c \in DOMAIN m : End(m, c) = b => c = p /\ p # Null
  <2> SUFFICES ASSUME NEW c \in DOMAIN m, End(m, c) = b PROVE c = p /\ p # Null  OBVIOUS
  <2>1. After(m, c)  BY <1>4 DEF Tiles
  <2>2. m[c].next # Null  BY <1>4, <2>1, BlockIs DEF After
  <2>3. m[m[c].next].prev = c /\ m[c].next = b  BY <2>1, <2>2 DEF After
  <2> QED  BY <1>4, <2>3, BlockIs
<1>11. CASE p # Null /\ m[p].free
  <2>1. p \in DOMAIN m /\ m[p].next = b /\ p # b
    <3>1. p \in DOMAIN m /\ m[p].next = b  BY <1>7, <1>11 DEF Before
    <3>2. After(m, p)  BY <1>4, <3>1 DEF Tiles
    <3>3. b = End(m, p)  BY <1>4, <3>1, <3>2, BlockIs DEF After
    <3>4. p < End(m, p)  BY <1>4, <3>1, BlockIs DEF End, Header
    <3> QED  BY <1>4, <3>1, <3>3, <3>4, BlockIs
  <2>2. IsJoin(m, r, p)  BY <1>4, <2>1, MergeJoins
  <2>3. Released(h, b) = r  BY <1>11 DEF Released, g, m
  <2> HIDE DEF r, p
  <2>4. DOMAIN r # DOMAIN m  BY <1>4, <2>1, <2>2, BlockIs DEF IsJoin
  <2>5. b \in DOMAIN m \ DOMAIN r /\ End(r, p) = End(m, b)
    BY <2>1, <2>2, <2>4 DEF IsJoin
  <2>6. /\ IsList(r) /\ Tiles(r) /\ p \in DOMAIN r /\ r[p].free /\ DOMAIN r \subseteq DOMAIN m
        /\ \A c \in DOMAIN r \ {p} :
              r[c].size = m[c].size /\ r[c].free = m[c].free /\ End(r, c) = End(m, c)
        /\ \A c \in DOMAIN m \ DOMAIN r : m[c].free
    BY <1>11, <2>2 DEF IsJoin
  <2>7. Coalesced(r)
    <3> SUFFICES ASSUME NEW c \in DOMAIN r, NEW d \in DOMAIN r, r[c].free, r[d].free,
                        d = End(r, c)
                 PROVE  FALSE
      BY DEF Coalesced
    <3>1. m[c].free /\ m[d].free /\ c # b /\ d # b  BY <1>11, <2>5, <2>6
    <3>2. CASE c = p  BY <1>6, <2>5, <2>6, <3>1, <3>2
    <3>3. CASE c # p  BY <1>5, <2>6, <3>1, <3>3
    <3> QED  BY <3>2, <3>3
  <2>8. \A c \in DOMAIN h \ {b} : ~ h[c].free =>
            c \in DOMAIN r /\ ~ r[c].free /\ r[c].size = h[c].size
    <3> SUFFICES ASSUME NEW c \in DOMAIN h \ {b}, ~ h[c].free
                 PROVE  c \in DOMAIN r /\ ~ r[c].free /\ r[c].size = h[c].size
      OBVIOUS
    <3>1. c \in DOMAIN m /\ ~ m[c].free /\ m[c].size = h[c].size  BY <1>8
    <3>2. c \in DOMAIN r /\ c # p  BY <1>11, <2>6, <3>1
    <3> QED  BY <2>6, <3>1, <3>2
  <2>9. \A c \in DOMAIN r : ~ r[c].free => c # b /\ ~ h[c].free
    BY <1>9, <2>5, <2>6
  <2> QED  BY <1>4, <2>3, <2>6, <2>7, <2>8, <2>9 DEF IsRelease
<1>12. CASE ~ (p # Null /\ m[p].free)
  <2>1. Released(h, b) = m  BY <1>12 DEF Released, g, m
  <2>2. Coalesced(m)
    <3> SUFFICES ASSUME NEW c \in DOMAIN m, NEW d \in DOMAIN m, m[c].free, m[d].free,
                        d = End(m, c)
                 PROVE  FALSE
      BY DEF Coalesced
    <3> QED  BY <1>5, <1>6, <1>10, <1>12
  <2> QED  BY <1>4, <1>8, <1>9, <2>1, <2>2 DEF IsRelease
<1> QED  BY <1>11, <1>12

\* A list s made of h by taking at least wanted units of the free block b.
IsTake(h, s, b, wanted) ==
    /\ IsList(s) /\ Tiles(s) /\ Coalesced(s)
    /\ DOMAIN h \subseteq DOMAIN s
    /\ s[b].size >= wanted /\ ~ s[b].free /\ End(s, b) <= End(h, b)
    /\ \A c \in DOMAIN h \ {b} : s[c].size = h[c].size /\ s[c].free = h[c].free
    /\ \A c \in DOMAIN s : ~ s[c].free => c \in DOMAIN h
    /\ \A c \in DOMAIN s \ DOMAIN h : b + Header <= c /\ c + Header <= End(h, b)

LEMMA TakenTakes ==
    ASSUME IsList(heap), Tiles(heap), Coalesced(heap),
           NEW b \in DOMAIN heap, heap[b].free, NEW wanted \in Nat, heap[b].size >= wanted
    PROVE  IsTake(heap, Taken(b, wanted), b, wanted)
<1> DEFINE h == split_block(heap, b, wanted)
           s == [h EXCEPT ![b].free = FALSE]
<1>1. IsCut(heap, h, b, wanted)  BY SplitCuts
<1>2. Taken(b, wanted) = s  BY DEF Taken
<1> HIDE DEF h
<1>3. IsList(h) /\ Tiles(h) /\ b \in DOMAIN h  BY <1>1 DEF IsCut
<1>4. /\ IsList(s) /\ DOMAIN s = DOMAIN h /\ ~ s[b].free
      /\ \A c \in DOMAIN h : /\ s[c].size = h[c].size /\ s[c].next = h[c].next
                             /\ s[c].prev = h[c].prev /\ End(s, c) = End(h, c)
      /\ \A c \in DOMAIN h \ {b} : s[c].free = h[c].free
  <2>1. DOMAIN s = DOMAIN h /\ \A c \in DOMAIN h \ {b} : s[c] = h[c]  OBVIOUS
  <2>2. h[b] \in Block /\ s[b] = [h[b] EXCEPT !.free = FALSE]  BY <1>3, BlockIs DEF IsList
  <2>3. s[b] \in Block /\ s[b].size = h[b].size /\ s[b].next = h[b].next
        /\ s[b].prev = h[b].prev /\ ~ s[b].free
    <3> HIDE DEF s
    <3> QED  BY <2>2 DEF Block
  <2>4. s = [c \in DOMAIN h |-> s[c]]  OBVIOUS
  <2> HIDE DEF s
  <2>5. \A c \in DOMAIN h : s[c] \in Block  BY <1>3, <2>1, <2>3, BlockIs
  <2>6. IsList(s)  BY <1>3, <2>1, <2>4, <2>5 DEF IsList
  <2> QED  BY <2>1, <2>3, <2>6 DEF End
<1> HIDE DEF s
<1>5. Tiles(s)
  <2>1. \A c \in DOMAIN h : After(s, c)
    <3> SUFFICES ASSUME NEW c \in DOMAIN h PROVE After(s, c)  OBVIOUS
    <3>1. After(h, c)  BY <1>3 DEF Tiles
    <3> QED  BY <1>4, <3>1 DEF After
  <2>2. \A c \in DOMAIN h : Before(s, c)
    <3> SUFFICES ASSUME NEW c \in DOMAIN h PROVE Before(s, c)  OBVIOUS
    <3>1. Before(h, c)  BY <1>3 DEF Tiles
    <3> QED  BY <1>4, <3>1 DEF Before
  <2> QED  BY <1>3, <1>4, <2>1, <2>2 DEF Tiles
<1>6. \A c \in DOMAIN s \ DOMAIN heap :
          c = End(s, b) /\ End(s, c) = End(heap, b) /\ s[c].free
  BY <1>1, <1>3, <1>4 DEF IsCut
<1>7. \A c \in DOMAIN heap \ {b} :
          /\ c \in DOMAIN s /\ s[c].size = heap[c].size /\ s[c].free = heap[c].free
          /\ End(s, c) = End(heap, c)
  BY <1>1, <1>3, <1>4 DEF IsCut, End
<1>8. /\ DOMAIN heap \subseteq DOMAIN s /\ s[b].size >= wanted
      /\ End(s, b) <= End(heap, b) /\ b \in DOMAIN s
  BY <1>1, <1>3, <1>4 DEF IsCut
<1>9. Coalesced(s)
  <2> SUFFICES ASSUME NEW c \in DOMAIN s, NEW d \in DOMAIN s, s[c].free, s[d].free,
                      d = End(s, c)
               PROVE  FALSE
    BY DEF Coalesced
  <2>1. c # b /\ d # b  BY <1>4
  <2>2. CASE c \in DOMAIN heap /\ d \in DOMAIN heap
    BY <1>7, <2>1, <2>2 DEF Coalesced
  <2>3. CASE c \notin DOMAIN heap /\ d \in DOMAIN heap
    BY <1>6, <1>7, <2>1, <2>3 DEF Coalesced
  <2>4. CASE d \notin DOMAIN heap
    <3>1. d = End(s, b)  BY <1>6, <2>4
    <3>2. End(s, c) = End(s, b) /\ \A x, y \in DOMAIN s : x < y => End(s, x) <= y
      BY <1>5, <3>1 DEF Tiles
    <3>3. c < b \/ b < c  BY <1>4, <1>8, <2>1, BlockIs
    <3>4. b < End(s, b) /\ c < End(s, c)  BY <1>4, <1>8, BlockIs DEF End, Header
    <3> QED  BY <1>4, <1>8, <3>2, <3>3, <3>4, BlockIs
  <2> QED  BY <2>2, <2>3, <2>4
<1>10. \A c \in DOMAIN s \ DOMAIN heap : b + Header <= c /\ c + Header <= End(heap, b)
  BY <1>4, <1>6, <1>8, BlockIs DEF End, Header
<1> QED  BY <1>2, <1>4, <1>5, <1>6, <1>7, <1>8, <1>9, <1>10 DEF IsTake

-----------------------------------------------------------------------------
(* Pointers.                                                               *)

\* block_from_pointer, for any list and prefixes.
From(h, pre, p) ==
    IF p - Prefix \in DOMAIN pre /\ pre[p - Prefix] - Header \in DOMAIN h
    THEN pre[p - Prefix] - Header
    ELSE p - Header

\* No prefix lies under a header.
Apart(h, pre) == \A u \in DOMAIN pre, b \in DOMAIN h : u # b /\ u # b + 1

\* Pointer a leads to block b, which is in use and large enough.
Leads(h, pre, a, b) ==
    /\ From(h, pre, a.ptr) = b /\ b \in DOMAIN h /\ ~ h[b].free
    /\ b + Header <= a.ptr /\ a.ptr + a.size <= End(h, b)

\* A list, prefixes and pointers that a heap may have.
Sound(h, pre, held) ==
    /\ IsList(h) /\ Tiles(h) /\ Coalesced(h)
    /\ DOMAIN pre \subseteq PoolUnits /\ pre \in [DOMAIN pre -> PoolUnits]
    /\ Apart(h, pre)
    /\ held \subseteq [ptr : PoolUnits, size : Nat \ {0}]
    /\ \A a \in held : \E b \in DOMAIN h : Leads(h, pre, a, b)
    /\ \A a, c \in held : From(h, pre, a.ptr) = From(h, pre, c.ptr) => a = c
    /\ \A b \in DOMAIN h : ~ h[b].free => \E a \in held : From(h, pre, a.ptr) = b

HeapInv == Sound(heap, prefix, live) /\ moving \subseteq [from : live, size : Requests]

LEMMA FromIs == \A p : From(heap, prefix, p) = block_from_pointer(p)
BY DEF From, block_from_pointer

LEMMA InvIsSafe == HeapInv => HeapSafe
<1> SUFFICES ASSUME HeapInv PROVE HeapSafe  OBVIOUS
<1>1. HeapTypeOK  BY DEF HeapInv, Sound, IsList, HeapTypeOK
<1>2. PointersLeadHome
  <2>1. \A a \in live : \E b \in DOMAIN heap : Leads(heap, prefix, a, b)
    BY DEF HeapInv, Sound
  <2>2. \A a \in live :
          LET b == block_from_pointer(a.ptr) IN
          b \in DOMAIN heap /\ ~heap[b].free /\ b + Header <= a.ptr /\ a.ptr + a.size <= EndOf(b)
    BY <2>1, FromIs DEF Leads, End, EndOf
  <2>3. \A a, c \in live : block_from_pointer(a.ptr) = block_from_pointer(c.ptr) => a = c
    BY FromIs DEF HeapInv, Sound
  <2>4. \A b \in DOMAIN heap : ~ heap[b].free => \E a \in live : block_from_pointer(a.ptr) = b
    BY FromIs DEF HeapInv, Sound
  <2> QED  BY <2>2, <2>3, <2>4 DEF PointersLeadHome
<1> QED  BY <1>1, <1>2, TilesIsList, CoalescedIs DEF HeapInv, Sound, HeapSafe

\* A pointer is the start of its block, or has a prefix inside it.
LEMMA PlaceOf ==
    ASSUME NEW h, NEW pre, NEW held, Sound(h, pre, held), NEW a \in held,
           NEW b, From(h, pre, a.ptr) = b
    PROVE  /\ Leads(h, pre, a, b) /\ a.ptr \in Nat /\ a.size \in Nat \ {0} /\ b \in Nat
           /\ \/ a.ptr = b + Header
              \/ /\ a.ptr - Prefix \in DOMAIN pre /\ pre[a.ptr - Prefix] = b + Header
                 /\ b + Header <= a.ptr - Prefix /\ a.ptr - Prefix < End(h, b)
<1>1. Leads(h, pre, a, b)  BY DEF Sound, Leads
<1>2. a.ptr \in Nat /\ a.size \in Nat \ {0}  BY DEF Sound, PoolUnits
<1>3. IsList(h) /\ b \in DOMAIN h  BY <1>1 DEF Sound, Leads
<1>4. b \in Nat /\ End(h, b) \in Nat  BY <1>3, BlockIs
<1>5. CASE ~ (a.ptr - Prefix \in DOMAIN pre /\ pre[a.ptr - Prefix] - Header \in DOMAIN h)
  BY <1>1, <1>2, <1>4, <1>5 DEF From, Header
<1>6. CASE a.ptr - Prefix \in DOMAIN pre /\ pre[a.ptr - Prefix] - Header \in DOMAIN h
  <2>1. b = pre[a.ptr - Prefix] - Header /\ pre[a.ptr - Prefix] \in Nat
    BY <1>6 DEF From, Sound, PoolUnits
  <2>2. a.ptr - Prefix # b + 1  BY <1>3, <1>6 DEF Sound, Apart
  <2>3. b + Header <= a.ptr /\ a.ptr + a.size <= End(h, b)  BY <1>1 DEF Leads
  <2> QED  BY <1>1, <1>2, <1>4, <1>6, <2>1, <2>2, <2>3 DEF Header, Prefix
<1> QED  BY <1>5, <1>6

\* A pointer goes on leading to its block as long as the block is there and
\* the prefixes inside it are.
LEMMA FromKept ==
    ASSUME NEW h, NEW pre, NEW held, Sound(h, pre, held), NEW a \in held,
           NEW b, From(h, pre, a.ptr) = b,
           NEW s, NEW q, b \in DOMAIN s, Apart(s, q),
           \A u \in DOMAIN pre : b + Header <= u /\ u < End(h, b) =>
               u \in DOMAIN q /\ q[u] = pre[u]
    PROVE  From(s, q, a.ptr) = b
<1>1. a.ptr \in Nat /\ b \in Nat  BY PlaceOf
<1>2. CASE a.ptr = b + Header
  <2>1. a.ptr - Prefix = b + 1  BY <1>1, <1>2 DEF Header, Prefix
  <2>2. a.ptr - Prefix \notin DOMAIN q  BY <2>1 DEF Apart
  <2> QED  BY <1>1, <1>2, <2>2 DEF From, Header
<1>3. CASE a.ptr # b + Header
  <2>1. /\ a.ptr - Prefix \in DOMAIN pre /\ pre[a.ptr - Prefix] = b + Header
        /\ b + Header <= a.ptr - Prefix /\ a.ptr - Prefix < End(h, b)
    BY <1>3, PlaceOf
  <2>2. a.ptr - Prefix \in DOMAIN q /\ q[a.ptr - Prefix] = b + Header  BY <2>1
  <2> QED  BY <1>1, <2>2 DEF From, Header
<1> QED  BY <1>2, <1>3

\* Blocks do not share units.
LEMMA BlocksApart ==
    ASSUME NEW h, IsList(h), Tiles(h), NEW b \in DOMAIN h, NEW c \in DOMAIN h, b # c,
           NEW u \in Int, b <= u, u < End(h, b)
    PROVE  ~ (c <= u /\ u < End(h, c))
<1>1. b \in Nat /\ c \in Nat /\ End(h, b) \in Nat /\ End(h, c) \in Nat  BY BlockIs
<1>2. (b < c => End(h, b) <= c) /\ (c < b => End(h, c) <= b)  BY DEF Tiles
<1> QED  BY <1>1, <1>2

LEMMA ReleaseIsSound ==
    ASSUME NEW h, NEW pre, NEW held, Sound(h, pre, held), NEW a \in held,
           NEW r, IsRelease(h, r, From(h, pre, a.ptr))
    PROVE  Sound(r, pre, held \ {a})
<1> DEFINE b == From(h, pre, a.ptr)
<1>1. /\ IsList(r) /\ Tiles(r) /\ Coalesced(r) /\ DOMAIN r \subseteq DOMAIN h
      /\ \A c \in DOMAIN h \ {b} :
            ~ h[c].free => c \in DOMAIN r /\ ~ r[c].free /\ r[c].size = h[c].size
      /\ \A c \in DOMAIN r : ~ r[c].free => c # b /\ ~ h[c].free
  BY DEF IsRelease
<1>2. Apart(r, pre)  BY <1>1 DEF Sound, Apart
<1>3. ASSUME NEW c \in held \ {a}
      PROVE  /\ From(r, pre, c.ptr) = From(h, pre, c.ptr)
             /\ From(r, pre, c.ptr) # b
             /\ Leads(r, pre, c, From(r, pre, c.ptr))
  <2> DEFINE d == From(h, pre, c.ptr)
  <2>1. Leads(h, pre, c, d)  BY PlaceOf
  <2>2. d # b  BY DEF Sound
  <2>3. d \in DOMAIN r /\ ~ r[d].free /\ r[d].size = h[d].size
    BY <1>1, <2>1, <2>2 DEF Leads
  <2> HIDE DEF d, b
  <2>4. From(r, pre, c.ptr) = d  BY <1>2, <2>3, FromKept DEF d
  <2> QED  BY <2>1, <2>2, <2>3, <2>4 DEF Leads, End, d
<1>4. \A c \in held \ {a} : \E d \in DOMAIN r : Leads(r, pre, c, d)
  BY <1>3 DEF Leads
<1>5. \A c, e \in held \ {a} : From(r, pre, c.ptr) = From(r, pre, e.ptr) => c = e
  BY <1>3 DEF Sound
<1>6. ASSUME NEW d \in DOMAIN r, ~ r[d].free
      PROVE  \E c \in held \ {a} : From(r, pre, c.ptr) = d
  <2>1. d # b /\ d \in DOMAIN h /\ ~ h[d].free  BY <1>1, <1>6
  <2>2. PICK c \in held : From(h, pre, c.ptr) = d  BY <2>1 DEF Sound
  <2> QED  BY <1>3, <2>1, <2>2
<1> QED  BY <1>1, <1>2, <1>4, <1>5, <1>6 DEF Sound

LEMMA TakeIsSound ==
    ASSUME NEW h, NEW pre, NEW held, Sound(h, pre, held),
           NEW b \in DOMAIN h, h[b].free, NEW wanted \in Nat,
           NEW s, IsTake(h, s, b, wanted),
           NEW q, DOMAIN q \subseteq PoolUnits, q \in [DOMAIN q -> PoolUnits], Apart(s, q),
           \A u \in DOMAIN pre : u < b \/ End(h, b) <= u => u \in DOMAIN q /\ q[u] = pre[u],
           NEW p \in Nat, NEW size \in Nat \ {0}, From(s, q, p) = b,
           b + Header <= p, p + size <= b + Header + wanted
    PROVE  Sound(s, q, held \cup {[ptr |-> p, size |-> size]})
<1> DEFINE new == [ptr |-> p, size |-> size]
<1>1. /\ IsList(s) /\ Tiles(s) /\ Coalesced(s) /\ DOMAIN h \subseteq DOMAIN s
      /\ s[b].size >= wanted /\ ~ s[b].free
      /\ \A c \in DOMAIN h \ {b} : s[c].size = h[c].size /\ s[c].free = h[c].free
      /\ \A c \in DOMAIN s : ~ s[c].free => c \in DOMAIN h
  BY DEF IsTake
<1>2. Leads(s, q, new, b)
  <2>1. s[b].size \in Nat /\ b \in Nat  BY <1>1, BlockIs
  <2> QED  BY <1>1, <2>1 DEF Leads, End, Header
<1>3. new \in [ptr : PoolUnits, size : Nat \ {0}]
  <2>1. p + size <= End(s, b) /\ End(s, b) <= PoolSize /\ End(s, b) \in Nat
    BY <1>1, <1>2, EndInPool, BlockIs DEF Leads
  <2>2. p < PoolSize  BY <2>1
  <2> QED  BY <2>2 DEF PoolUnits
<1>4. ASSUME NEW c \in held
      PROVE  /\ From(s, q, c.ptr) = From(h, pre, c.ptr)
             /\ From(s, q, c.ptr) # b
             /\ Leads(s, q, c, From(s, q, c.ptr))
  <2> DEFINE d == From(h, pre, c.ptr)
  <2>1. Leads(h, pre, c, d)  BY PlaceOf
  <2>2. d # b /\ d \in DOMAIN h  BY <2>1 DEF Leads
  <2>3. d \in DOMAIN s /\ ~ s[d].free /\ s[d].size = h[d].size
    BY <1>1, <2>1, <2>2 DEF Leads
  <2> HIDE DEF d, new
  <2>4. \A u \in DOMAIN pre : d + Header <= u /\ u < End(h, d) => u \in DOMAIN q /\ q[u] = pre[u]
    <3> SUFFICES ASSUME NEW u \in DOMAIN pre, d + Header <= u, u < End(h, d)
                 PROVE  u \in DOMAIN q /\ q[u] = pre[u]
      OBVIOUS
    <3>1. u \in Nat /\ d \in Nat /\ b \in Nat /\ End(h, b) \in Nat
      BY <2>2, BlockIs DEF Sound, PoolUnits
    <3>2. ~ (b <= u /\ u < End(h, b))
      BY <2>2, <3>1, BlocksApart DEF Sound, Header
    <3> QED  BY <3>1, <3>2
  <2>5. From(s, q, c.ptr) = d  BY <2>3, <2>4, FromKept DEF d
  <2> QED  BY <2>1, <2>2, <2>3, <2>5 DEF Leads, End, d
<1> HIDE DEF new
<1>5. \A c \in held \cup {new} : \E d \in DOMAIN s : Leads(s, q, c, d)
  BY <1>2, <1>4 DEF Leads
<1>6. From(s, q, new.ptr) = b  BY <1>2 DEF Leads
<1>7. \A c, e \in held \cup {new} : From(s, q, c.ptr) = From(s, q, e.ptr) => c = e
  BY <1>4, <1>6 DEF Sound
<1>8. ASSUME NEW d \in DOMAIN s, ~ s[d].free
      PROVE  \E c \in held \cup {new} : From(s, q, c.ptr) = d
  <2>1. CASE d = b  BY <1>6, <2>1
  <2>2. CASE d # b
    <3>1. d \in DOMAIN h /\ ~ h[d].free  BY <1>1, <1>8, <2>2
    <3>2. PICK c \in held : From(h, pre, c.ptr) = d  BY <3>1 DEF Sound
    <3> QED  BY <1>4, <3>2
  <2> QED  BY <2>1, <2>2
<1>9. held \cup {new} \subseteq [ptr : PoolUnits, size : Nat \ {0}]  BY <1>3 DEF Sound
<1> QED  BY <1>1, <1>5, <1>7, <1>8, <1>9 DEF Sound, new

-----------------------------------------------------------------------------
(* The calls.                                                              *)

LEMMA FirstFitFits ==
    ASSUME IsList(heap), NEW size \in Nat, FirstFit(size) # Null
    PROVE  /\ FirstFit(size) \in DOMAIN heap
           /\ heap[FirstFit(size)].free /\ heap[FirstFit(size)].size >= size
<1> DEFINE fits == {b \in DOMAIN heap : heap[b].free /\ heap[b].size >= size}
<1>1. fits # {}  BY DEF FirstFit
<1>2. fits \in SUBSET Nat  BY DEF IsList, PoolUnits
<1>3. PICK n \in fits : \A m \in fits : n <= m
  <2> HIDE DEF fits
  <2> QED  BY <1>1, <1>2, LeastExists
<1>4. FirstFit(size) = CHOOSE b \in fits : \A c \in fits : b <= c  BY <1>1 DEF FirstFit
<1>5. (CHOOSE b \in fits : \A c \in fits : b <= c) \in fits
  <2> HIDE DEF fits
  <2> QED  BY <1>3
<1> QED  BY <1>4, <1>5

LEMMA KeptIs ==
    ASSUME NEW h
    PROVE  /\ \A u : u \in DOMAIN KeepPrefixes(h) <=>
                    u \in DOMAIN prefix /\ \A b \in DOMAIN h : u # b /\ u # b + 1
           /\ \A u \in DOMAIN KeepPrefixes(h) : KeepPrefixes(h)[u] = prefix[u]
BY DEF KeepPrefixes, Overwritten

\* Taking a block spoils only prefixes inside it.
LEMMA TakeKeepsPrefixes ==
    ASSUME HeapInv, NEW b \in DOMAIN heap, NEW wanted \in Nat,
           NEW s, IsTake(heap, s, b, wanted)
    PROVE  \A u \in DOMAIN prefix : u < b \/ End(heap, b) <= u => u \in DOMAIN KeepPrefixes(s)
<1> SUFFICES ASSUME NEW u \in DOMAIN prefix, u < b \/ End(heap, b) <= u,
                    NEW c \in DOMAIN s
             PROVE  u # c /\ u # c + 1
  BY KeptIs
<1>1. u \in Nat /\ b \in Nat /\ End(heap, b) \in Nat /\ c \in Nat
  BY BlockIs DEF HeapInv, Sound, PoolUnits, IsTake
<1>2. CASE c \in DOMAIN heap  BY <1>2 DEF HeapInv, Sound, Apart
<1>3. CASE c \notin DOMAIN heap
  <2>1. b + Header <= c /\ c + Header <= End(heap, b)  BY <1>3 DEF IsTake
  <2> QED  BY <1>1, <2>1 DEF Header
<1> QED  BY <1>2, <1>3

\* Plain allocation: the pointer is the start of the block.
LEMMA PlainIsSound ==
    ASSUME HeapInv, NEW b \in DOMAIN heap, heap[b].free, NEW size \in Nat \ {0},
           heap[b].size >= size
    PROVE  /\ IsTake(heap, Taken(b, size), b, size)
           /\ Sound(Taken(b, size), KeepPrefixes(Taken(b, size)),
                    live \cup {[ptr |-> b + Header, size |-> size]})
           /\ From(Taken(b, size), KeepPrefixes(Taken(b, size)), b + Header) = b
<1> DEFINE s == Taken(b, size)
           q == KeepPrefixes(s)
<1>1. IsTake(heap, s, b, size)  BY TakenTakes DEF HeapInv, Sound
<1> HIDE DEF s
<1>2. b \in DOMAIN s /\ b \in Nat  BY <1>1, BlockIs DEF IsTake, HeapInv, Sound
<1>3. DOMAIN q \subseteq DOMAIN prefix /\ Apart(s, q) /\ \A u \in DOMAIN q : q[u] = prefix[u]
  BY KeptIs DEF Apart
<1>4. DOMAIN q \subseteq PoolUnits /\ q \in [DOMAIN q -> PoolUnits]
  <2>1. q = [u \in DOMAIN q |-> q[u]]  BY DEF KeepPrefixes
  <2> QED  BY <1>3, <2>1 DEF HeapInv, Sound
<1>5. From(s, q, b + Header) = b
  <2>1. (b + Header) - Prefix = b + 1 /\ (b + Header) - Header = b  BY <1>2 DEF Header, Prefix
  <2>2. b + 1 \notin DOMAIN q  BY <1>2, <1>3 DEF Apart
  <2> HIDE DEF q
  <2> QED  BY <2>1, <2>2 DEF From
<1>6. \A u \in DOMAIN prefix : u < b \/ End(heap, b) <= u => u \in DOMAIN q /\ q[u] = prefix[u]
  BY <1>1, <1>3, TakeKeepsPrefixes
<1> HIDE DEF q
<1>7. Sound(heap, prefix, live) /\ b + Header \in Nat /\ b + Header + size <= b + Header + size
  BY <1>2 DEF HeapInv, Header
<1>8. Sound(s, q, live \cup {[ptr |-> b + Header, size |-> size]})
  <2> DEFINE p == b + Header
  <2>1. p \in Nat /\ b + Header <= p /\ p + size <= b + Header + size /\ From(s, q, p) = b
    BY <1>5, <1>7
  <2> HIDE DEF p
  <2>2. Sound(s, q, live \cup {[ptr |-> p, size |-> size]})
    BY <1>1, <1>3, <1>4, <1>6, <1>7, <2>1, TakeIsSound
  <2> QED  BY <2>2 DEF p
<1> QED  BY <1>1, <1>5, <1>8 DEF s, q

LEMMA MallocKeeps ==
    ASSUME HeapInv, NEW size \in Requests, kmalloc(size)
    PROVE  HeapInv'
<1> DEFINE b == FirstFit(size)
<1>1. size \in Nat \ {0}  OBVIOUS
<1>2. b \in DOMAIN heap /\ heap[b].free /\ heap[b].size >= size
  BY <1>1, FirstFitFits DEF kmalloc, HeapInv, Sound
<1>3. heap' = Taken(b, size) /\ prefix' = KeepPrefixes(heap')
      /\ live' = live \cup {[ptr |-> b + Header, size |-> size]} /\ moving' = moving
  BY DEF kmalloc
<1> HIDE DEF b
<1>4. Sound(heap', prefix', live')  BY <1>1, <1>2, <1>3, PlainIsSound
<1>5. moving' \subseteq [from : live', size : Requests]  BY <1>3 DEF HeapInv
<1> QED
  BY <1>4, <1>5
  DEF HeapInv, Sound, IsList, Tiles, After, Before, Coalesced, End, Apart, Leads, From

\* The next multiple of an alignment is less than one alignment away.
LEMMA AlignUpIs ==
    ASSUME NEW a \in Nat, NEW n \in Nat \ {0}
    PROVE  AlignUp(a, n) \in Nat /\ a <= AlignUp(a, n) /\ AlignUp(a, n) < a + n
<1> DEFINE x == a + n - 1
           d == x \div n
           r == x % n
<1>1. x \in Nat /\ AlignUp(a, n) = d * n  BY DEF AlignUp
<1>2. x = n * d + r /\ d \in Int /\ r \in 0 .. n - 1
  <2> HIDE DEF x
  <2> QED  BY <1>1
<1> HIDE DEF d, r
<1>3. d * n = x - r
  <2>1. n * d = d * n /\ n * d \in Int  BY <1>2
  <2> QED  BY <1>1, <1>2, <2>1
<1> QED  BY <1>1, <1>2, <1>3

LEMMA AlignedKeeps ==
    ASSUME HeapInv, NEW size \in Requests, NEW alignment \in Alignments,
           kmalloc_aligned(size, alignment)
    PROVE  HeapInv'
<1> DEFINE total == size + alignment + Prefix
           b == FirstFit(total)
           base == b + Header
           p == AlignUp(base + Prefix, alignment)
           s == Taken(b, total)
           K == KeepPrefixes(s)
           q == [u \in DOMAIN K \cup {p - Prefix} |-> IF u = p - Prefix THEN base ELSE prefix[u]]
<1>1. size \in Nat \ {0} /\ alignment \in Nat \ {0} /\ total \in Nat  BY DEF Prefix
<1>2. b # Null /\ heap' = s /\ prefix' = q /\ moving' = moving
      /\ live' = live \cup {[ptr |-> p, size |-> size]}
  BY DEF kmalloc_aligned
<1>3. b \in DOMAIN heap /\ heap[b].free /\ heap[b].size >= total
  BY <1>1, <1>2, FirstFitFits DEF HeapInv, Sound
<1>4. b \in Nat /\ base \in Nat /\ base + Prefix \in Nat
  BY <1>3, BlockIs DEF HeapInv, Sound, Header, Prefix
<1>5. p \in Nat /\ base + Prefix <= p /\ p < base + Prefix + alignment
  BY <1>1, <1>4, AlignUpIs
<1> HIDE DEF b, p
<1>6. IsTake(heap, s, b, total)  BY <1>1, <1>3, TakenTakes DEF HeapInv, Sound
<1>7. b \in DOMAIN s /\ IsList(s) /\ Tiles(s) /\ s[b].size >= total
  BY <1>3, <1>6 DEF IsTake
<1>8. /\ p - Prefix \in Nat /\ base <= p - Prefix /\ p - Prefix < End(s, b)
      /\ End(s, b) <= PoolSize /\ End(s, b) \in Nat /\ p + size <= base + total
  <2>1. End(s, b) \in Nat /\ End(s, b) <= PoolSize /\ s[b].size \in Nat
    BY <1>7, EndInPool, BlockIs
  <2> QED  BY <1>1, <1>4, <1>5, <1>7, <2>1 DEF End, Header, Prefix
<1> HIDE DEF s
<1>9. DOMAIN K \subseteq DOMAIN prefix /\ Apart(s, K)
  BY KeptIs DEF Apart
<1>10. p - Prefix \in PoolUnits /\ base \in PoolUnits
  BY <1>4, <1>8 DEF PoolUnits
<1> HIDE DEF base, K
<1>11. DOMAIN q = DOMAIN K \cup {p - Prefix} /\ q[p - Prefix] = base
       /\ \A u \in DOMAIN K \ {p - Prefix} : q[u] = prefix[u]
  OBVIOUS
<1>12. DOMAIN q \subseteq PoolUnits /\ q \in [DOMAIN q -> PoolUnits]
  BY <1>9, <1>10 DEF HeapInv, Sound
<1> HIDE DEF q
<1>13. Apart(s, q)
  <2>1. \A c \in DOMAIN s : p - Prefix # c /\ p - Prefix # c + 1
    <3> SUFFICES ASSUME NEW c \in DOMAIN s, p - Prefix = c \/ p - Prefix = c + 1
                 PROVE  FALSE
      OBVIOUS
    <3>1. c \in Nat /\ End(s, c) \in Nat /\ c + 1 < End(s, c)
      BY <1>7, BlockIs DEF End, Header
    <3>2. c # b  BY <1>4, <1>8, <3>1 DEF base, Header
    <3>3. b <= p - Prefix  BY <1>4, <1>8 DEF base, Header
    <3> QED  BY <1>7, <1>8, <3>1, <3>2, <3>3, BlocksApart
  <2> QED  BY <1>9, <1>11, <2>1 DEF Apart
<1>14. From(s, q, p) = b
  <2>1. base - Header = b  BY <1>4 DEF base, Header
  <2> QED  BY <1>7, <1>11, <2>1 DEF From
<1>15. \A u \in DOMAIN prefix : u < b \/ End(heap, b) <= u => u \in DOMAIN q /\ q[u] = prefix[u]
  <2> SUFFICES ASSUME NEW u \in DOMAIN prefix, u < b \/ End(heap, b) <= u
               PROVE  u \in DOMAIN q /\ q[u] = prefix[u]
    OBVIOUS
  <2>1. u \in DOMAIN K  BY <1>3, <1>1, <1>6, TakeKeepsPrefixes DEF K
  <2>2. u # p - Prefix
    <3>1. b <= p - Prefix  BY <1>4, <1>8 DEF base, Header
    <3>2. End(s, b) <= End(heap, b)  BY <1>6 DEF IsTake
    <3>3. End(heap, b) \in Nat /\ End(s, b) \in Nat  BY <1>3, <1>7, BlockIs DEF HeapInv, Sound
    <3> QED  BY <1>4, <1>8, <3>1, <3>2, <3>3
  <2> QED  BY <1>11, <2>1, <2>2
<1>16. Sound(s, q, live \cup {[ptr |-> p, size |-> size]})
  <2>1. Sound(heap, prefix, live)  BY DEF HeapInv
  <2>2. b + Header <= p /\ p + size <= b + Header + total
    BY <1>1, <1>4, <1>5, <1>8 DEF base, Header, Prefix
  <2> HIDE DEF total
  <2> QED  BY <1>1, <1>3, <1>5, <1>6, <1>12, <1>13, <1>14, <1>15, <2>1, <2>2, TakeIsSound
<1>17. Sound(heap', prefix', live')  BY <1>2, <1>16
<1>18. moving' \subseteq [from : live', size : Requests]  BY <1>2 DEF HeapInv
<1> QED
  BY <1>17, <1>18
  DEF HeapInv, Sound, IsList, Tiles, After, Before, Coalesced, End, Apart, Leads, From

LEMMA FreeKeeps ==
    ASSUME HeapInv, NEW a \in live, kfree(a)
    PROVE  HeapInv'
<1> DEFINE b == From(heap, prefix, a.ptr)
           r == Released(heap, b)
<1>1. /\ heap' = r /\ prefix' = prefix /\ live' = live \ {a} /\ moving' = moving
      /\ \A m \in moving : m.from # a
  BY FromIs DEF kfree
<1>2. Leads(heap, prefix, a, b)  BY PlaceOf DEF HeapInv
<1> HIDE DEF b
<1>3. IsRelease(heap, r, b)  BY <1>2, ReleaseReleases DEF HeapInv, Sound, Leads
<1> HIDE DEF r
<1>4. Sound(r, prefix, live \ {a})  BY <1>3, ReleaseIsSound DEF HeapInv, b
<1>5. Sound(heap', prefix', live')  BY <1>1, <1>4
<1>6. moving' \subseteq [from : live', size : Requests]  BY <1>1 DEF HeapInv
<1> QED
  BY <1>5, <1>6
  DEF HeapInv, Sound, IsList, Tiles, After, Before, Coalesced, End, Apart, Leads, From

LEMMA InPlaceKeeps ==
    ASSUME HeapInv, NEW a \in live, NEW size \in Requests, ReallocInPlace(a, size)
    PROVE  HeapInv'
<1> DEFINE b == From(heap, prefix, a.ptr)
           c == [a EXCEPT !.size = size]
           held == (live \ {a}) \cup {c}
<1>1. /\ heap' = heap /\ prefix' = prefix /\ live' = held /\ moving' = moving
      /\ \A m \in moving : m.from # a
      /\ heap[b].size - (a.ptr - (b + Header)) >= size
  BY FromIs DEF ReallocInPlace, Usable
<1>2. size \in Nat \ {0}  OBVIOUS
<1>3. Leads(heap, prefix, a, b) /\ a.ptr \in Nat /\ b \in Nat  BY PlaceOf DEF HeapInv
<1>4. a \in [ptr : PoolUnits, size : Nat \ {0}]  BY DEF HeapInv, Sound
<1>5. c \in [ptr : PoolUnits, size : Nat \ {0}] /\ c.ptr = a.ptr /\ c.size = size
  BY <1>2, <1>4
<1>6. b \in DOMAIN heap /\ heap[b].size \in Nat
  BY <1>3, BlockIs DEF Leads, HeapInv, Sound
<1> HIDE DEF c
<1>7. Leads(heap, prefix, c, b)
  <2> HIDE DEF b
  <2> QED  BY <1>1, <1>2, <1>3, <1>5, <1>6 DEF Leads, End, Header
<1>8. Sound(heap, prefix, held)
  <2>1. \A d \in held : \E e \in DOMAIN heap : Leads(heap, prefix, d, e)
    BY <1>6, <1>7 DEF HeapInv, Sound
  <2>2. \A d, e \in held : From(heap, prefix, d.ptr) = From(heap, prefix, e.ptr) => d = e
    <3>1. \A d \in live : From(heap, prefix, d.ptr) = From(heap, prefix, c.ptr) => d = a
      BY <1>5 DEF HeapInv, Sound
    <3> QED  BY <3>1 DEF HeapInv, Sound
  <2>3. \A e \in DOMAIN heap : ~ heap[e].free => \E d \in held : From(heap, prefix, d.ptr) = e
    <3> SUFFICES ASSUME NEW e \in DOMAIN heap, ~ heap[e].free
                 PROVE  \E d \in held : From(heap, prefix, d.ptr) = e
      OBVIOUS
    <3>1. PICK d \in live : From(heap, prefix, d.ptr) = e  BY DEF HeapInv, Sound
    <3>2. CASE d = a  BY <1>5, <3>1, <3>2
    <3>3. CASE d # a  BY <3>1, <3>3
    <3> QED  BY <3>2, <3>3
  <2>4. held \subseteq [ptr : PoolUnits, size : Nat \ {0}]  BY <1>5 DEF HeapInv, Sound
  <2> HIDE DEF held
  <2> QED  BY <2>1, <2>2, <2>3, <2>4 DEF HeapInv, Sound
<1>9. Sound(heap', prefix', live')  BY <1>1, <1>8
<1>10. moving' \subseteq [from : live', size : Requests]  BY <1>1 DEF HeapInv
<1> QED
  BY <1>9, <1>10
  DEF HeapInv, Sound, IsList, Tiles, After, Before, Coalesced, End, Apart, Leads, From

LEMMA MoveDone ==
    ASSUME HeapInv, NEW m \in moving, ReallocDone(m)
    PROVE  HeapInv'
<1> DEFINE b == FirstFit(m.size)
           s == Taken(b, m.size)
           q == KeepPrefixes(s)
           old == From(heap, prefix, m.from.ptr)
           new == [ptr |-> b + Header, size |-> m.size]
           r == Released(s, old)
<1>1. m.from \in live /\ m.size \in Requests /\ m.size \in Nat \ {0}  BY DEF HeapInv
<1>2. moving' = {}  BY DEF ReallocDone
<1>3. CASE b = Null
  <2>1. heap' = heap /\ prefix' = prefix /\ live' = live  BY <1>3 DEF ReallocDone
  <2> QED
    BY <1>2, <2>1
    DEF HeapInv, Sound, IsList, Tiles, After, Before, Coalesced, End, Apart, Leads, From
<1>4. CASE b # Null
  <2>1. heap' = r /\ prefix' = q /\ live' = (live \ {m.from}) \cup {new}
    BY <1>4, FromIs DEF ReallocDone
  <2>2. b \in DOMAIN heap /\ heap[b].free /\ heap[b].size >= m.size
    BY <1>1, <1>4, FirstFitFits DEF HeapInv, Sound
  <2> HIDE DEF b
  <2>3. IsTake(heap, s, b, m.size) /\ Sound(s, q, live \cup {new}) /\ From(s, q, b + Header) = b
    BY <1>1, <2>2, PlainIsSound
  <2>4. Leads(heap, prefix, m.from, old)  BY <1>1, PlaceOf DEF HeapInv
  <2>5. old \in DOMAIN s /\ ~ s[old].free /\ old # b
    BY <2>2, <2>3, <2>4 DEF IsTake, Leads
  <2>6. From(s, q, m.from.ptr) = old
    <3>1. \A u \in DOMAIN prefix : old + Header <= u /\ u < End(heap, old) =>
              u \in DOMAIN q /\ q[u] = prefix[u]
      <4> SUFFICES ASSUME NEW u \in DOMAIN prefix, old + Header <= u, u < End(heap, old)
                   PROVE  u \in DOMAIN q /\ q[u] = prefix[u]
        OBVIOUS
      <4>1. old \in DOMAIN heap  BY <2>4 DEF Leads
      <4>2. u \in Nat /\ old \in Nat /\ b \in Nat /\ End(heap, b) \in Nat
        BY <2>2, <4>1, BlockIs DEF HeapInv, Sound, PoolUnits
      <4>3. ~ (b <= u /\ u < End(heap, b))
        <5> HIDE DEF old
        <5> QED  BY <2>2, <2>5, <4>1, <4>2, BlocksApart DEF HeapInv, Sound, Header
      <4>4. u < b \/ End(heap, b) <= u  BY <4>2, <4>3
      <4> HIDE DEF s
      <4>5. u \in DOMAIN q  BY <1>1, <2>2, <2>3, <4>4, TakeKeepsPrefixes
      <4> QED  BY <4>5, KeptIs
    <3>2. Sound(heap, prefix, live) /\ Apart(s, q)  BY <2>3 DEF HeapInv, Sound
    <3> HIDE DEF s, q
    <3> QED  BY <1>1, <2>5, <3>1, <3>2, FromKept
  <2>7. m.from # new
    <3> SUFFICES ASSUME m.from = new PROVE FALSE  OBVIOUS
    <3>1. m.from.ptr = b + Header  OBVIOUS
    <3> HIDE DEF s, q, old
    <3> QED  BY <2>3, <2>5, <2>6, <3>1
  <2> HIDE DEF s, q, old, new
  <2>8. IsRelease(s, r, old)  BY <2>3, <2>5, ReleaseReleases DEF Sound
  <2> HIDE DEF r
  <2>9. Sound(r, q, (live \cup {new}) \ {m.from})  BY <1>1, <2>3, <2>6, <2>8, ReleaseIsSound
  <2>10. (live \cup {new}) \ {m.from} = live'  BY <2>1, <2>7
  <2>11. Sound(heap', prefix', live')  BY <2>1, <2>9, <2>10
  <2>12. moving' \subseteq [from : live', size : Requests]  BY <1>2
  <2> QED
    BY <2>11, <2>12
    DEF HeapInv, Sound, IsList, Tiles, After, Before, Coalesced, End, Apart, Leads, From
<1> QED  BY <1>3, <1>4

LEMMA InitIsSound == HeapInit => HeapInv
<1> SUFFICES ASSUME HeapInit PROVE HeapInv  OBVIOUS
<1> DEFINE first == [size |-> PoolSize - Header, free |-> TRUE, prev |-> Null, next |-> Null]
<1>1. DOMAIN heap = {0} /\ heap[0] = first /\ heap = [b \in {0} |-> first]  BY DEF HeapInit
<1>2. first \in Block /\ PoolSize \in Nat /\ 0 \in PoolUnits
  BY DEF Block, Header, PoolUnits, Null
<1>3. first.free /\ first.prev = Null /\ first.next = Null /\ first.size = PoolSize - Header
  OBVIOUS
<1> HIDE DEF first
<1>4. IsList(heap)  BY <1>1, <1>2 DEF IsList
<1>5. End(heap, 0) = PoolSize  BY <1>1, <1>2, <1>3 DEF End, Header
<1>6. After(heap, 0) /\ Before(heap, 0)  BY <1>1, <1>3, <1>5 DEF After, Before
<1>7. Tiles(heap)  BY <1>1, <1>6 DEF Tiles
<1>8. Coalesced(heap)  BY <1>1, <1>2, <1>5 DEF Coalesced
<1>9. live = {} /\ moving = {} /\ prefix = << >>  BY DEF HeapInit
<1>10. DOMAIN prefix = {} /\ prefix \in [{} -> PoolUnits]  BY <1>9
<1> QED  BY <1>1, <1>3, <1>4, <1>7, <1>8, <1>9, <1>10 DEF HeapInv, Sound, Apart

(* The heap of any size, asked for anything: the blocks cover the pool, in *)
(* the order of their addresses and linked both ways, no two neighbours    *)
(* are free, and each pointer that a caller holds leads kfree and krealloc *)
(* to its own block, whatever was allocated, aligned, moved and freed in   *)
(* between.                                                                *)
THEOREM HeapIsSafe == HeapSpec => []HeapSafe
<1>1. HeapInv /\ [HeapNext]_heapVars => HeapInv'
  <2> SUFFICES ASSUME HeapInv, [HeapNext]_heapVars PROVE HeapInv'  OBVIOUS
  <2>1. CASE \E size \in Requests : kmalloc(size)  BY <2>1, MallocKeeps
  <2>2. CASE \E size \in Requests, alignment \in Alignments : kmalloc_aligned(size, alignment)
    BY <2>2, AlignedKeeps
  <2>3. CASE \E a \in live : kfree(a)  BY <2>3, FreeKeeps
  <2>4. CASE \E a \in live, size \in Requests : ReallocInPlace(a, size)  BY <2>4, InPlaceKeeps
  <2>5. CASE \E a \in live, size \in Requests : ReallocMoves(a, size)
    <3>1. PICK a \in live, size \in Requests : ReallocMoves(a, size)  BY <2>5
    <3>2. heap' = heap /\ prefix' = prefix /\ live' = live
          /\ moving' = {[from |-> a, size |-> size]}
      BY <3>1 DEF ReallocMoves
    <3>3. moving' \subseteq [from : live', size : Requests]  BY <3>2
    <3>4. Sound(heap, prefix, live)'
      BY <3>2 DEF HeapInv, Sound, IsList, Tiles, After, Before, Coalesced, End, Apart, Leads, From
    <3> QED  BY <3>3, <3>4 DEF HeapInv
  <2>6. CASE \E m \in moving : ReallocDone(m)  BY <2>6, MoveDone
  <2>7. CASE UNCHANGED heapVars
    BY <2>7 DEF heapVars, HeapInv, Sound, IsList, Tiles, After, Before, Coalesced, End,
                Apart, Leads, From
  <2> QED  BY <2>1, <2>2, <2>3, <2>4, <2>5, <2>6, <2>7 DEF HeapNext
<1> QED  BY <1>1, InitIsSound, InvIsSafe, PTL DEF HeapSpec

-----------------------------------------------------------------------------
(* Descriptor tables, event slots and pipes, when programs do not copy      *)
(* pipe ends and do not close a descriptor that a thread of theirs waits on. *)

HIDE HeapConstants
USE FdAssumption

\* The least one is what Min names.
LEMMA MinIs == ASSUME NEW S \in SUBSET Nat, S # {} PROVE Min(S) \in S
BY LeastExists DEF Min

-----------------------------------------------------------------------------
(* Counting entries.                                                       *)

Event(e) == [kind |-> "event", obj |-> e]
PipeEnd(p) == [kind |-> "pipe", obj |-> p]
Entries == {FreeEntry} \cup [kind : {"event"}, obj : EventSlots]
                       \cup [kind : {"pipe"}, obj : PipeObjects]
Rows == [FdNumbers -> Entries]
EventState == [refs : Nat, value : 0 .. EventMax, semaphore : BOOLEAN]
PipeState == [state : {"none", "live", "freed"}, ref_count : Int, count : 0 .. PipeRoom]

\* The places of tables in use that hold an entry.
Names(tb, used, entry) == {x \in used \X FdNumbers : tb[x[1]][x[2]] = entry}
\* The places of one table.
Places(row, entry) == {fd \in FdNumbers : row[fd] = entry}

LEMMA NamesFinite ==
    ASSUME NEW used \in SUBSET FdTables, NEW tb, NEW entry
    PROVE  IsFiniteSet(Names(tb, used, entry)) /\ Cardinality(Names(tb, used, entry)) \in Nat
<1>1. IsFiniteSet(used)  BY FS_Subset
<1>2. IsFiniteSet(used \X FdNumbers)  BY <1>1, FS_Product
<1>3. Names(tb, used, entry) \in SUBSET (used \X FdNumbers)  BY DEF Names
<1> QED  BY <1>2, <1>3, FS_Subset, FS_CardinalityType

LEMMA PlacesFinite ==
    ASSUME NEW row, NEW entry
    PROVE  IsFiniteSet(Places(row, entry)) /\ Cardinality(Places(row, entry)) \in Nat
<1>1. Places(row, entry) \in SUBSET FdNumbers  BY DEF Places
<1> QED  BY <1>1, FS_Subset, FS_CardinalityType

LEMMA PairIs ==
    ASSUME NEW A, NEW B, NEW y \in A \X B
    PROVE  y[1] \in A /\ y[2] \in B /\ y = <<y[1], y[2]>>
OBVIOUS

One(a, b) == IF a = b THEN 1 ELSE 0
\* tb2 is tb with another entry at one place.
Written(tb2, tb, used, d, fd, new) ==
    \A c \in used, f \in FdNumbers : tb2[c][f] = IF c = d /\ f = fd THEN new ELSE tb[c][f]

\* One entry changes.
LEMMA EntryChanges ==
    ASSUME NEW used \in SUBSET FdTables, NEW d \in used, NEW fd \in FdNumbers,
           NEW tb, NEW new, NEW tb2, Written(tb2, tb, used, d, fd, new), NEW entry
    PROVE  Cardinality(Names(tb2, used, entry))
             = (Cardinality(Names(tb, used, entry)) + One(new, entry)) - One(tb[d][fd], entry)
<1> DEFINE x == <<d, fd>>
           N == Names(tb, used, entry)
           M == Names(tb2, used, entry)
<1>1. x \in used \X FdNumbers /\ tb2[x[1]][x[2]] = new /\ tb[x[1]][x[2]] = tb[d][fd]
  BY DEF Written
<1>2. \A y \in used \X FdNumbers : y # x => tb2[y[1]][y[2]] = tb[y[1]][y[2]]
  <2> TAKE y \in used \X FdNumbers
  <2> HAVE y # x
  <2> DEFINE c == y[1]
             f == y[2]
  <2>1. c \in used /\ f \in FdNumbers /\ y = <<c, f>>  BY PairIs
  <2>2. y[1] = c /\ y[2] = f  BY <2>1
  <2>3. ~ (c = d /\ f = fd)  BY <2>1
  <2>4. tb2[c][f] = tb[c][f]  BY <2>3 DEF Written
  <2> QED  BY <2>2, <2>4
<1>3. IsFiniteSet(N) /\ Cardinality(N) \in Nat  BY NamesFinite
<1>4. M \subseteq used \X FdNumbers /\ N \subseteq used \X FdNumbers  BY DEF Names
<1>5. x \in N <=> tb[d][fd] = entry  BY <1>1 DEF Names
<1>6. \A y \in used \X FdNumbers : y # x => (y \in M <=> y \in N)  BY <1>2 DEF Names
<1>7. x \in M <=> new = entry  BY <1>1 DEF Names
<1> HIDE DEF x, M, N
<1>8. CASE new = entry
  <2>1. M = N \cup {x}  BY <1>1, <1>4, <1>6, <1>7, <1>8
  <2>2. Cardinality(N \cup {x}) = IF x \in N THEN Cardinality(N) ELSE Cardinality(N) + 1
    BY <1>3, FS_AddElement
  <2>3. Cardinality(M) = IF tb[d][fd] = entry THEN Cardinality(N) ELSE Cardinality(N) + 1
    BY <1>5, <2>1, <2>2
  <2> QED  BY <1>3, <1>8, <2>3 DEF M, N, One
<1>9. CASE new # entry
  <2>1. M = N \ {x}  BY <1>1, <1>4, <1>6, <1>7, <1>9
  <2>2. Cardinality(N \ {x}) = IF x \in N THEN Cardinality(N) - 1 ELSE Cardinality(N)
    BY <1>3, FS_RemoveElement
  <2>3. Cardinality(M) = IF tb[d][fd] = entry THEN Cardinality(N) - 1 ELSE Cardinality(N)
    BY <1>5, <2>1, <2>2
  <2> QED  BY <1>3, <1>9, <2>3 DEF M, N, One
<1> QED  BY <1>8, <1>9

\* A table is added to those in use.
LEMMA TableAdded ==
    ASSUME NEW used \in SUBSET FdTables, NEW d \in FdTables \ used, NEW tb, NEW tb2,
           \A c \in used : tb2[c] = tb[c], NEW entry
    PROVE  Cardinality(Names(tb2, used \cup {d}, entry))
             = Cardinality(Names(tb, used, entry)) + Cardinality(Places(tb2[d], entry))
<1> DEFINE N == Names(tb, used, entry)
           M == Names(tb2, used \cup {d}, entry)
           P == Places(tb2[d], entry)
           L == {d} \X P
<1>1. M = N \cup L
  <2>1. ASSUME NEW y \in (used \cup {d}) \X FdNumbers
        PROVE  y \in M <=> y \in N \/ y \in L
    <3> DEFINE c == y[1]
               fd == y[2]
    <3>1. c \in used \cup {d} /\ fd \in FdNumbers /\ y = <<c, fd>>  BY PairIs
    <3>2. y[1] = c /\ y[2] = fd  BY <3>1
    <3>3. y \in M <=> tb2[c][fd] = entry  BY <3>2 DEF Names
    <3>4. y \in N <=> c \in used /\ tb[c][fd] = entry  BY <3>1, <3>2 DEF Names
    <3>5. y \in L <=> c = d /\ tb2[d][fd] = entry  BY <3>1 DEF Places
    <3> HIDE DEF M, N, L
    <3>6. CASE c \in used  BY <3>3, <3>4, <3>5, <3>6
    <3>7. CASE c \notin used  BY <3>3, <3>4, <3>5, <3>7
    <3> QED  BY <3>6, <3>7
  <2>2. M \subseteq (used \cup {d}) \X FdNumbers  BY DEF Names
  <2>3. N \subseteq (used \cup {d}) \X FdNumbers  BY DEF Names
  <2>4. L \subseteq (used \cup {d}) \X FdNumbers  BY DEF Places
  <2> HIDE DEF M, N, L
  <2> QED  BY <2>1, <2>2, <2>3, <2>4
<1>2. N \cap L = {}
  <2>1. \A y \in N : y[1] \in used  BY DEF Names
  <2>2. \A y \in L : y[1] = d  OBVIOUS
  <2> HIDE DEF N, L
  <2> QED  BY <2>1, <2>2
<1>3. IsFiniteSet(P) /\ IsFiniteSet(N) /\ Cardinality(N) \in Nat /\ Cardinality(P) \in Nat
  BY PlacesFinite, NamesFinite
<1> HIDE DEF N, M, P
<1>4. IsFiniteSet({d}) /\ Cardinality({d}) = 1  BY FS_Singleton
<1>5. IsFiniteSet(L) /\ Cardinality(L) = Cardinality({d}) * Cardinality(P)
  BY <1>3, <1>4, FS_Product
<1>6. Cardinality(L) = Cardinality(P)  BY <1>3, <1>4, <1>5
<1> HIDE DEF L
<1>7. Cardinality(N \cup L) = Cardinality(N) + Cardinality(L) - Cardinality(N \cap L)
  BY <1>3, <1>5, FS_Union
<1>8. Cardinality({}) = 0  BY FS_EmptySet
<1>9. Cardinality(M) = Cardinality(N) + Cardinality(P) - 0
  BY <1>1, <1>2, <1>6, <1>7, <1>8
<1>10. Cardinality(M) = Cardinality(N) + Cardinality(P)  BY <1>3, <1>9
<1> QED  BY <1>10 DEF N, M, P

\* A place that holds the entry is counted.
LEMMA HeldIsCounted ==
    ASSUME NEW used \in SUBSET FdTables, NEW d \in used, NEW fd \in FdNumbers, NEW tb
    PROVE  Cardinality(Names(tb, used, tb[d][fd])) >= 1
<1> DEFINE N == Names(tb, used, tb[d][fd])
<1>1. <<d, fd>> \in N  BY DEF Names
<1>2. IsFiniteSet(N) /\ Cardinality(N) \in Nat  BY NamesFinite
<1> HIDE DEF N
<1>3. Cardinality(N) # 0  BY <1>1, <1>2, FS_EmptySet
<1>4. Cardinality(N) >= 1  BY <1>2, <1>3
<1> QED  BY <1>4 DEF N

LEMMA PlaceIsCounted ==
    ASSUME NEW row, NEW fd \in FdNumbers
    PROVE  Cardinality(Places(row, row[fd])) >= 1
<1> DEFINE N == Places(row, row[fd])
<1>1. fd \in N  BY DEF Places
<1>2. IsFiniteSet(N) /\ Cardinality(N) \in Nat  BY PlacesFinite
<1> HIDE DEF N
<1>3. Cardinality(N) # 0  BY <1>1, <1>2, FS_EmptySet
<1>4. Cardinality(N) >= 1  BY <1>2, <1>3
<1> QED  BY <1>4 DEF N

-----------------------------------------------------------------------------
(* References and entries: what retain and release do to the agreement.    *)

Exactly(ev, tb, used) ==
    \A e \in EventSlots : ev[e].refs = Cardinality(Names(tb, used, Event(e)))

Outlive(pp, tb, used) ==
    \A p \in PipeObjects : Cardinality(Names(tb, used, PipeEnd(p))) > 0 =>
        pp[p].state = "live" /\ pp[p].ref_count >= Cardinality(Names(tb, used, PipeEnd(p)))

Put(tb, d, fd, entry) == [tb EXCEPT ![d][fd] = entry]

LEMMA PutIs ==
    ASSUME NEW tb \in [FdTables -> Rows], NEW d \in FdTables, NEW fd \in FdNumbers,
           NEW entry \in Entries
    PROVE  /\ Put(tb, d, fd, entry) \in [FdTables -> Rows]
           /\ \A used \in SUBSET FdTables : Written(Put(tb, d, fd, entry), tb, used, d, fd, entry)
<1> DEFINE row == [tb[d] EXCEPT ![fd] = entry]
<1>1. tb[d] \in Rows  OBVIOUS
<1>2. row \in Rows /\ \A f \in FdNumbers : row[f] = IF f = fd THEN entry ELSE tb[d][f]
  BY <1>1 DEF Rows
<1>3. Put(tb, d, fd, entry) = [tb EXCEPT ![d] = row]  BY DEF Put
<1> HIDE DEF row
<1> QED  BY <1>2, <1>3 DEF Written

\* The places of a row, or of a single entry, that hold an entry.
Held(entries, entry) == {fd \in DOMAIN entries : entries[fd] = entry}

LEMMA AloneIs ==
    ASSUME NEW entry, NEW kept
    PROVE  Cardinality(Held(Alone(entry), kept)) = One(entry, kept)
<1>1. DOMAIN Alone(entry) = {0} /\ Alone(entry)[0] = entry  BY DEF Alone
<1>2. CASE entry = kept
  <2>1. Held(Alone(entry), kept) = {0}  BY <1>1, <1>2 DEF Held
  <2> QED  BY <1>2, <2>1, FS_Singleton DEF One
<1>3. CASE entry # kept
  <2>1. Held(Alone(entry), kept) = {}  BY <1>1, <1>3 DEF Held
  <2> QED  BY <1>3, <2>1, FS_EmptySet DEF One
<1> QED  BY <1>2, <1>3

\* Retaining by n = count references: a slot in use gains n.
LEMMA RetainedIs ==
    ASSUME NEW ev \in [EventSlots -> EventState], NEW entries, NEW e \in EventSlots, NEW n \in Nat,
           n = Cardinality(Held(entries, Event(e)))
    PROVE  /\ Retained(ev, entries)[e].refs = IF ev[e].refs = 0 THEN 0 ELSE ev[e].refs + n
           /\ Retained(ev, entries)[e] \in EventState
<1> DEFINE r == IF ev[e].refs = 0 THEN 0 ELSE ev[e].refs + n
<1>1. ev[e] \in EventState  OBVIOUS
<1>2. Retained(ev, entries)[e] = [ev[e] EXCEPT !.refs = r]
  BY DEF Retained, Event, Held
<1>3. r \in Nat  BY <1>1 DEF EventState
<1> HIDE DEF r
<1>4. [ev[e] EXCEPT !.refs = r] \in EventState /\ [ev[e] EXCEPT !.refs = r].refs = r
  BY <1>1, <1>3 DEF EventState
<1> QED  BY <1>2, <1>4 DEF r

LEMMA ReleasedIs ==
    ASSUME NEW ev \in [EventSlots -> EventState], NEW entries, NEW e \in EventSlots, NEW n \in Nat,
           n = Cardinality(Held(entries, Event(e)))
    PROVE  /\ EventsReleased(ev, entries)[e].refs
                = IF ev[e].refs <= n THEN 0 ELSE ev[e].refs - n
           /\ EventsReleased(ev, entries)[e] \in EventState
<1>1. ev[e] \in EventState /\ ev[e].refs \in Nat  BY DEF EventState
<1>2. EventsReleased(ev, entries)[e] = IF n = 0 THEN ev[e]
                                       ELSE IF ev[e].refs <= n THEN FreeEvent
                                       ELSE [ev[e] EXCEPT !.refs = @ - n]
  BY DEF EventsReleased, Event, Held
<1>3. CASE n = 0  BY <1>1, <1>2, <1>3
<1>4. CASE n # 0 /\ ev[e].refs <= n
  <2>1. FreeEvent \in EventState /\ FreeEvent.refs = 0  BY FdAssumption DEF FreeEvent, EventState
  <2> QED  BY <1>2, <1>4, <2>1
<1>5. CASE n # 0 /\ ~ (ev[e].refs <= n)
  <2> DEFINE r == ev[e].refs - n
  <2>1. r \in Nat  BY <1>1, <1>5
  <2>2. EventsReleased(ev, entries)[e] = [ev[e] EXCEPT !.refs = r]  BY <1>2, <1>5
  <2> HIDE DEF r
  <2>3. [ev[e] EXCEPT !.refs = r] \in EventState /\ [ev[e] EXCEPT !.refs = r].refs = r
    BY <1>1, <2>1 DEF EventState
  <2> QED  BY <1>5, <2>2, <2>3 DEF r
<1> QED  BY <1>3, <1>4, <1>5

LEMMA FunctionsOfSlots ==
    ASSUME NEW ev, NEW entries
    PROVE  /\ Retained(ev, entries) = [e \in EventSlots |-> Retained(ev, entries)[e]]
           /\ EventsReleased(ev, entries) = [e \in EventSlots |-> EventsReleased(ev, entries)[e]]
BY DEF Retained, EventsReleased

\* A closed entry gives its reference back.
LEMMA CloseCounts ==
    ASSUME NEW ev \in [EventSlots -> EventState], NEW tb \in [FdTables -> Rows],
           NEW used \in SUBSET FdTables, NEW d \in used, NEW fd \in FdNumbers,
           Exactly(ev, tb, used)
    PROVE  /\ EventsReleased(ev, Alone(tb[d][fd])) \in [EventSlots -> EventState]
           /\ Exactly(EventsReleased(ev, Alone(tb[d][fd])), Put(tb, d, fd, FreeEntry), used)
<1> DEFINE after == EventsReleased(ev, Alone(tb[d][fd]))
           tb2 == Put(tb, d, fd, FreeEntry)
<1>1. FreeEntry \in Entries  BY DEF Entries
<1>2. Written(tb2, tb, used, d, fd, FreeEntry)
  BY <1>1, PutIs
<1> HIDE DEF after, tb2
<1>3. ASSUME NEW e \in EventSlots
      PROVE  after[e] \in EventState /\ after[e].refs = Cardinality(Names(tb2, used, Event(e)))
  <2> DEFINE n == One(tb[d][fd], Event(e))
  <2>1. n = Cardinality(Held(Alone(tb[d][fd]), Event(e)))  BY AloneIs
  <2>2. n \in {0, 1}  BY DEF One
  <2> HIDE DEF n
  <2>3. after[e] \in EventState /\ after[e].refs = IF ev[e].refs <= n THEN 0 ELSE ev[e].refs - n
    BY <2>1, <2>2, ReleasedIs DEF after
  <2>4. One(FreeEntry, Event(e)) = 0  BY DEF FreeEntry, Event, One
  <2>5. Cardinality(Names(tb2, used, Event(e)))
          = (Cardinality(Names(tb, used, Event(e))) + One(FreeEntry, Event(e))) - n
    BY <1>2, EntryChanges DEF n
  <2>6. Cardinality(Names(tb, used, Event(e))) \in Nat
        /\ Cardinality(Names(tb2, used, Event(e))) \in Nat
    BY NamesFinite
  <2>7. ev[e].refs = Cardinality(Names(tb, used, Event(e)))  BY DEF Exactly
  <2> QED  BY <2>2, <2>3, <2>4, <2>5, <2>6, <2>7
<1>4. after = [e \in EventSlots |-> after[e]]  BY FunctionsOfSlots DEF after
<1>5. after \in [EventSlots -> EventState]  BY <1>3, <1>4
<1>6. Exactly(after, tb2, used)  BY <1>3 DEF Exactly
<1> QED  BY <1>5, <1>6 DEF after, tb2

\* A copied entry is counted.
LEMMA CopyCounts ==
    ASSUME NEW ev \in [EventSlots -> EventState], NEW tb \in [FdTables -> Rows],
           NEW used \in SUBSET FdTables, NEW d \in used, NEW fd \in FdNumbers,
           NEW b \in used, NEW old \in FdNumbers, tb[d][fd] = FreeEntry,
           Exactly(ev, tb, used)
    PROVE  /\ Retained(ev, Alone(tb[b][old])) \in [EventSlots -> EventState]
           /\ Exactly(Retained(ev, Alone(tb[b][old])), Put(tb, d, fd, tb[b][old]), used)
<1> DEFINE entry == tb[b][old]
           after == Retained(ev, Alone(entry))
           tb2 == Put(tb, d, fd, entry)
<1>1. entry \in Entries  BY DEF Rows
<1>2. Written(tb2, tb, used, d, fd, entry)
  BY <1>1, PutIs
<1>h. Cardinality(Names(tb, used, entry)) >= 1  BY HeldIsCounted
<1> HIDE DEF entry, after, tb2
<1>3. ASSUME NEW e \in EventSlots
      PROVE  after[e] \in EventState /\ after[e].refs = Cardinality(Names(tb2, used, Event(e)))
  <2> DEFINE n == One(entry, Event(e))
  <2>1. n = Cardinality(Held(Alone(entry), Event(e)))  BY AloneIs
  <2>2. n \in {0, 1} /\ (n = 1 => entry = Event(e))  BY DEF One
  <2> HIDE DEF n
  <2>3. after[e] \in EventState /\ after[e].refs = IF ev[e].refs = 0 THEN 0 ELSE ev[e].refs + n
    BY <2>1, <2>2, RetainedIs DEF after
  <2>4. One(tb[d][fd], Event(e)) = 0  BY DEF FreeEntry, Event, One
  <2>5. Cardinality(Names(tb2, used, Event(e)))
          = (Cardinality(Names(tb, used, Event(e))) + n) - One(tb[d][fd], Event(e))
    BY <1>2, EntryChanges DEF n
  <2>6. Cardinality(Names(tb, used, Event(e))) \in Nat  BY NamesFinite
  <2>7. ev[e].refs = Cardinality(Names(tb, used, Event(e)))  BY DEF Exactly
  <2>8. entry = Event(e) => ev[e].refs >= 1  BY <1>h, <2>7
  <2> QED  BY <2>2, <2>3, <2>4, <2>5, <2>6, <2>7, <2>8
<1>4. after = [e \in EventSlots |-> after[e]]  BY FunctionsOfSlots DEF after
<1>5. after \in [EventSlots -> EventState]  BY <1>3, <1>4
<1>6. Exactly(after, tb2, used)  BY <1>3 DEF Exactly
<1> QED  BY <1>5, <1>6 DEF after, tb2, entry

\* An entry that is no pipe end changes nothing for pipes.
LEMMA NoPipeKept ==
    ASSUME NEW pp, NEW tb \in [FdTables -> Rows], NEW used \in SUBSET FdTables,
           NEW d \in used, NEW fd \in FdNumbers, tb[d][fd].kind # "pipe",
           NEW entry \in Entries, entry.kind # "pipe", Outlive(pp, tb, used)
    PROVE  Outlive(pp, Put(tb, d, fd, entry), used)
<1> DEFINE tb2 == Put(tb, d, fd, entry)
<1>2. Written(tb2, tb, used, d, fd, entry)
  BY PutIs
<1> HIDE DEF tb2
<1>3. ASSUME NEW p \in PipeObjects
      PROVE  Cardinality(Names(tb2, used, PipeEnd(p))) = Cardinality(Names(tb, used, PipeEnd(p)))
  <2>1. One(entry, PipeEnd(p)) = 0 /\ One(tb[d][fd], PipeEnd(p)) = 0  BY DEF PipeEnd, One
  <2> DEFINE end == PipeEnd(p)
  <2> HIDE DEF end
  <2>2. Cardinality(Names(tb2, used, end))
          = (Cardinality(Names(tb, used, end)) + One(entry, end)) - One(tb[d][fd], end)
    BY ONLY <1>2, used \in SUBSET FdTables, d \in used, fd \in FdNumbers, EntryChanges
  <2>3. Cardinality(Names(tb, used, end)) \in Nat  BY NamesFinite
  <2> QED  BY <2>1, <2>2, <2>3 DEF end
<1>4. Outlive(pp, tb2, used)  BY <1>3 DEF Outlive
<1> QED  BY <1>4 DEF tb2

\* Closing a pipe end: kfree only when no entry is left.
LEMMA PipeCloses ==
    ASSUME pipes \in [PipeObjects -> PipeState], NEW tb \in [FdTables -> Rows],
           NEW used \in SUBSET FdTables, NEW d \in used, NEW fd \in FdNumbers,
           Outlive(pipes, tb, used)
    PROVE  /\ PipesReleased(tb[d][fd]) \in [PipeObjects -> PipeState]
           /\ Outlive(PipesReleased(tb[d][fd]), Put(tb, d, fd, FreeEntry), used)
<1> DEFINE entry == tb[d][fd]
           after == PipesReleased(entry)
           tb2 == Put(tb, d, fd, FreeEntry)
<1>1. FreeEntry \in Entries /\ FreeEntry.kind # "pipe"  BY DEF Entries, FreeEntry
<1>2. CASE entry.kind # "pipe"
  <2>1. after = pipes  BY <1>2 DEF PipesReleased
  <2> QED  BY <1>1, <1>2, <2>1, NoPipeKept
<1>3. CASE entry.kind = "pipe"
  <2>1. PICK q \in PipeObjects : entry = PipeEnd(q) /\ entry.obj = q
    <3>1. entry \in Entries  BY DEF Rows
    <3> HIDE DEF entry, after
    <3>2. entry \in [kind : {"pipe"}, obj : PipeObjects]
      BY <1>3, <3>1 DEF Entries, FreeEntry
    <3>3. entry.obj \in PipeObjects /\ entry = [kind |-> "pipe", obj |-> entry.obj]  BY <3>2
    <3> QED  BY <3>3 DEF PipeEnd
  <2>2. Written(tb2, tb, used, d, fd, FreeEntry)
    BY <1>1, PutIs
  <2>3. Cardinality(Names(tb, used, PipeEnd(q))) >= 1  BY <2>1, HeldIsCounted
  <2> DEFINE r == pipes[q].ref_count - 1
             st == IF pipes[q].ref_count <= 1 THEN "freed" ELSE pipes[q].state
             P == [pipes[q] EXCEPT !.ref_count = r, !.state = st]
  <2>4. pipes[q] \in PipeState  OBVIOUS
  <2>5. r \in Int /\ st \in {"none", "live", "freed"}  BY <2>4 DEF PipeState
  <2>6. after = [pipes EXCEPT ![q] = P]  BY <1>3, <2>1 DEF PipesReleased
  <2> HIDE DEF r, st
  <2>7. P \in PipeState /\ P.ref_count = r /\ P.state = st  BY <2>4, <2>5 DEF PipeState
  <2> HIDE DEF P, after, tb2
  <2>8. after \in [PipeObjects -> PipeState]  BY <2>6, <2>7
  <2>9. ASSUME NEW p \in PipeObjects, Cardinality(Names(tb2, used, PipeEnd(p))) > 0
        PROVE  /\ after[p].state = "live"
               /\ after[p].ref_count >= Cardinality(Names(tb2, used, PipeEnd(p)))
    <3>1. One(FreeEntry, PipeEnd(p)) = 0  BY DEF FreeEntry, PipeEnd, One
    <3>0. Cardinality(Names(tb2, used, PipeEnd(p)))
            = (Cardinality(Names(tb, used, PipeEnd(p))) + One(FreeEntry, PipeEnd(p)))
                - One(tb[d][fd], PipeEnd(p))
      BY <2>2, EntryChanges
    <3>4a. Cardinality(Names(tb, used, PipeEnd(p))) \in Nat  BY NamesFinite
    <3>2. Cardinality(Names(tb2, used, PipeEnd(p))) =
            IF tb[d][fd] = PipeEnd(p) THEN Cardinality(Names(tb, used, PipeEnd(p))) - 1
            ELSE Cardinality(Names(tb, used, PipeEnd(p)))
      BY <3>0, <3>1, <3>4a DEF One
    <3>3. Cardinality(Names(tb, used, PipeEnd(p))) \in Nat
          /\ Cardinality(Names(tb2, used, PipeEnd(p))) \in Nat
      BY NamesFinite
    <3>4. CASE p = q
      <4>1. after[p] = P  BY <2>6, <3>4
      <4>2. tb[d][fd] = PipeEnd(p)  BY <2>1, <3>4
      <4>3. pipes[p].state = "live"
            /\ pipes[p].ref_count >= Cardinality(Names(tb, used, PipeEnd(p)))
        BY <2>3, <3>3, <3>4 DEF Outlive
      <4>4. pipes[p].ref_count \in Int  BY <2>4, <3>4 DEF PipeState
      <4>5. r = pipes[p].ref_count - 1  BY <3>4 DEF r
      <4>6. st = IF pipes[p].ref_count <= 1 THEN "freed" ELSE "live"  BY <3>4, <4>3 DEF st
      <4>7. Cardinality(Names(tb2, used, PipeEnd(p))) = Cardinality(Names(tb, used, PipeEnd(p))) - 1
        BY <3>2, <4>2
      <4> QED  BY <2>7, <2>9, <3>3, <4>1, <4>3, <4>4, <4>5, <4>6, <4>7
    <3>5. CASE p # q
      <4>1. after[p] = pipes[p]  BY <2>6, <3>5
      <4>2. tb[d][fd] # PipeEnd(p)  BY <2>1, <3>5 DEF PipeEnd
      <4> QED  BY <2>9, <3>2, <3>3, <4>1, <4>2 DEF Outlive
    <3> QED  BY <3>4, <3>5
  <2>10. Outlive(after, tb2, used)  BY <2>9 DEF Outlive
  <2> QED  BY <2>8, <2>10 DEF after, tb2
<1> QED  BY <1>2, <1>3

-----------------------------------------------------------------------------
(* Tables and the tasks that share them.                                   *)

OwnersOf(u, d) == {t \in FdTasks : u[t] = d}
Owned(sh, u) == \A d \in FdTables : sh[d] = Cardinality(OwnersOf(u, d))

LEMMA OwnersFinite ==
    ASSUME NEW u, NEW d
    PROVE  /\ IsFiniteSet(OwnersOf(u, d))
           /\ Cardinality(OwnersOf(u, d)) \in 0 .. Cardinality(FdTasks)
<1>1. OwnersOf(u, d) \in SUBSET FdTasks  BY DEF OwnersOf
<1>2. IsFiniteSet(OwnersOf(u, d)) /\ Cardinality(OwnersOf(u, d)) <= Cardinality(FdTasks)
  BY <1>1, FS_Subset
<1>3. Cardinality(OwnersOf(u, d)) \in Nat /\ Cardinality(FdTasks) \in Nat
  BY <1>2, FS_CardinalityType
<1> QED  BY <1>2, <1>3

LEMMA OwnerIsCounted ==
    ASSUME NEW u, NEW t \in FdTasks
    PROVE  Cardinality(OwnersOf(u, u[t])) >= 1
<1> DEFINE N == OwnersOf(u, u[t])
<1>1. t \in N  BY DEF OwnersOf
<1>2. IsFiniteSet(N) /\ Cardinality(N) \in Nat
  BY OwnersFinite, FS_CardinalityType
<1> HIDE DEF N
<1>3. Cardinality(N) # 0  BY <1>1, <1>2, FS_EmptySet
<1>4. Cardinality(N) >= 1  BY <1>2, <1>3
<1> QED  BY <1>4 DEF N

Moved(u, t, new) == [u EXCEPT ![t] = new]

\* One task changes its table.
LEMMA OwnerMoves ==
    ASSUME NEW u \in [FdTasks -> FdTables \cup {NoTable}], NEW t \in FdTasks, NEW new,
           NEW d
    PROVE  Cardinality(OwnersOf(Moved(u, t, new), d))
             = (Cardinality(OwnersOf(u, d)) + One(new, d)) - One(u[t], d)
<1> DEFINE N == OwnersOf(u, d)
           M == OwnersOf(Moved(u, t, new), d)
<1>1. IsFiniteSet(N) /\ Cardinality(N) \in Nat  BY OwnersFinite, FS_CardinalityType
<1>2. t \in N <=> u[t] = d  BY DEF OwnersOf
<1>3. t \in M <=> new = d  BY DEF OwnersOf, Moved
<1>4. \A y \in FdTasks : y # t => (y \in M <=> y \in N)  BY DEF OwnersOf, Moved
<1>5. M \subseteq FdTasks /\ N \subseteq FdTasks  BY DEF OwnersOf
<1> HIDE DEF M, N
<1>6. Cardinality(N \cup {t}) = IF t \in N THEN Cardinality(N) ELSE Cardinality(N) + 1
  BY <1>1, FS_AddElement
<1>7. Cardinality(N \ {t}) = IF t \in N THEN Cardinality(N) - 1 ELSE Cardinality(N)
  BY <1>1, FS_RemoveElement
<1>8. CASE new = d
  <2>1. M = N \cup {t}  BY <1>3, <1>4, <1>5, <1>8
  <2>2. Cardinality(M) = (Cardinality(N) + One(new, d)) - One(u[t], d)
    BY <1>1, <1>2, <1>6, <1>8, <2>1 DEF One
  <2> QED  BY <2>2 DEF M, N
<1>9. CASE new # d
  <2>1. M = N \ {t}  BY <1>3, <1>4, <1>5, <1>9
  <2>2. Cardinality(M) = (Cardinality(N) + One(new, d)) - One(u[t], d)
    BY <1>1, <1>2, <1>7, <1>9, <2>1 DEF One
  <2> QED  BY <2>2 DEF M, N
<1> QED  BY <1>8, <1>9

-----------------------------------------------------------------------------
(* The inductive invariant.                                                *)

Detached == \A t \in FdTasks : uses[t] = NoTable => blocked[t] = NoCall

Typed ==
    /\ table \in [FdTables -> Rows]
    /\ uses \in [FdTasks -> FdTables \cup {NoTable}]
    /\ events \in [EventSlots -> EventState]
    /\ pipes \in [PipeObjects -> PipeState]
    /\ blocked \in [FdTasks -> Calls]

Waiting(t, call) ==
    call # NoCall => EntryOf(t, call.fd).obj = call.obj /\ EntryOf(t, call.fd) # FreeEntry

FdInv ==
    /\ Typed
    /\ sharers \in [FdTables -> 0 .. Cardinality(FdTasks)]
    /\ Owned(sharers, uses)
    /\ Exactly(events, table, TablesInUse)
    /\ Outlive(pipes, table, TablesInUse)
    /\ \A t \in FdTasks : Waiting(t, blocked[t])
    /\ Detached

LEMMA FdInvIsSafe == FdInv => DescriptorsSafe
<1> SUFFICES ASSUME FdInv PROVE DescriptorsSafe  OBVIOUS
<1>1. FdTypeOK  BY DEF FdInv, Typed, FdTypeOK, Rows, Entries, EventState, PipeState
<1>2. RefsMatchEntries
  BY DEF FdInv, Exactly, Owned, OwnersOf, RefsMatchEntries, Naming, Names, Event
<1>3. PipesOutliveEnds  BY DEF FdInv, Outlive, PipesOutliveEnds, Naming, Names, PipeEnd
<1>4. WaitersKeepObject  BY DEF FdInv, Waiting, WaitersKeepObject
<1> QED  BY <1>1, <1>2, <1>3, <1>4 DEF DescriptorsSafe

LEMMA InUse ==
    ASSUME FdInv
    PROVE  /\ TablesInUse \in SUBSET FdTables
           /\ \A t \in FdTasks : uses[t] # NoTable =>
                uses[t] \in FdTables /\ uses[t] \in TablesInUse
           /\ \A d \in FdTables : sharers[d] \in Nat
           /\ \A d \in FdTables : d \notin TablesInUse => sharers[d] = 0
<1>1. \A d \in FdTables : sharers[d] \in Nat  BY DEF FdInv
<1>2. ASSUME NEW t \in FdTasks, uses[t] # NoTable
      PROVE  uses[t] \in FdTables /\ uses[t] \in TablesInUse
  <2>1. uses[t] \in FdTables  BY <1>2 DEF FdInv, Typed
  <2>2. Cardinality(OwnersOf(uses, uses[t])) >= 1  BY OwnerIsCounted
  <2>3. sharers[uses[t]] >= 1  BY <2>1, <2>2 DEF FdInv, Owned
  <2> QED  BY <1>1, <2>1, <2>3 DEF TablesInUse
<1> QED  BY <1>1, <1>2 DEF TablesInUse

\* tb2 leaves the entries on which calls wait as they are in tb.
Undisturbed(tb2, tb) ==
    \A u \in FdTasks : blocked[u] # NoCall =>
        tb2[uses[u]][blocked[u].fd] = tb[uses[u]][blocked[u].fd]

\* A call that changes entries of the caller's table and the objects.
LEMMA TableCall ==
    ASSUME FdInv, UNCHANGED <<sharers, uses, blocked>>,
           table' \in [FdTables -> Rows], events' \in [EventSlots -> EventState],
           pipes' \in [PipeObjects -> PipeState],
           Exactly(events', table', TablesInUse), Outlive(pipes', table', TablesInUse),
           Undisturbed(table', table)
    PROVE  FdInv'
<1>1. Typed'  BY DEF FdInv, Typed
<1>2. TablesInUse' = TablesInUse  BY DEF TablesInUse
<1>3. Owned(sharers, uses)'  BY DEF FdInv, Owned, OwnersOf
<1>4. Exactly(events, table, TablesInUse)'  BY <1>2 DEF Exactly, Names
<1>5. Outlive(pipes, table, TablesInUse)'  BY <1>2 DEF Outlive, Names
<1>6. (\A t \in FdTasks : Waiting(t, blocked[t]))'
  BY DEF FdInv, Waiting, EntryOf, Undisturbed
<1>7. Detached'  BY DEF FdInv, Detached
<1>8. (sharers \in [FdTables -> 0 .. Cardinality(FdTasks)])'  BY DEF FdInv
<1> QED  BY <1>1, <1>3, <1>4, <1>5, <1>6, <1>7, <1>8 DEF FdInv

\* Writing a free entry, or one nobody waits on, does not disturb waiters.
LEMMA WaitersUndisturbed ==
    ASSUME FdInv, ClosesWaited = FALSE, NEW t \in FdTasks, Ready(t), NEW fd \in FdNumbers,
           EntryOf(t, fd) = FreeEntry \/ MayClose(t, fd), NEW entry \in Entries,
           NEW tb \in [FdTables -> Rows]
    PROVE  Undisturbed(Put(tb, uses[t], fd, entry), tb)
<1> SUFFICES ASSUME NEW u \in FdTasks, blocked[u] # NoCall
             PROVE  Put(tb, uses[t], fd, entry)[uses[u]][blocked[u].fd]
                      = tb[uses[u]][blocked[u].fd]
  BY DEF Undisturbed
<1>1. uses[u] \in FdTables /\ uses[t] \in FdTables /\ uses[t] # NoTable /\ u # t
  BY InUse DEF FdInv, Detached, Ready
<1>2. Written(Put(tb, uses[t], fd, entry), tb, FdTables, uses[t], fd, entry)
  BY <1>1, PutIs
<1>3. blocked[u] \in Calls  BY DEF FdInv, Typed
<1>4. blocked[u].fd \in FdNumbers  BY <1>3 DEF Calls
<1>5. ~ (uses[u] = uses[t] /\ blocked[u].fd = fd)
  <2>1. CASE EntryOf(t, fd) = FreeEntry
    BY <2>1 DEF FdInv, Waiting, EntryOf
  <2>2. CASE MayClose(t, fd)  BY <1>1, <2>2 DEF MayClose
  <2> QED  BY <2>1, <2>2
<1> QED  BY <1>1, <1>2, <1>4, <1>5 DEF Written

\* A call that changes neither tables nor counts.
LEMMA ObjectCall ==
    ASSUME FdInv, UNCHANGED <<table, sharers, uses>>, NEW t \in FdTasks, uses[t] # NoTable,
           NEW call \in Calls, blocked' = [blocked EXCEPT ![t] = call], Waiting(t, call),
           events' \in [EventSlots -> EventState],
           \A e \in EventSlots : events'[e].refs = events[e].refs,
           pipes' \in [PipeObjects -> PipeState],
           \A p \in PipeObjects : /\ pipes'[p].state = pipes[p].state
                                  /\ pipes'[p].ref_count = pipes[p].ref_count
    PROVE  FdInv'
<1>1. Typed'  BY DEF FdInv, Typed
<1>2. TablesInUse' = TablesInUse  BY DEF TablesInUse
<1>3. Owned(sharers, uses)'  BY DEF FdInv, Owned, OwnersOf
<1>4. Exactly(events, table, TablesInUse)'  BY <1>2, ZenonT(40) DEF FdInv, Exactly, Names
<1>5. Outlive(pipes, table, TablesInUse)'  BY <1>2 DEF FdInv, Outlive, Names
<1>6. \A u \in FdTasks : blocked'[u] = IF u = t THEN call ELSE blocked[u]
  BY DEF FdInv, Typed
<1>7. (\A u \in FdTasks : Waiting(u, blocked[u]))'
  BY <1>6 DEF FdInv, Waiting, EntryOf
<1>8. Detached'  BY <1>6 DEF FdInv, Detached
<1>9. (sharers \in [FdTables -> 0 .. Cardinality(FdTasks)])'  BY DEF FdInv
<1> QED  BY <1>1, <1>3, <1>4, <1>5, <1>7, <1>8, <1>9 DEF FdInv

LEMMA EntryKinds ==
    ASSUME FdInv, NEW t \in FdTasks, uses[t] # NoTable, NEW fd \in FdNumbers
    PROVE  /\ EntryOf(t, fd) \in Entries
           /\ EntryOf(t, fd).kind = "event" =>
                EntryOf(t, fd).obj \in EventSlots /\ EntryOf(t, fd) # FreeEntry
           /\ EntryOf(t, fd).kind = "pipe" =>
                EntryOf(t, fd).obj \in PipeObjects /\ EntryOf(t, fd) # FreeEntry
<1>1. EntryOf(t, fd) \in Entries
  <2>1. uses[t] \in FdTables  BY DEF FdInv, Typed
  <2>2. table[uses[t]] \in Rows  BY <2>1 DEF FdInv, Typed
  <2> QED  BY <2>2 DEF Rows, EntryOf
<1> DEFINE entry == EntryOf(t, fd)
<1> HIDE DEF entry
<1>2. entry \in Entries  BY <1>1 DEF entry
<1>3. /\ entry.kind = "event" => entry.obj \in EventSlots /\ entry # FreeEntry
      /\ entry.kind = "pipe" => entry.obj \in PipeObjects /\ entry # FreeEntry
  BY <1>2 DEF Entries, FreeEntry
<1> QED  BY <1>2, <1>3 DEF entry

LEMMA CallKinds ==
    ASSUME NEW c \in Calls
    PROVE  /\ c.call \in {"event_read", "event_write", "pipe_read", "pipe_write"} => c # NoCall
           /\ c.call = "event_read" => c.fd \in FdNumbers /\ c.obj \in EventSlots
           /\ c.call = "event_write" =>
                c.fd \in FdNumbers /\ c.obj \in EventSlots /\ c.n \in 1 .. EventMax
           /\ c.call = "pipe_read" => c.fd \in FdNumbers /\ c.obj \in PipeObjects
           /\ c.call = "pipe_write" =>
                c.fd \in FdNumbers /\ c.obj \in PipeObjects /\ c.n \in 1 .. PipeRoom + 1
BY DEF Calls, NoCall

LEMMA FreeIs ==
    ASSUME NEW t \in FdTasks, NEW low, FreeFrom(t, low) # {}
    PROVE  Min(FreeFrom(t, low)) \in FdNumbers /\ EntryOf(t, Min(FreeFrom(t, low))) = FreeEntry
<1>1. FreeFrom(t, low) \in SUBSET Nat  BY FdAssumption DEF FreeFrom
<1>2. Min(FreeFrom(t, low)) \in FreeFrom(t, low)  BY <1>1, MinIs
<1> QED  BY <1>2 DEF FreeFrom

-----------------------------------------------------------------------------
(* Calls on the table. *)

LEMMA EventfdKeeps ==
    ASSUME FdInv, CopiesPipes = FALSE, ClosesWaited = FALSE, NEW t \in FdTasks,
           NEW value \in 0 .. 1, NEW semaphore \in BOOLEAN,
           linux_compat_eventfd2(t, value, semaphore)
    PROVE  FdInv'
<1> DEFINE idle == {e \in EventSlots : events[e].refs = 0}
           m == Min(idle)
           d == uses[t]
           fd == Min(FreeFrom(t, FirstFd))
           entry == Event(m)
           state == [refs |-> 1, value |-> value, semaphore |-> semaphore]
<1>1. m \in EventSlots /\ events[m].refs = 0
  <2>1. idle \in SUBSET Nat /\ idle # {}  BY FdAssumption DEF linux_compat_eventfd2
  <2>2. m \in idle  BY <2>1, MinIs
  <2> QED  BY <2>2
<1>2. fd \in FdNumbers /\ EntryOf(t, fd) = FreeEntry
  BY FreeIs DEF linux_compat_eventfd2
<1>3. Ready(t)  BY DEF linux_compat_eventfd2
<1>4. d \in FdTables /\ d \in TablesInUse /\ TablesInUse \in SUBSET FdTables
  BY <1>3, InUse DEF Ready
<1>5. entry \in Entries  BY <1>1 DEF Entries, Event
<1>6. table' = Put(table, d, fd, entry)  BY DEF linux_compat_eventfd2, Put, Event
<1>7. events' = [events EXCEPT ![m] = state]  BY DEF linux_compat_eventfd2
<1>8. state \in EventState /\ state.refs = 1  BY FdAssumption DEF EventState
<1>9. table[d][fd] = FreeEntry  BY <1>2 DEF EntryOf
<1>10. UNCHANGED <<sharers, uses, pipes, blocked>>  BY DEF linux_compat_eventfd2
<1>11. entry.kind = "event"  BY DEF Event
<1> HIDE DEF d, m, fd, state
<1>12. table \in [FdTables -> Rows] /\ events \in [EventSlots -> EventState]
       /\ pipes \in [PipeObjects -> PipeState]
  BY DEF FdInv, Typed
<1>13. table' \in [FdTables -> Rows] /\ Written(table', table, TablesInUse, d, fd, entry)
  BY <1>2, <1>4, <1>5, <1>6, <1>12, PutIs
<1>14. events' \in [EventSlots -> EventState]  BY <1>1, <1>7, <1>8, <1>12
<1>15. Exactly(events', table', TablesInUse)
  <2> SUFFICES ASSUME NEW e \in EventSlots
               PROVE  events'[e].refs = Cardinality(Names(table', TablesInUse, Event(e)))
    BY DEF Exactly
  <2>1. Cardinality(Names(table', TablesInUse, Event(e)))
          = (Cardinality(Names(table, TablesInUse, Event(e))) + One(entry, Event(e)))
              - One(table[d][fd], Event(e))
    BY <1>2, <1>4, <1>13, EntryChanges
  <2>2. One(table[d][fd], Event(e)) = 0  BY <1>9 DEF One, FreeEntry, Event
  <2>3. One(entry, Event(e)) = IF e = m THEN 1 ELSE 0  BY DEF One, Event
  <2>4. events[e].refs = Cardinality(Names(table, TablesInUse, Event(e)))
    BY DEF FdInv, Exactly
  <2>5. Cardinality(Names(table, TablesInUse, Event(e))) \in Nat  BY <1>4, NamesFinite
  <2>6. events'[e] = IF e = m THEN state ELSE events[e]  BY <1>7, <1>12
  <2> HIDE DEF entry
  <2> QED  BY <1>1, <1>8, <2>1, <2>2, <2>3, <2>4, <2>5, <2>6
<1>16. Outlive(pipes', table', TablesInUse)
  <2>1. table[d][fd].kind # "pipe"  BY <1>9 DEF FreeEntry
  <2>2. Outlive(pipes, table, TablesInUse)  BY DEF FdInv
  <2> HIDE DEF entry
  <2> QED  BY <1>2, <1>4, <1>5, <1>6, <1>10, <1>11, <1>12, <2>1, <2>2, NoPipeKept
<1>17. Undisturbed(table', table)
  BY <1>2, <1>3, <1>5, <1>6, <1>12, WaitersUndisturbed DEF d
<1> QED  BY <1>10, <1>12, <1>13, <1>14, <1>15, <1>16, <1>17, TableCall

LEMMA PipeKeeps ==
    ASSUME FdInv, CopiesPipes = FALSE, ClosesWaited = FALSE, NEW t \in FdTasks, pipe(t)
    PROVE  FdInv'
<1> DEFINE d == uses[t]
           fds == FreeFrom(t, FirstFd)
           r == Min(fds)
           w == Min(fds \ {r})
           free == {q \in PipeObjects : pipes[q].state # "live"}
           p == Min(free)
           entry == PipeEnd(p)
           state == [state |-> "live", ref_count |-> 2, count |-> 0]
           tb == Put(table, d, r, entry)
<1>1. Ready(t) /\ UNCHANGED <<sharers, uses, events, blocked>>  BY DEF pipe
<1>2. fds \in SUBSET Nat /\ fds \in SUBSET FdNumbers /\ Cardinality(fds) >= 2
  BY FdAssumption DEF pipe, FreeFrom
<1>3. r \in FdNumbers /\ EntryOf(t, r) = FreeEntry
  <2>1. fds # {}  BY <1>2, FS_EmptySet
  <2> QED  BY <2>1, FreeIs
<1>4. w \in fds \ {r}
  <2>1. IsFiniteSet(fds)  BY <1>2, FdAssumption, FS_Subset
  <2> HIDE DEF fds, r, w
  <2>2. Cardinality({r}) = 1  BY FS_Singleton
  <2>3. fds \ {r} # {}
    <3>1. SUFFICES ASSUME fds \ {r} = {} PROVE FALSE  OBVIOUS
    <3>2. Cardinality(fds \ {r}) = IF r \in fds THEN Cardinality(fds) - 1 ELSE Cardinality(fds)
      BY <2>1, FS_RemoveElement
    <3>3. Cardinality(fds) \in Nat  BY <2>1, FS_CardinalityType
    <3> QED  BY <1>2, <3>1, <3>2, <3>3, FS_EmptySet
  <2>4. fds \ {r} \in SUBSET Nat  BY <1>2
  <2> QED  BY <2>3, <2>4, MinIs DEF w
<1>5. w \in FdNumbers /\ EntryOf(t, w) = FreeEntry /\ w # r  BY <1>4 DEF FreeFrom
<1>6. p \in PipeObjects /\ pipes[p].state # "live"
  <2>1. free \in SUBSET Nat /\ free # {}  BY FdAssumption DEF pipe
  <2>2. p \in free  BY <2>1, MinIs
  <2> QED  BY <2>2
<1>7. d \in FdTables /\ d \in TablesInUse /\ TablesInUse \in SUBSET FdTables
  BY <1>1, InUse DEF Ready
<1>8. entry \in Entries  BY <1>6 DEF Entries, PipeEnd
<1>9. table \in [FdTables -> Rows] /\ events \in [EventSlots -> EventState]
      /\ pipes \in [PipeObjects -> PipeState]
  BY DEF FdInv, Typed
<1>10. table' = Put(tb, d, w, entry)
  <2>1. table' = [table EXCEPT ![d] = [table[d] EXCEPT ![r] = entry, ![w] = entry]]
    BY <1>7, <1>9 DEF pipe, PipeEnd
  <2>2. tb[d] = [table[d] EXCEPT ![r] = entry]  BY <1>7, <1>9 DEF Put
  <2>3. Put(tb, d, w, entry) = [tb EXCEPT ![d] = [tb[d] EXCEPT ![w] = entry]]  BY DEF Put
  <2>4. tb = [table EXCEPT ![d] = tb[d]]  BY <2>2 DEF Put
  <2>5. [table[d] EXCEPT ![r] = entry, ![w] = entry] = [tb[d] EXCEPT ![w] = entry]
    BY <2>2
  <2> HIDE DEF tb, entry
  <2>6. [tb EXCEPT ![d] = [tb[d] EXCEPT ![w] = entry]]
          = [table EXCEPT ![d] = [tb[d] EXCEPT ![w] = entry]]
    BY <2>4
  <2> QED  BY <2>1, <2>3, <2>5, <2>6
<1>11. pipes' = [pipes EXCEPT ![p] = state]  BY DEF pipe
<1>12. state \in PipeState /\ state.state = "live" /\ state.ref_count = 2
  BY FdAssumption DEF PipeState
<1>13. table[d][r] = FreeEntry /\ table[d][w] = FreeEntry  BY <1>3, <1>5 DEF EntryOf
<1> HIDE DEF d, r, w, p, state, fds, free
<1>14. tb \in [FdTables -> Rows] /\ Written(tb, table, TablesInUse, d, r, entry)
  BY <1>3, <1>7, <1>8, <1>9, PutIs
<1>15. tb[d][w] = FreeEntry  BY <1>5, <1>7, <1>13, <1>14 DEF Written
<1> HIDE DEF tb
<1>16. table' \in [FdTables -> Rows] /\ Written(table', tb, TablesInUse, d, w, entry)
  BY <1>5, <1>7, <1>8, <1>10, <1>14, PutIs
<1>17. \A held : Cardinality(Names(table', TablesInUse, held))
                   = Cardinality(Names(table, TablesInUse, held))
                       + 2 * (One(entry, held) - One(FreeEntry, held))
  <2> TAKE held
  <2>1. Cardinality(Names(tb, TablesInUse, held))
          = (Cardinality(Names(table, TablesInUse, held)) + One(entry, held))
              - One(table[d][r], held)
    BY <1>3, <1>7, <1>14, EntryChanges
  <2>2. Cardinality(Names(table', TablesInUse, held))
          = (Cardinality(Names(tb, TablesInUse, held)) + One(entry, held))
              - One(tb[d][w], held)
    BY <1>5, <1>7, <1>16, EntryChanges
  <2>3. Cardinality(Names(table, TablesInUse, held)) \in Nat  BY <1>7, NamesFinite
  <2>4. One(entry, held) \in Nat /\ One(FreeEntry, held) \in Nat  BY DEF One
  <2> HIDE DEF entry
  <2> QED  BY <1>13, <1>15, <2>1, <2>2, <2>3, <2>4
<1>18. Exactly(events', table', TablesInUse)
  <2> SUFFICES ASSUME NEW e \in EventSlots
               PROVE  events'[e].refs = Cardinality(Names(table', TablesInUse, Event(e)))
    BY DEF Exactly
  <2>1. One(entry, Event(e)) = 0 /\ One(FreeEntry, Event(e)) = 0
    BY DEF One, FreeEntry, Event, PipeEnd
  <2>2. events[e].refs = Cardinality(Names(table, TablesInUse, Event(e)))
    BY DEF FdInv, Exactly
  <2>3. Cardinality(Names(table, TablesInUse, Event(e))) \in Nat  BY <1>7, NamesFinite
  <2> QED  BY <1>1, <1>17, <2>1, <2>2, <2>3
<1>19. Outlive(pipes', table', TablesInUse)
  <2> SUFFICES ASSUME NEW q \in PipeObjects,
                      Cardinality(Names(table', TablesInUse, PipeEnd(q))) > 0
               PROVE  pipes'[q].state = "live" /\ pipes'[q].ref_count >=
                        Cardinality(Names(table', TablesInUse, PipeEnd(q)))
    BY DEF Outlive
  <2>1. One(entry, PipeEnd(q)) = (IF q = p THEN 1 ELSE 0) /\ One(FreeEntry, PipeEnd(q)) = 0
    BY DEF One, FreeEntry, PipeEnd
  <2>2. Cardinality(Names(table, TablesInUse, PipeEnd(q))) > 0 =>
          /\ pipes[q].state = "live"
          /\ pipes[q].ref_count >= Cardinality(Names(table, TablesInUse, PipeEnd(q)))
    BY DEF FdInv, Outlive
  <2>3. Cardinality(Names(table, TablesInUse, PipeEnd(q))) \in Nat  BY <1>7, NamesFinite
  <2>4. pipes'[q] = IF q = p THEN state ELSE pipes[q]  BY <1>9, <1>11
  <2>5. Cardinality(Names(table', TablesInUse, PipeEnd(q)))
          = Cardinality(Names(table, TablesInUse, PipeEnd(q))) + 2 * (IF q = p THEN 1 ELSE 0)
    BY <1>17, <2>1, <2>3
  <2> HIDE DEF entry
  <2> QED  BY <1>6, <1>12, <2>2, <2>3, <2>4, <2>5
<1>20. pipes' \in [PipeObjects -> PipeState]  BY <1>6, <1>9, <1>11, <1>12
<1>21. Undisturbed(table', table)
  <2>1. Undisturbed(table', tb)
    BY <1>1, <1>5, <1>8, <1>10, <1>14, WaitersUndisturbed DEF d
  <2>2. Undisturbed(tb, table)
    BY <1>1, <1>3, <1>8, <1>9, WaitersUndisturbed DEF d, tb
  <2> QED  BY <2>1, <2>2 DEF Undisturbed
<1> QED  BY <1>1, <1>9, <1>16, <1>18, <1>19, <1>20, <1>21, TableCall

LEMMA CloseKeeps ==
    ASSUME FdInv, CopiesPipes = FALSE, ClosesWaited = FALSE, NEW t \in FdTasks,
           NEW fd \in FdNumbers, close(t, fd)
    PROVE  FdInv'
<1> DEFINE d == uses[t]
<1>1. Ready(t) /\ MayClose(t, fd) /\ UNCHANGED <<sharers, uses, blocked>>  BY DEF close
<1>2. d \in FdTables /\ d \in TablesInUse /\ TablesInUse \in SUBSET FdTables
  BY <1>1, InUse DEF Ready
<1>3. FreeEntry \in Entries  BY DEF Entries
<1>4. table \in [FdTables -> Rows] /\ events \in [EventSlots -> EventState]
      /\ pipes \in [PipeObjects -> PipeState]
  BY DEF FdInv, Typed
<1>5. /\ table' = Put(table, d, fd, FreeEntry)
      /\ events' = EventsReleased(events, Alone(table[d][fd]))
      /\ pipes' = PipesReleased(table[d][fd])
  BY DEF close, Put, EntryOf
<1>6. Exactly(events, table, TablesInUse) /\ Outlive(pipes, table, TablesInUse)
  BY DEF FdInv
<1> HIDE DEF d
<1>7. events' \in [EventSlots -> EventState] /\ Exactly(events', table', TablesInUse)
  BY <1>2, <1>4, <1>5, <1>6, CloseCounts
<1>8. pipes' \in [PipeObjects -> PipeState] /\ Outlive(pipes', table', TablesInUse)
  BY <1>2, <1>4, <1>5, <1>6, PipeCloses
<1>9. table' \in [FdTables -> Rows]  BY <1>2, <1>3, <1>4, <1>5, PutIs
<1>10. Undisturbed(table', table)
  BY <1>1, <1>3, <1>4, <1>5, WaitersUndisturbed DEF d
<1> QED  BY <1>1, <1>7, <1>8, <1>9, <1>10, TableCall

LEMMA DupKeeps ==
    ASSUME FdInv, CopiesPipes = FALSE, ClosesWaited = FALSE, NEW t \in FdTasks,
           NEW old \in FdNumbers, Dup(t, old)
    PROVE  FdInv'
<1> DEFINE d == uses[t]
           fd == Min(FreeFrom(t, 0))
           entry == table[d][old]
<1>1. Ready(t) /\ UNCHANGED <<sharers, uses, pipes, blocked>>  BY DEF Dup
<1>2. d \in FdTables /\ d \in TablesInUse /\ TablesInUse \in SUBSET FdTables
  BY <1>1, InUse DEF Ready
<1>3. fd \in FdNumbers /\ EntryOf(t, fd) = FreeEntry  BY FreeIs DEF Dup
<1>4. table \in [FdTables -> Rows] /\ events \in [EventSlots -> EventState]
      /\ pipes \in [PipeObjects -> PipeState]
  BY DEF FdInv, Typed
<1>5. /\ table' = Put(table, d, fd, entry)
      /\ events' = Retained(events, Alone(entry))
      /\ entry.kind # "pipe"
  BY DEF Dup, Put, EntryOf, MayCopy
<1>6. Exactly(events, table, TablesInUse) /\ Outlive(pipes, table, TablesInUse)
  BY DEF FdInv
<1>7. entry \in Entries  BY <1>1, EntryKinds DEF Ready, EntryOf
<1>8. table[d][fd] = FreeEntry  BY <1>3 DEF EntryOf
<1> HIDE DEF d, fd
<1>9. events' \in [EventSlots -> EventState] /\ Exactly(events', table', TablesInUse)
  BY <1>2, <1>3, <1>4, <1>5, <1>6, <1>8, CopyCounts
<1> HIDE DEF entry
<1>10. Outlive(pipes', table', TablesInUse)
  <2>1. table[d][fd].kind # "pipe"  BY <1>8 DEF FreeEntry
  <2> QED  BY <1>1, <1>2, <1>3, <1>4, <1>5, <1>6, <1>7, <2>1, NoPipeKept
<1>11. table' \in [FdTables -> Rows]  BY <1>2, <1>3, <1>4, <1>5, <1>7, PutIs
<1>12. Undisturbed(table', table)
  BY <1>1, <1>3, <1>4, <1>5, <1>7, WaitersUndisturbed DEF d
<1> QED  BY <1>1, <1>4, <1>9, <1>10, <1>11, <1>12, TableCall

LEMMA Dup2Keeps ==
    ASSUME FdInv, CopiesPipes = FALSE, ClosesWaited = FALSE, NEW t \in FdTasks,
           NEW old \in FdNumbers, NEW new \in FdNumbers, Dup2(t, old, new)
    PROVE  FdInv'
<1> DEFINE d == uses[t]
           entry == table[d][old]
           gone == table[d][new]
           tb == Put(table, d, new, FreeEntry)
           ev == EventsReleased(events, Alone(gone))
<1>1. Ready(t) /\ MayClose(t, new) /\ old # new /\ UNCHANGED <<sharers, uses, blocked>>
  BY DEF Dup2
<1>2. d \in FdTables /\ d \in TablesInUse /\ TablesInUse \in SUBSET FdTables
  BY <1>1, InUse DEF Ready
<1>3. FreeEntry \in Entries  BY DEF Entries
<1>4. table \in [FdTables -> Rows] /\ events \in [EventSlots -> EventState]
      /\ pipes \in [PipeObjects -> PipeState]
  BY DEF FdInv, Typed
<1>5. /\ table' = Put(table, d, new, entry)
      /\ events' = Retained(ev, Alone(entry))
      /\ pipes' = PipesReleased(gone)
      /\ entry.kind # "pipe"
  BY DEF Dup2, Put, EntryOf, MayCopy
<1>6. Exactly(events, table, TablesInUse) /\ Outlive(pipes, table, TablesInUse)
  BY DEF FdInv
<1>7. entry \in Entries  BY <1>1, EntryKinds DEF Ready, EntryOf
<1> HIDE DEF d
<1>8. tb \in [FdTables -> Rows] /\ Written(tb, table, TablesInUse, d, new, FreeEntry)
  BY <1>2, <1>3, <1>4, PutIs
<1>9. tb[d][new] = FreeEntry /\ tb[d][old] = entry  BY <1>1, <1>2, <1>8 DEF Written
<1>10. table' = Put(tb, d, new, entry)
  <2> HIDE DEF entry
  <2>1. tb[d] = [table[d] EXCEPT ![new] = FreeEntry]  BY <1>2, <1>4 DEF Put
  <2>2. tb = [table EXCEPT ![d] = tb[d]]  BY <2>1 DEF Put
  <2>3. [tb[d] EXCEPT ![new] = entry] = [table[d] EXCEPT ![new] = entry]  BY <2>1
  <2> HIDE DEF tb
  <2>4. [tb EXCEPT ![d] = [tb[d] EXCEPT ![new] = entry]]
          = [table EXCEPT ![d] = [tb[d] EXCEPT ![new] = entry]]
    BY <2>2
  <2> QED  BY <1>5, <2>3, <2>4 DEF Put
<1>11. ev \in [EventSlots -> EventState] /\ Exactly(ev, tb, TablesInUse)
  BY <1>2, <1>4, <1>6, CloseCounts
<1>12. pipes' \in [PipeObjects -> PipeState] /\ Outlive(pipes', tb, TablesInUse)
  BY <1>2, <1>4, <1>5, <1>6, PipeCloses
<1> HIDE DEF ev, tb
<1>13. events' \in [EventSlots -> EventState] /\ Exactly(events', table', TablesInUse)
  <2>1. events' = Retained(ev, Alone(tb[d][old])) /\ table' = Put(tb, d, new, tb[d][old])
    BY <1>5, <1>9, <1>10
  <2> QED  BY <1>2, <1>8, <1>9, <1>11, <2>1, CopyCounts
<1> HIDE DEF entry
<1>14. Outlive(pipes', table', TablesInUse)
  <2>1. tb[d][new].kind # "pipe"  BY <1>9 DEF FreeEntry
  <2> QED  BY <1>2, <1>5, <1>7, <1>8, <1>10, <1>12, <2>1, NoPipeKept
<1>15. table' \in [FdTables -> Rows]  BY <1>2, <1>4, <1>5, <1>7, PutIs
<1>16. Undisturbed(table', table)
  BY <1>1, <1>4, <1>5, <1>7, WaitersUndisturbed DEF d
<1> QED  BY <1>1, <1>12, <1>13, <1>14, <1>15, <1>16, TableCall

-----------------------------------------------------------------------------
(* Calls on objects. *)

LEMMA MinOfTwo ==
    ASSUME NEW a \in Int, NEW b \in Int
    PROVE  Min({a, b}) = IF a <= b THEN a ELSE b
<1>1. \E x \in {a, b} : \A y \in {a, b} : x <= y  OBVIOUS
<1>2. Min({a, b}) \in {a, b} /\ \A y \in {a, b} : Min({a, b}) <= y  BY <1>1 DEF Min
<1> QED  BY <1>2

LEMMA TookIs ==
    ASSUME FdInv, NEW e \in EventSlots, events[e].value > 0
    PROVE  Took(e) \in [EventSlots -> EventState]
           /\ \A f \in EventSlots : Took(e)[f].refs = events[f].refs
<1> DEFINE v == IF events[e].semaphore THEN events[e].value - 1 ELSE 0
           after == [events[e] EXCEPT !.value = v]
<1>1. events[e] \in EventState /\ events \in [EventSlots -> EventState]  BY DEF FdInv, Typed
<1>2. v \in 0 .. EventMax
  <2>1. events[e].value \in 0 .. EventMax  BY <1>1 DEF EventState
  <2> QED  BY <2>1, FdAssumption
<1>3. Took(e) = [events EXCEPT ![e] = after]  BY <1>1 DEF Took
<1> HIDE DEF v
<1>4. after \in EventState /\ after.refs = events[e].refs  BY <1>1, <1>2 DEF EventState
<1> HIDE DEF after
<1> QED  BY <1>1, <1>3, <1>4

Added(e, n) == [events EXCEPT ![e].value = @ + n]

LEMMA AddedIs ==
    ASSUME FdInv, NEW e \in EventSlots, NEW n \in 1 .. EventMax, Fits(e, n)
    PROVE  Added(e, n) \in [EventSlots -> EventState]
           /\ \A f \in EventSlots : Added(e, n)[f].refs = events[f].refs
<1> DEFINE v == events[e].value + n
           after == [events[e] EXCEPT !.value = v]
<1>1. events[e] \in EventState /\ events \in [EventSlots -> EventState]  BY DEF FdInv, Typed
<1>2. v \in 0 .. EventMax
  <2>1. events[e].value \in 0 .. EventMax  BY <1>1 DEF EventState
  <2> QED  BY <2>1, FdAssumption DEF Fits
<1>3. Added(e, n) = [events EXCEPT ![e] = after]  BY <1>1 DEF Added
<1> HIDE DEF v
<1>4. after \in EventState /\ after.refs = events[e].refs  BY <1>1, <1>2 DEF EventState
<1> HIDE DEF after
<1> QED  BY <1>1, <1>3, <1>4

LEMMA EventReadKeeps ==
    ASSUME FdInv, NEW t \in FdTasks, NEW fd \in FdNumbers, event_read(t, fd)
    PROVE  FdInv'
<1> DEFINE e == EntryOf(t, fd).obj
           call == IF events[e].value > 0 THEN NoCall
                   ELSE [call |-> "event_read", fd |-> fd, obj |-> e]
<1>1. Ready(t) /\ EntryOf(t, fd).kind = "event" /\ UNCHANGED <<table, sharers, uses, pipes>>
  BY DEF event_read
<1>2. e \in EventSlots /\ EntryOf(t, fd) # FreeEntry  BY <1>1, EntryKinds DEF Ready
<1>3. events \in [EventSlots -> EventState] /\ pipes \in [PipeObjects -> PipeState]
      /\ blocked \in [FdTasks -> Calls] /\ blocked[t] = NoCall
  BY <1>1 DEF FdInv, Typed, Ready
<1>4. events' \in [EventSlots -> EventState]
      /\ \A f \in EventSlots : events'[f].refs = events[f].refs
  <2>1. CASE events[e].value > 0
    <3>1. events' = Took(e)  BY <2>1 DEF event_read
    <3> QED  BY <1>2, <2>1, <3>1, TookIs
  <2>2. CASE ~ (events[e].value > 0)
    <3>1. events' = events  BY <2>2 DEF event_read
    <3> QED  BY <1>3, <3>1
  <2> QED  BY <2>1, <2>2
<1>5. call \in Calls  BY <1>2 DEF Calls
<1>6. blocked' = [blocked EXCEPT ![t] = call]  BY <1>3 DEF event_read
<1>7. Waiting(t, call)  BY <1>2 DEF Waiting
<1> HIDE DEF call
<1> QED  BY <1>1, <1>3, <1>4, <1>5, <1>6, <1>7, ObjectCall DEF Ready

LEMMA EventWriteKeeps ==
    ASSUME FdInv, NEW t \in FdTasks, NEW fd \in FdNumbers, NEW n \in 1 .. EventMax,
           event_write(t, fd, n)
    PROVE  FdInv'
<1> DEFINE e == EntryOf(t, fd).obj
           call == IF Fits(e, n) THEN NoCall
                   ELSE [call |-> "event_write", fd |-> fd, obj |-> e, n |-> n]
<1>1. Ready(t) /\ EntryOf(t, fd).kind = "event" /\ UNCHANGED <<table, sharers, uses, pipes>>
  BY DEF event_write
<1>2. e \in EventSlots /\ EntryOf(t, fd) # FreeEntry  BY <1>1, EntryKinds DEF Ready
<1>3. events \in [EventSlots -> EventState] /\ pipes \in [PipeObjects -> PipeState]
      /\ blocked \in [FdTasks -> Calls] /\ blocked[t] = NoCall
  BY <1>1 DEF FdInv, Typed, Ready
<1>4. events' \in [EventSlots -> EventState]
      /\ \A f \in EventSlots : events'[f].refs = events[f].refs
  <2>1. CASE Fits(e, n)
    <3>1. events' = Added(e, n)  BY <2>1 DEF event_write, Added
    <3> QED  BY <1>2, <2>1, <3>1, AddedIs
  <2>2. CASE ~Fits(e, n)
    <3>1. events' = events  BY <2>2 DEF event_write
    <3> QED  BY <1>3, <3>1
  <2> QED  BY <2>1, <2>2
<1>5. call \in Calls  BY <1>2 DEF Calls
<1>6. blocked' = [blocked EXCEPT ![t] = call]  BY <1>3 DEF event_write
<1>7. Waiting(t, call)  BY <1>2 DEF Waiting
<1> HIDE DEF call
<1> QED  BY <1>1, <1>3, <1>4, <1>5, <1>6, <1>7, ObjectCall DEF Ready

LEMMA NoCallKept == NoCall \in Calls /\ \A t \in FdTasks : Waiting(t, NoCall)
BY DEF Calls, Waiting

LEMMA EventResumeKeeps ==
    ASSUME FdInv, NEW t \in FdTasks, event_resume(t)
    PROVE  FdInv'
<1> DEFINE c == blocked[t]
<1>1. UNCHANGED <<table, sharers, uses, pipes>> /\ blocked' = [blocked EXCEPT ![t] = NoCall]
  BY DEF event_resume
<1>2. c \in Calls /\ pipes \in [PipeObjects -> PipeState]  BY DEF FdInv, Typed
<1>3. events' \in [EventSlots -> EventState]
      /\ \A f \in EventSlots : events'[f].refs = events[f].refs
  <2>1. CASE c.call = "event_read"
    <3>1. events[c.obj].value > 0 /\ events' = Took(c.obj)  BY <2>1 DEF event_resume
    <3>2. c.obj \in EventSlots  BY <1>2, <2>1, CallKinds
    <3> QED  BY <3>1, <3>2, TookIs
  <2>2. CASE c.call = "event_write"
    <3>1. Fits(c.obj, c.n) /\ events' = Added(c.obj, c.n)
      BY <2>2 DEF event_resume, Added
    <3>2. c.obj \in EventSlots /\ c.n \in 1 .. EventMax  BY <1>2, <2>2, CallKinds
    <3> QED  BY <3>1, <3>2, AddedIs
  <2> QED  BY <2>1, <2>2 DEF event_resume
<1>4. uses[t] # NoTable
  <2>1. c # NoCall  BY <1>2, CallKinds DEF event_resume
  <2> QED  BY <2>1 DEF FdInv, Detached
<1> QED  BY <1>1, <1>2, <1>3, <1>4, NoCallKept, ObjectCall

LEMMA PipeReadsKeeps ==
    ASSUME FdInv, NEW t \in FdTasks, uses[t] # NoTable, NEW fd \in FdNumbers,
           NEW p \in PipeObjects, EntryOf(t, fd).obj = p, EntryOf(t, fd) # FreeEntry,
           PipeReads(t, fd, p)
    PROVE  FdInv'
<1> DEFINE waits == [call |-> "pipe_read", fd |-> fd, obj |-> p]
<1>1. UNCHANGED <<table, sharers, uses, events>>  BY DEF PipeReads
<1>2. events \in [EventSlots -> EventState] /\ pipes \in [PipeObjects -> PipeState]
  BY DEF FdInv, Typed
<1>3. waits \in Calls /\ Waiting(t, waits)  BY DEF Calls, Waiting
<1> HIDE DEF waits
<1>4. PICK call \in {NoCall, waits} : blocked' = [blocked EXCEPT ![t] = call]
  BY DEF PipeReads, waits
<1>5. call \in Calls /\ Waiting(t, call)  BY <1>3, <1>4, NoCallKept
<1>6. pipes' \in [PipeObjects -> PipeState]
      /\ \A q \in PipeObjects : pipes'[q].state = pipes[q].state
                                /\ pipes'[q].ref_count = pipes[q].ref_count
  <2>1. CASE pipes' = pipes  BY <1>2, <2>1
  <2>2. CASE \E n \in 1 .. pipes[p].count : pipes' = [pipes EXCEPT ![p].count = @ - n]
    <3>1. PICK n \in 1 .. pipes[p].count : pipes' = [pipes EXCEPT ![p].count = @ - n]
      BY <2>2
    <3> DEFINE c == pipes[p].count - n
               after == [pipes[p] EXCEPT !.count = c]
    <3>2. pipes[p] \in PipeState  BY <1>2
    <3>3. pipes[p].count \in 0 .. PipeRoom  BY <3>2 DEF PipeState
    <3>4. c \in 0 .. PipeRoom  BY <3>1, <3>3, FdAssumption
    <3>5. pipes' = [pipes EXCEPT ![p] = after]  BY <1>2, <3>1
    <3> HIDE DEF c
    <3>6. after \in PipeState /\ after.state = pipes[p].state
          /\ after.ref_count = pipes[p].ref_count
      BY <3>2, <3>4 DEF PipeState
    <3> HIDE DEF after
    <3> QED  BY <1>2, <3>5, <3>6
  <2> QED  BY <2>1, <2>2 DEF PipeReads
<1> QED  BY <1>1, <1>2, <1>4, <1>5, <1>6, ObjectCall

LEMMA PipeWritesKeeps ==
    ASSUME FdInv, NEW t \in FdTasks, uses[t] # NoTable, NEW fd \in FdNumbers,
           NEW p \in PipeObjects, NEW n \in 1 .. PipeRoom + 1,
           EntryOf(t, fd).obj = p, EntryOf(t, fd) # FreeEntry, PipeWrites(t, fd, p, n)
    PROVE  FdInv'
<1> DEFINE put == Min({n, PipeRoom - pipes[p].count})
           c == pipes[p].count + put
           after == [pipes[p] EXCEPT !.count = c]
           call == IF put = n THEN NoCall
                   ELSE [call |-> "pipe_write", fd |-> fd, obj |-> p, n |-> n - put]
<1>1. UNCHANGED <<table, sharers, uses, events>>  BY DEF PipeWrites
<1>2. events \in [EventSlots -> EventState] /\ pipes \in [PipeObjects -> PipeState]
      /\ pipes[p] \in PipeState
  BY DEF FdInv, Typed
<1>3. pipes[p].count \in 0 .. PipeRoom /\ PipeRoom \in Nat /\ n \in Int
  BY <1>2, FdAssumption DEF PipeState
<1>4. put = IF n <= PipeRoom - pipes[p].count THEN n ELSE PipeRoom - pipes[p].count
  BY <1>3, MinOfTwo
<1>5. blocked' = [blocked EXCEPT ![t] = call]  BY DEF PipeWrites
<1>6. pipes' = [pipes EXCEPT ![p] = after]  BY <1>2 DEF PipeWrites
<1> HIDE DEF put
<1>7. c \in 0 .. PipeRoom /\ (put # n => n - put \in 1 .. PipeRoom + 1)  BY <1>3, <1>4
<1>8. call \in Calls  BY <1>7 DEF Calls
<1>9. Waiting(t, call)  BY DEF Waiting
<1> HIDE DEF c, call
<1>10. after \in PipeState /\ after.state = pipes[p].state
       /\ after.ref_count = pipes[p].ref_count
  BY <1>2, <1>7 DEF PipeState
<1> HIDE DEF after
<1>11. pipes' \in [PipeObjects -> PipeState]
       /\ \A q \in PipeObjects : pipes'[q].state = pipes[q].state
                                 /\ pipes'[q].ref_count = pipes[q].ref_count
  BY <1>2, <1>6, <1>10
<1> QED  BY <1>1, <1>2, <1>5, <1>8, <1>9, <1>11, ObjectCall

LEMMA PipeCallsKeep ==
    ASSUME FdInv, NEW t \in FdTasks, NEW fd \in FdNumbers, NEW n \in 1 .. PipeRoom + 1,
           pipe_read(t, fd) \/ pipe_write(t, fd, n)
    PROVE  FdInv'
<1>1. Ready(t) /\ EntryOf(t, fd).kind = "pipe"  BY DEF pipe_read, pipe_write
<1>2. EntryOf(t, fd).obj \in PipeObjects /\ EntryOf(t, fd) # FreeEntry
  BY <1>1, EntryKinds DEF Ready
<1>3. CASE pipe_read(t, fd)  BY <1>1, <1>2, <1>3, PipeReadsKeeps DEF pipe_read, Ready
<1>4. CASE pipe_write(t, fd, n)  BY <1>1, <1>2, <1>4, PipeWritesKeeps DEF pipe_write, Ready
<1> QED  BY <1>3, <1>4

LEMMA PipeResumeKeeps ==
    ASSUME FdInv, NEW t \in FdTasks, pipe_resume(t)
    PROVE  FdInv'
<1> DEFINE c == blocked[t]
<1>1. c \in Calls  BY DEF FdInv, Typed
<1>2. c # NoCall /\ c.fd \in FdNumbers /\ c.obj \in PipeObjects
  BY <1>1, CallKinds DEF pipe_resume
<1>3. uses[t] # NoTable  BY <1>2 DEF FdInv, Detached
<1>4. EntryOf(t, c.fd).obj = c.obj /\ EntryOf(t, c.fd) # FreeEntry
  BY <1>2 DEF FdInv, Waiting
<1>5. CASE c.call = "pipe_read" /\ PipeReads(t, c.fd, c.obj)
  BY <1>2, <1>3, <1>4, <1>5, PipeReadsKeeps
<1>6. CASE c.call = "pipe_write" /\ PipeWrites(t, c.fd, c.obj, c.n)
  <2>1. c.n \in 1 .. PipeRoom + 1  BY <1>1, <1>6, CallKinds
  <2> QED  BY <1>2, <1>3, <1>4, <1>6, <2>1, PipeWritesKeeps
<1> QED  BY <1>5, <1>6 DEF pipe_resume

-----------------------------------------------------------------------------
(* Tasks. *)

\* The entries of one table are among those of all.
LEMMA PlacesAmongNames ==
    ASSUME NEW used \in SUBSET FdTables, NEW d \in used, NEW tb, NEW entry
    PROVE  Cardinality(Names(tb, used, entry))
             = Cardinality(Names(tb, used \ {d}, entry)) + Cardinality(Places(tb[d], entry))
<1> DEFINE rest == used \ {d}
<1>1. rest \cup {d} = used /\ rest \in SUBSET FdTables /\ d \in FdTables \ rest
  OBVIOUS
<1>2. \A c \in rest : tb[c] = tb[c]  OBVIOUS
<1> HIDE DEF rest
<1>3. Cardinality(Names(tb, rest \cup {d}, entry))
        = Cardinality(Names(tb, rest, entry)) + Cardinality(Places(tb[d], entry))
  BY <1>1, <1>2, TableAdded
<1> QED  BY <1>1, <1>3 DEF rest

\* Tables in use that are the same hold the same.
LEMMA SameNames ==
    ASSUME NEW used \in SUBSET FdTables, NEW tb, NEW tb2, \A c \in used : tb2[c] = tb[c],
           NEW entry
    PROVE  Names(tb2, used, entry) = Names(tb, used, entry)
<1>1. \A y \in used \X FdNumbers : tb2[y[1]][y[2]] = tb[y[1]][y[2]]
  <2> TAKE y \in used \X FdNumbers
  <2>1. y[1] \in used  BY PairIs
  <2> QED  BY <2>1
<1> QED  BY <1>1 DEF Names

LEMMA RowIsHeld ==
    ASSUME NEW row \in Rows, NEW entry
    PROVE  Held(row, entry) = Places(row, entry)
BY DEF Held, Places, Rows

LEMMA ForkKeeps ==
    ASSUME FdInv, CopiesPipes = FALSE, ClosesWaited = FALSE, NEW t \in FdTasks,
           NEW child \in FdTasks, task_fork(t, child)
    PROVE  FdInv'
<1> DEFINE d == CHOOSE c \in {a \in FdTables : sharers[a] = 0} : TRUE
           row == table[uses[t]]
<1>1. d \in FdTables /\ sharers[d] = 0  BY DEF task_fork
<1>2. /\ Ready(t) /\ uses[child] = NoTable
      /\ \A fd \in FdNumbers : MayCopy(row[fd])
      /\ table' = [table EXCEPT ![d] = row]
      /\ sharers' = [sharers EXCEPT ![d] = 1]
      /\ uses' = [uses EXCEPT ![child] = d]
      /\ events' = Retained(events, row)
      /\ UNCHANGED <<pipes, blocked>>
  BY DEF task_fork, EntryOf
<1> HIDE DEF d
<1>3. Typed /\ table \in [FdTables -> Rows] /\ events \in [EventSlots -> EventState]
      /\ pipes \in [PipeObjects -> PipeState] /\ uses \in [FdTasks -> FdTables \cup {NoTable}]
      /\ blocked \in [FdTasks -> Calls] /\ sharers \in [FdTables -> 0 .. Cardinality(FdTasks)]
  BY DEF FdInv, Typed
<1>4. TablesInUse \in SUBSET FdTables /\ uses[t] \in TablesInUse /\ d \notin TablesInUse
  BY <1>1, <1>2, InUse DEF Ready, TablesInUse
<1>5. row \in Rows  BY <1>3, <1>4
<1>6. TablesInUse' = TablesInUse \cup {d}
  BY <1>1, <1>2, <1>3, InUse DEF TablesInUse
<1>7. table' \in [FdTables -> Rows] /\ table'[d] = row /\ \A c \in TablesInUse : table'[c] = table[c]
  BY <1>1, <1>2, <1>3, <1>4, <1>5
<1> HIDE DEF row
<1>8. \A entry : Cardinality(Names(table', TablesInUse', entry))
                   = Cardinality(Names(table, TablesInUse, entry)) + Cardinality(Places(row, entry))
  <2> TAKE entry
  <2>1. d \in FdTables \ TablesInUse  BY <1>1, <1>4
  <2>2. Cardinality(Names(table', TablesInUse \cup {d}, entry))
          = Cardinality(Names(table, TablesInUse, entry))
              + Cardinality(Places(table'[d], entry))
    BY <1>4, <1>7, <2>1, TableAdded
  <2> QED  BY <1>6, <1>7, <2>2
<1>9. ASSUME NEW e \in EventSlots
      PROVE  events'[e] \in EventState
             /\ events'[e].refs = Cardinality(Names(table', TablesInUse', Event(e)))
  <2> DEFINE n == Cardinality(Places(row, Event(e)))
  <2>1. n \in Nat /\ n = Cardinality(Held(row, Event(e)))  BY <1>5, PlacesFinite, RowIsHeld
  <2>2. Cardinality(Names(table, TablesInUse, Event(e)))
          = Cardinality(Names(table, TablesInUse \ {uses[t]}, Event(e))) + n
    <3> DEFINE b == uses[t]
    <3>1. b \in TablesInUse /\ row = table[b]  BY <1>4 DEF row
    <3> HIDE DEF b, n
    <3>2. Cardinality(Names(table, TablesInUse, Event(e)))
            = Cardinality(Names(table, TablesInUse \ {b}, Event(e)))
                + Cardinality(Places(table[b], Event(e)))
      BY <1>4, <3>1, PlacesAmongNames
    <3> QED  BY <3>1, <3>2 DEF b, n
  <2>3. Cardinality(Names(table, TablesInUse, Event(e))) \in Nat
        /\ Cardinality(Names(table, TablesInUse \ {uses[t]}, Event(e))) \in Nat
    BY <1>4, NamesFinite
  <2>4. events[e].refs = Cardinality(Names(table, TablesInUse, Event(e)))
    BY DEF FdInv, Exactly
  <2> HIDE DEF n
  <2>5. events'[e] \in EventState
        /\ events'[e].refs = IF events[e].refs = 0 THEN 0 ELSE events[e].refs + n
    <3>1. events' = Retained(events, row) /\ events \in [EventSlots -> EventState]
      BY <1>2, <1>3
    <3>2. /\ Retained(events, row)[e].refs = IF events[e].refs = 0 THEN 0 ELSE events[e].refs + n
          /\ Retained(events, row)[e] \in EventState
      BY ONLY <2>1, <3>1, RetainedIs, e \in EventSlots
    <3> QED  BY <3>1, <3>2
  <2>6. Cardinality(Names(table', TablesInUse', Event(e)))
          = Cardinality(Names(table, TablesInUse, Event(e))) + n
    BY <1>8 DEF n
  <2> QED  BY <2>1, <2>2, <2>3, <2>4, <2>5, <2>6
<1>10. events' \in [EventSlots -> EventState]
  <2>1. events' = [e \in EventSlots |-> events'[e]]  BY <1>2, FunctionsOfSlots
  <2> QED  BY <1>9, <2>1
<1>11. Exactly(events, table, TablesInUse)'  BY <1>9 DEF Exactly, Names, Event
<1>12. Outlive(pipes, table, TablesInUse)'
  <2>1. ASSUME NEW p \in PipeObjects
        PROVE  Cardinality(Names(table', TablesInUse', PipeEnd(p)))
                 = Cardinality(Names(table, TablesInUse, PipeEnd(p)))
    <3>0. \A fd \in FdNumbers : row[fd].kind # "pipe"  BY <1>2 DEF MayCopy
    <3>a. PipeEnd(p).kind = "pipe"  BY DEF PipeEnd
    <3>1. Places(row, PipeEnd(p)) = {}  BY <3>0, <3>a DEF Places
    <3>2. Cardinality(Places(row, PipeEnd(p))) = 0  BY <3>1, FS_EmptySet
    <3>3. Cardinality(Names(table, TablesInUse, PipeEnd(p))) \in Nat  BY <1>4, NamesFinite
    <3> QED  BY <1>8, <3>2, <3>3
  <2>2. Outlive(pipes, table', TablesInUse')  BY <2>1 DEF FdInv, Outlive
  <2> QED  BY <1>2, <2>2 DEF Outlive, Names
<1>13a. ASSUME NEW c \in FdTables PROVE sharers'[c] = Cardinality(OwnersOf(uses', c))
  <2>0. uses' = Moved(uses, child, d)  BY <1>2 DEF Moved
  <2>1. Cardinality(OwnersOf(Moved(uses, child, d), c))
          = (Cardinality(OwnersOf(uses, c)) + One(d, c)) - One(uses[child], c)
    BY <1>3, OwnerMoves
  <2>2. One(uses[child], c) = 0  BY <1>2, FdAssumption DEF One
  <2>3. One(d, c) = IF c = d THEN 1 ELSE 0  BY DEF One
  <2>4. sharers[c] = Cardinality(OwnersOf(uses, c)) /\ sharers[c] \in Nat
    BY InUse DEF FdInv, Owned
  <2>5. sharers'[c] = IF c = d THEN 1 ELSE sharers[c]  BY <1>1, <1>2, <1>3
  <2> QED  BY <2>0, <1>1, <2>1, <2>2, <2>3, <2>4, <2>5
<1>13. Owned(sharers, uses)'  BY <1>13a DEF Owned, OwnersOf
<1>14. sharers' \in [FdTables -> 0 .. Cardinality(FdTasks)]
  <2>1. \A c \in FdTables : sharers'[c] \in 0 .. Cardinality(FdTasks)
    BY <1>13a, OwnersFinite
  <2>2. sharers' = [c \in FdTables |-> sharers'[c]]  BY <1>2, <1>3
  <2> QED  BY <2>1, <2>2
<1>15. uses' \in [FdTasks -> FdTables \cup {NoTable}] /\ blocked' = blocked
  BY <1>1, <1>2, <1>3
<1>16. \A u \in FdTasks : blocked[u] # NoCall =>
           uses[u] \in TablesInUse /\ u # child /\ uses'[u] = uses[u]
  BY <1>2, <1>3, InUse DEF FdInv, Detached
<1>17. (\A u \in FdTasks : Waiting(u, blocked[u]))'
  BY <1>7, <1>15, <1>16 DEF FdInv, Waiting, EntryOf
<1>18. Detached'
  BY <1>1, <1>2, <1>3, <1>15, <1>16, FdAssumption DEF FdInv, Detached
<1>19. Typed'  BY <1>2, <1>3, <1>7, <1>10, <1>15 DEF Typed
<1> QED  BY <1>11, <1>12, <1>13, <1>14, <1>17, <1>18, <1>19 DEF FdInv

LEMMA CloneKeeps ==
    ASSUME FdInv, NEW t \in FdTasks, NEW thread \in FdTasks, task_clone_thread(t, thread)
    PROVE  FdInv'
<1> DEFINE d == uses[t]
<1>1. /\ Ready(t) /\ uses[thread] = NoTable
      /\ uses' = [uses EXCEPT ![thread] = d]
      /\ sharers' = [sharers EXCEPT ![d] = sharers[d] + 1]
      /\ UNCHANGED <<table, events, pipes, blocked>>
  BY DEF task_clone_thread
<1>2. d \in FdTables /\ d \in TablesInUse  BY <1>1, InUse DEF Ready
<1> HIDE DEF d
<1>3. uses \in [FdTasks -> FdTables \cup {NoTable}]
      /\ sharers \in [FdTables -> 0 .. Cardinality(FdTasks)]
      /\ \A c \in FdTables : sharers[c] \in Nat
  BY InUse DEF FdInv, Typed
<1>4. \A c \in FdTables : sharers'[c] = IF c = d THEN sharers[c] + 1 ELSE sharers[c]
  BY <1>1, <1>2, <1>3
<1>5. TablesInUse' = TablesInUse  BY <1>2, <1>3, <1>4 DEF TablesInUse
<1>6a. ASSUME NEW c \in FdTables PROVE sharers'[c] = Cardinality(OwnersOf(uses', c))
  <2>0. uses' = Moved(uses, thread, d)  BY <1>1 DEF Moved
  <2>1. Cardinality(OwnersOf(Moved(uses, thread, d), c))
          = (Cardinality(OwnersOf(uses, c)) + One(d, c)) - One(uses[thread], c)
    BY <1>3, OwnerMoves
  <2>2. One(uses[thread], c) = 0  BY <1>1, FdAssumption DEF One
  <2>3. One(d, c) = IF c = d THEN 1 ELSE 0  BY DEF One
  <2>4. sharers[c] = Cardinality(OwnersOf(uses, c)) /\ sharers[c] \in Nat
    BY InUse DEF FdInv, Owned
  <2> QED  BY <2>0, <1>4, <2>1, <2>2, <2>3, <2>4
<1>6. Owned(sharers, uses)'  BY <1>6a DEF Owned, OwnersOf
<1>7. sharers' \in [FdTables -> 0 .. Cardinality(FdTasks)]
  <2>1. \A c \in FdTables : sharers'[c] \in 0 .. Cardinality(FdTasks)
    BY <1>6a, OwnersFinite
  <2>2. sharers' = [c \in FdTables |-> sharers'[c]]  BY <1>1, <1>3
  <2> QED  BY <2>1, <2>2
<1>8. Typed'  BY <1>1, <1>2, <1>3 DEF FdInv, Typed
<1>9. Exactly(events, table, TablesInUse)'  BY <1>1, <1>5 DEF FdInv, Exactly, Names
<1>10. Outlive(pipes, table, TablesInUse)'  BY <1>1, <1>5 DEF FdInv, Outlive, Names
<1>11. \A u \in FdTasks : blocked[u] # NoCall => u # thread /\ uses'[u] = uses[u]
  BY <1>1, <1>3 DEF FdInv, Detached
<1>12. (\A u \in FdTasks : Waiting(u, blocked[u]))'
  BY <1>1, <1>11 DEF FdInv, Waiting, EntryOf
<1>13. Detached'  BY <1>1, <1>2, <1>3, <1>11, FdAssumption DEF FdInv, Detached
<1> QED  BY <1>6, <1>7, <1>8, <1>9, <1>10, <1>12, <1>13 DEF FdInv

\* With one owner counted, no other task uses the table.
LEMMA LastUserAlone ==
    ASSUME FdInv, NEW t \in FdTasks, uses[t] # NoTable, LastUser(uses[t]),
           NEW u \in FdTasks, uses[u] = uses[t]
    PROVE  u = t
<1> DEFINE N == OwnersOf(uses, uses[t])
<1>1. uses[t] \in FdTables  BY DEF FdInv, Typed
<1>2. Cardinality(N) = 1  BY <1>1 DEF FdInv, Owned, LastUser
<1>3. u \in N /\ t \in N  BY DEF OwnersOf
<1>4. IsFiniteSet(N)  BY OwnersFinite
<1> HIDE DEF N
<1>5. PICK x : N = {x}  BY <1>2, <1>4, FS_Singleton
<1> QED  BY <1>3, <1>5

LEMMA ReleaseKeeps ==
    ASSUME FdInv, NEW t \in FdTasks, task_release_fd_table(t)
    PROVE  FdInv'
<1> DEFINE d == uses[t]
           empty == [fd \in FdNumbers |-> FreeEntry]
<1>1. /\ d # NoTable
      /\ sharers' = [sharers EXCEPT ![d] = sharers[d] - 1]
      /\ uses' = [uses EXCEPT ![t] = NoTable]
      /\ blocked' = [blocked EXCEPT ![t] = NoCall]
      /\ UNCHANGED pipes
  BY DEF task_release_fd_table
<1>2. d \in FdTables /\ d \in TablesInUse /\ TablesInUse \in SUBSET FdTables
  BY <1>1, InUse
<1>3. /\ table \in [FdTables -> Rows] /\ events \in [EventSlots -> EventState]
      /\ pipes \in [PipeObjects -> PipeState] /\ blocked \in [FdTasks -> Calls]
      /\ uses \in [FdTasks -> FdTables \cup {NoTable}]
      /\ sharers \in [FdTables -> 0 .. Cardinality(FdTasks)]
      /\ \A c \in FdTables : sharers[c] \in Nat
  BY InUse DEF FdInv, Typed
<1>4. \A c \in FdTables : sharers'[c] = IF c = d THEN sharers[c] - 1 ELSE sharers[c]
  BY <1>1, <1>2, <1>3
<1>5a. ASSUME NEW c \in FdTables PROVE sharers'[c] = Cardinality(OwnersOf(uses', c))
  <2>0. uses' = Moved(uses, t, NoTable)  BY <1>1 DEF Moved
  <2>1. Cardinality(OwnersOf(Moved(uses, t, NoTable), c))
          = (Cardinality(OwnersOf(uses, c)) + One(NoTable, c)) - One(d, c)
    BY <1>3, OwnerMoves
  <2>2. One(NoTable, c) = 0  BY FdAssumption DEF One
  <2>3. One(d, c) = IF c = d THEN 1 ELSE 0  BY DEF One
  <2>4. sharers[c] = Cardinality(OwnersOf(uses, c))  BY DEF FdInv, Owned
  <2> HIDE DEF d
  <2> QED  BY <2>0, <1>3, <1>4, <2>1, <2>2, <2>3, <2>4
<1>5. Owned(sharers, uses)'  BY <1>5a DEF Owned, OwnersOf
<1>6. sharers' \in [FdTables -> 0 .. Cardinality(FdTasks)]
  <2>1. \A c \in FdTables : sharers'[c] \in 0 .. Cardinality(FdTasks)
    BY <1>5a, OwnersFinite
  <2>2. sharers' = [c \in FdTables |-> sharers'[c]]  BY <1>1, <1>3
  <2> QED  BY <2>1, <2>2
<1>7. uses' \in [FdTasks -> FdTables \cup {NoTable}] /\ blocked' \in [FdTasks -> Calls]
  BY <1>1, <1>3, NoCallKept
<1>8. \A u \in FdTasks : u # t => uses'[u] = uses[u] /\ blocked'[u] = blocked[u]
  BY <1>1, <1>3
<1>9. uses'[t] = NoTable /\ blocked'[t] = NoCall  BY <1>1, <1>3
<1>10. Detached'  BY <1>8, <1>9 DEF FdInv, Detached
<1>11. CASE LastUser(d)
  <2>1. events' = EventsReleased(events, table[d]) /\ table' = [table EXCEPT ![d] = empty]
    BY <1>11 DEF task_release_fd_table
  <2>2. TablesInUse' = TablesInUse \ {d}
    BY <1>2, <1>3, <1>4, <1>11 DEF TablesInUse, LastUser
  <2>3. empty \in Rows  BY DEF Rows, Entries
  <2> HIDE DEF empty
  <2>4. table' \in [FdTables -> Rows] /\ \A c \in FdTables \ {d} : table'[c] = table[c]
    BY <1>2, <1>3, <2>1, <2>3
  <2>5. table[d] \in Rows  BY <1>2, <1>3
  <2> HIDE DEF d
  <2>6. \A entry : Cardinality(Names(table, TablesInUse, entry))
                     = Cardinality(Names(table', TablesInUse', entry))
                         + Cardinality(Places(table[d], entry))
    <3> TAKE entry
    <3>1. Cardinality(Names(table, TablesInUse, entry))
            = Cardinality(Names(table, TablesInUse \ {d}, entry))
                + Cardinality(Places(table[d], entry))
      BY <1>2, PlacesAmongNames
    <3>2. Names(table', TablesInUse \ {d}, entry) = Names(table, TablesInUse \ {d}, entry)
      BY <1>2, <2>4, SameNames
    <3> QED  BY <2>2, <3>1, <3>2
  <2>7. \A entry : Cardinality(Names(table, TablesInUse, entry)) \in Nat
                   /\ Cardinality(Names(table', TablesInUse', entry)) \in Nat
                   /\ Cardinality(Places(table[d], entry)) \in Nat
    BY <1>2, <2>2, NamesFinite, PlacesFinite
  <2>8. ASSUME NEW e \in EventSlots
        PROVE  events'[e] \in EventState
               /\ events'[e].refs = Cardinality(Names(table', TablesInUse', Event(e)))
    <3> DEFINE n == Cardinality(Places(table[d], Event(e)))
    <3>1. n \in Nat /\ n = Cardinality(Held(table[d], Event(e)))
      BY <2>5, <2>7, RowIsHeld
    <3>2. events[e].refs = Cardinality(Names(table, TablesInUse, Event(e)))
      BY DEF FdInv, Exactly
    <3>3. events[e].refs = Cardinality(Names(table', TablesInUse', Event(e))) + n
      BY <2>6, <3>2
    <3> HIDE DEF n
    <3>4. events'[e] \in EventState
          /\ events'[e].refs = IF events[e].refs <= n THEN 0 ELSE events[e].refs - n
      BY <1>3, <2>1, <3>1, ReleasedIs
    <3> QED  BY <2>7, <3>1, <3>3, <3>4
  <2>9. events' \in [EventSlots -> EventState]
    <3>1. events' = [e \in EventSlots |-> events'[e]]  BY <2>1, FunctionsOfSlots
    <3> QED  BY <2>8, <3>1
  <2>10. Exactly(events, table, TablesInUse)'  BY <2>8 DEF Exactly, Names, Event
  <2>11. Outlive(pipes, table, TablesInUse)'
    <3>1. ASSUME NEW p \in PipeObjects,
                 Cardinality(Names(table', TablesInUse', PipeEnd(p))) > 0
          PROVE  pipes[p].state = "live"
                 /\ pipes[p].ref_count >= Cardinality(Names(table', TablesInUse', PipeEnd(p)))
      <4>1. Cardinality(Names(table, TablesInUse, PipeEnd(p)))
              >= Cardinality(Names(table', TablesInUse', PipeEnd(p)))
            /\ Cardinality(Names(table, TablesInUse, PipeEnd(p))) > 0
        BY <2>6, <2>7, <3>1
      <4>2. pipes[p].state = "live"
            /\ pipes[p].ref_count >= Cardinality(Names(table, TablesInUse, PipeEnd(p)))
        BY <4>1 DEF FdInv, Outlive
      <4>3. pipes[p] \in PipeState  BY <1>3
      <4>4. pipes[p].ref_count \in Int  BY <4>3 DEF PipeState
      <4> QED  BY <2>7, <4>1, <4>2, <4>4
    <3>2. Outlive(pipes, table', TablesInUse')  BY <3>1 DEF Outlive
    <3> QED  BY <1>1, <3>2 DEF Outlive, Names
  <2>12. (\A u \in FdTasks : Waiting(u, blocked[u]))'
    <3>1. \A u \in FdTasks : u # t => uses[u] # d  BY <1>1, <1>11, LastUserAlone DEF d
    <3>2. \A u \in FdTasks : blocked[u] # NoCall /\ u # t => table'[uses[u]] = table[uses[u]]
      BY <1>3, <2>4, <3>1 DEF FdInv, Detached
    <3> QED  BY <1>8, <1>9, <3>2 DEF FdInv, Waiting, EntryOf
  <2>13. Typed'  BY <1>1, <1>3, <1>7, <2>4, <2>9 DEF Typed
  <2> QED  BY <1>5, <1>6, <1>10, <2>10, <2>11, <2>12, <2>13 DEF FdInv
<1>12. CASE ~LastUser(d)
  <2>1. UNCHANGED <<events, table>>  BY <1>12 DEF task_release_fd_table
  <2>2. sharers[d] > 1
    <3>1. sharers[d] > 0  BY <1>2 DEF TablesInUse
    <3> QED  BY <1>2, <1>3, <1>12, <3>1 DEF LastUser
  <2>3. TablesInUse' = TablesInUse  BY <1>3, <1>4, <2>2 DEF TablesInUse
  <2>4. Exactly(events, table, TablesInUse)'  BY <2>1, <2>3 DEF FdInv, Exactly, Names
  <2>5. Outlive(pipes, table, TablesInUse)'  BY <1>1, <2>1, <2>3 DEF FdInv, Outlive, Names
  <2>6. (\A u \in FdTasks : Waiting(u, blocked[u]))'
    BY <1>8, <1>9, <2>1 DEF FdInv, Waiting, EntryOf
  <2>7. Typed'  BY <1>1, <1>3, <1>7, <2>1 DEF Typed
  <2> QED  BY <1>5, <1>6, <1>10, <2>4, <2>5, <2>6, <2>7 DEF FdInv
<1> QED  BY <1>11, <1>12

-----------------------------------------------------------------------------
(* Every step, and the theorems.                                           *)

LEMMA InitIsSafe == FdInit => FdInv
<1> SUFFICES ASSUME FdInit PROVE FdInv  OBVIOUS
<1> DEFINE d == FirstTable
           t == FirstTask
<1>1. d \in FdTables /\ t \in FdTasks  BY FdAssumption DEF FirstTable, FirstTask
<1>2. uses \in [FdTasks -> FdTables \cup {NoTable}]
      /\ \A u \in FdTasks : uses[u] = IF u = t THEN d ELSE NoTable
  BY <1>1 DEF FdInit
<1>3. \A c \in FdTables : sharers[c] = IF c = d THEN 1 ELSE 0  BY DEF FdInit
<1> HIDE DEF d, t
<1>4. \A c \in FdTables : sharers[c] = Cardinality(OwnersOf(uses, c))
  <2> TAKE c \in FdTables
  <2>1. CASE c = d
    <3>1. OwnersOf(uses, c) = {t}  BY <1>1, <1>2, <2>1, FdAssumption DEF OwnersOf
    <3> QED  BY <1>3, <2>1, <3>1, FS_Singleton
  <2>2. CASE c # d
    <3>1. OwnersOf(uses, c) = {}  BY <1>2, <2>2, FdAssumption DEF OwnersOf
    <3> QED  BY <1>3, <2>2, <3>1, FS_EmptySet
  <2> QED  BY <2>1, <2>2
<1>5. sharers \in [FdTables -> 0 .. Cardinality(FdTasks)]
  <2>1. \A c \in FdTables : sharers[c] \in 0 .. Cardinality(FdTasks)  BY <1>4, OwnersFinite
  <2>2. sharers = [c \in FdTables |-> sharers[c]]  BY DEF FdInit
  <2> QED  BY <2>1, <2>2
<1>6. table \in [FdTables -> Rows] /\ \A c \in FdTables, fd \in FdNumbers : table[c][fd] = FreeEntry
  BY DEF FdInit, Rows, Entries
<1>7. events \in [EventSlots -> EventState] /\ \A e \in EventSlots : events[e].refs = 0
  <2>1. FreeEvent \in EventState /\ FreeEvent.refs = 0  BY FdAssumption DEF FreeEvent, EventState
  <2> QED  BY <2>1 DEF FdInit
<1>8. pipes \in [PipeObjects -> PipeState]
  <2>1. [state |-> "none", ref_count |-> 0, count |-> 0] \in PipeState
    BY FdAssumption DEF PipeState
  <2> QED  BY <2>1 DEF FdInit
<1>9. blocked \in [FdTasks -> Calls] /\ \A u \in FdTasks : blocked[u] = NoCall
  BY NoCallKept DEF FdInit
<1>10. ASSUME NEW entry, entry # FreeEntry
       PROVE  Cardinality(Names(table, TablesInUse, entry)) = 0
  <2>1. ASSUME NEW y \in TablesInUse \X FdNumbers PROVE table[y[1]][y[2]] # entry
    <3>1. y[1] \in TablesInUse /\ y[2] \in FdNumbers  BY PairIs
    <3> QED  BY <1>6, <1>10, <3>1 DEF TablesInUse
  <2>2. Names(table, TablesInUse, entry) = {}  BY <2>1 DEF Names
  <2> QED  BY <2>2, FS_EmptySet
<1>11. Exactly(events, table, TablesInUse)
  <2>1. \A e \in EventSlots : Event(e) # FreeEntry  BY DEF Event, FreeEntry
  <2> QED  BY <1>7, <1>10, <2>1 DEF Exactly
<1>12. Outlive(pipes, table, TablesInUse)
  <2>1. \A p \in PipeObjects : PipeEnd(p) # FreeEntry  BY DEF PipeEnd, FreeEntry
  <2> SUFFICES ASSUME NEW p \in PipeObjects,
                      Cardinality(Names(table, TablesInUse, PipeEnd(p))) > 0
               PROVE  FALSE
    BY DEF Outlive
  <2>2. Cardinality(Names(table, TablesInUse, PipeEnd(p))) = 0  BY <1>10, <2>1
  <2> QED  BY <2>2
<1>13. (\A u \in FdTasks : Waiting(u, blocked[u])) /\ Detached
  BY <1>9, NoCallKept DEF Detached
<1> QED  BY <1>2, <1>4, <1>5, <1>6, <1>7, <1>8, <1>9, <1>11, <1>12, <1>13
     DEF FdInv, Typed, Owned

LEMMA NextKeeps ==
    ASSUME CopiesPipes = FALSE, ClosesWaited = FALSE, FdInv, [FdNext]_fdVars
    PROVE  FdInv'
<1>1. CASE UNCHANGED fdVars
  <2>1. UNCHANGED <<sharers, uses, blocked, table, events, pipes>>  BY <1>1 DEF fdVars
  <2>2. Undisturbed(table', table)  BY <2>1 DEF Undisturbed
  <2> QED  BY <2>1, <2>2, TableCall DEF FdInv, Typed
<1>2. ASSUME NEW t \in FdTasks, NEW value \in 0 .. 1, NEW semaphore \in BOOLEAN,
             linux_compat_eventfd2(t, value, semaphore)
      PROVE  FdInv'
  BY <1>2, EventfdKeeps
<1>3. ASSUME NEW t \in FdTasks, pipe(t) PROVE FdInv'  BY <1>3, PipeKeeps
<1>4. ASSUME NEW t \in FdTasks, NEW old \in FdNumbers, Dup(t, old) PROVE FdInv'
  BY <1>4, DupKeeps
<1>5. ASSUME NEW t \in FdTasks, NEW old \in FdNumbers, NEW new \in FdNumbers, Dup2(t, old, new)
      PROVE  FdInv'
  BY <1>5, Dup2Keeps
<1>6. ASSUME NEW t \in FdTasks, NEW fd \in FdNumbers, close(t, fd) PROVE FdInv'
  BY <1>6, CloseKeeps
<1>7. ASSUME NEW t \in FdTasks, NEW child \in FdTasks, task_fork(t, child) PROVE FdInv'
  BY <1>7, ForkKeeps
<1>8. ASSUME NEW t \in FdTasks, NEW thread \in FdTasks, task_clone_thread(t, thread)
      PROVE  FdInv'
  BY <1>8, CloneKeeps
<1>9. ASSUME NEW t \in FdTasks, task_release_fd_table(t) PROVE FdInv'  BY <1>9, ReleaseKeeps
<1>10. ASSUME NEW t \in FdTasks, NEW fd \in FdNumbers, event_read(t, fd) PROVE FdInv'
  BY <1>10, EventReadKeeps
<1>11. ASSUME NEW t \in FdTasks, NEW fd \in FdNumbers, NEW n \in 1 .. EventMax,
              event_write(t, fd, n)
       PROVE  FdInv'
  BY <1>11, EventWriteKeeps
<1>12. ASSUME NEW t \in FdTasks, event_resume(t) PROVE FdInv'  BY <1>12, EventResumeKeeps
<1>13. ASSUME NEW t \in FdTasks, NEW fd \in FdNumbers, pipe_read(t, fd) PROVE FdInv'
  <2>1. 1 \in 1 .. PipeRoom + 1  BY FdAssumption
  <2> QED  BY <1>13, <2>1, PipeCallsKeep
<1>14. ASSUME NEW t \in FdTasks, NEW fd \in FdNumbers, NEW n \in 1 .. PipeRoom + 1,
              pipe_write(t, fd, n)
       PROVE  FdInv'
  BY <1>14, PipeCallsKeep
<1>15. ASSUME NEW t \in FdTasks, pipe_resume(t) PROVE FdInv'  BY <1>15, PipeResumeKeeps
<1> QED  BY <1>1, <1>2, <1>3, <1>4, <1>5, <1>6, <1>7, <1>8, <1>9, <1>10, <1>11, <1>12, <1>13,
            <1>14, <1>15 DEF FdNext

(* Programs do not copy pipe ends and do not close under a waiting thread. *)
DisciplinedPrograms == CopiesPipes = FALSE /\ ClosesWaited = FALSE

LEMMA FdInvariant == DisciplinedPrograms => (FdSpec => []FdInv)
<1> SUFFICES ASSUME DisciplinedPrograms PROVE FdSpec => []FdInv  OBVIOUS
<1>1. FdInit => FdInv  BY InitIsSafe
<1>2. FdInv /\ [FdNext]_fdVars => FdInv'  BY NextKeeps DEF DisciplinedPrograms
<1> QED  BY <1>1, <1>2, PTL DEF FdSpec

(* For any number of tasks, tables, numbers, slots and pipes: an event     *)
(* slot has exactly as many references as there are entries that name it   *)
(* in tables in use, and a table as many as tasks that use it (dup, dup2,  *)
(* close, fork, clone, exit); no entry leads to a freed pipe; a call that  *)
(* yields comes back to the object its descriptor still names.             *)
THEOREM DescriptorsAlwaysSafe == DisciplinedPrograms => (FdSpec => []DescriptorsSafe)
<1> SUFFICES ASSUME DisciplinedPrograms PROVE FdSpec => []DescriptorsSafe  OBVIOUS
<1>1. FdSpec => []FdInv  BY FdInvariant
<1>2. FdInv => DescriptorsSafe  BY FdInvIsSafe
<1> QED  BY <1>1, <1>2, PTL

\* What the step of a reader that comes back empty-handed must have been.
LEMMA EofStep ==
    ASSUME FdInv, [FdNext]_fdVars, NEW t \in FdTasks, blocked[t] # NoCall,
           blocked[t].call = "pipe_read", blocked'[t] = NoCall, uses'[t] # NoTable,
           pipes'[blocked[t].obj] = pipes[blocked[t].obj]
    PROVE  Cardinality(Naming("pipe", blocked[t].obj)) < 2
<1> DEFINE p == blocked[t].obj
<1>1. blocked \in [FdTasks -> Calls] /\ blocked[t] \in Calls /\ pipes \in [PipeObjects -> PipeState]
  BY DEF FdInv, Typed
<1>2. p \in PipeObjects  BY <1>1, CallKinds
<1>3. blocked' # blocked  OBVIOUS
<1>4. PICK u \in FdTasks :
        \/ \E fd \in FdNumbers : event_read(u, fd)
        \/ \E fd \in FdNumbers, n \in 1 .. EventMax : event_write(u, fd, n)
        \/ \E fd \in FdNumbers : pipe_read(u, fd)
        \/ \E fd \in FdNumbers, n \in 1 .. PipeRoom + 1 : pipe_write(u, fd, n)
        \/ event_resume(u)
        \/ pipe_resume(u)
        \/ task_release_fd_table(u)
  <2>1. ~UNCHANGED fdVars  BY <1>3 DEF fdVars
  <2>2. \A u \in FdTasks :
          /\ \A value, semaphore : ~linux_compat_eventfd2(u, value, semaphore)
          /\ ~pipe(u)
          /\ \A old : ~Dup(u, old)
          /\ \A old, new : ~Dup2(u, old, new)
          /\ \A fd : ~close(u, fd)
          /\ \A child : ~task_fork(u, child)
          /\ \A thread : ~task_clone_thread(u, thread)
    BY <1>3 DEF linux_compat_eventfd2, pipe, Dup, Dup2, close, task_fork, task_clone_thread
  <2> QED  BY <2>1, <2>2 DEF FdNext
<1>5. \E x : blocked' = [blocked EXCEPT ![u] = x] \/ blocked' = blocked
  BY <1>4 DEF event_read, event_write, pipe_read, pipe_write, event_resume, pipe_resume,
              task_release_fd_table, PipeReads, PipeWrites
<1>6. u = t  BY <1>1, <1>3, <1>5
<1>7. ~Ready(t)  BY DEF Ready
<1>8. ~task_release_fd_table(t)
  <2>1. uses \in [FdTasks -> FdTables \cup {NoTable}]  BY DEF FdInv, Typed
  <2> QED  BY <2>1 DEF task_release_fd_table
<1>9. pipe_resume(t)
  BY <1>4, <1>6, <1>7, <1>8 DEF event_read, event_write, pipe_read, pipe_write, event_resume
<1>10. PipeReads(t, blocked[t].fd, p)  BY <1>9 DEF pipe_resume
<1>11. AtEof(t, p)
  <2>1. pipes[p] \in PipeState /\ pipes[p].count \in 0 .. PipeRoom  BY <1>1, <1>2 DEF PipeState
  <2>2. ASSUME NEW n \in 1 .. pipes[p].count, pipes' = [pipes EXCEPT ![p].count = @ - n]
        PROVE  FALSE
    <3>1. pipes'[p].count = pipes[p].count - n  BY <1>1, <1>2, <2>1, <2>2 DEF PipeState
    <3> QED  BY <2>1, <3>1
  <2>3. ASSUME blocked' = [blocked EXCEPT ![t] =
                   [call |-> "pipe_read", fd |-> blocked[t].fd, obj |-> p]]
        PROVE  FALSE
    <3>1. NoCall = [call |-> "pipe_read", fd |-> blocked[t].fd, obj |-> p]  BY <1>1, <2>3
    <3>2. NoCall.call = "pipe_read"  BY <3>1
    <3> QED  BY <3>2 DEF NoCall
  <2> QED  BY <1>10, <2>2, <2>3 DEF PipeReads
<1>12. Outlive(pipes, table, TablesInUse)  BY DEF FdInv
<1>13. Naming("pipe", p) = Names(table, TablesInUse, PipeEnd(p))
  BY DEF Naming, Names, PipeEnd
<1>14. Cardinality(Names(table, TablesInUse, PipeEnd(p))) \in Nat  BY InUse, NamesFinite
<1>15. pipes[p].ref_count < 2 /\ pipes[p].ref_count \in Int
  <2>1. pipes[p] \in PipeState  BY <1>1, <1>2
  <2> QED  BY <1>11, <2>1 DEF AtEof, PipeState
<1> HIDE DEF p
<1>16. Cardinality(Names(table, TablesInUse, PipeEnd(p))) < 2
  BY <1>2, <1>12, <1>14, <1>15 DEF Outlive
<1> QED  BY <1>13, <1>16 DEF p

(* A reader of an empty pipe returns without bytes only when fewer than    *)
(* two ends of it are open: no other step of any task ends its wait.       *)
THEOREM EofMeansClosed == DisciplinedPrograms => (FdSpec => EofOnlyWithoutWriter)
<1> SUFFICES ASSUME DisciplinedPrograms PROVE FdSpec => EofOnlyWithoutWriter  OBVIOUS
<1>1. FdSpec => []FdInv  BY FdInvariant
<1>2. FdInv /\ [FdNext]_fdVars =>
        [\A t \in FdTasks :
           blocked[t] # NoCall /\ blocked[t].call = "pipe_read" /\ blocked'[t] = NoCall
             /\ uses'[t] # NoTable /\ pipes'[blocked[t].obj] = pipes[blocked[t].obj]
           => Cardinality(Naming("pipe", blocked[t].obj)) < 2]_fdVars
  BY EofStep
<1> QED  BY <1>1, <1>2, PTL DEF FdSpec, EofOnlyWithoutWriter

-----------------------------------------------------------------------------
(* The areas of user address spaces, and the memfds behind them.            *)

HIDE FdAssumption

AreaType == [start : Nat, end : Nat, backing : Memfds \cup {Anonymous}, offset : Nat]
SlotType == [used : BOOLEAN, refs : Nat, map_refs : Nat, pages : Seq(1 .. FrameCount)]
Ptes == [UserPages -> 0 .. Own]
SpaceType == [areas : SUBSET AreaType, pte : Ptes, brk : 0 .. HeapPages]

Tiled(A) ==
  /\ A \subseteq AreaType /\ IsFiniteSet(A)
  /\ \A x \in A : HeapPages < x.start /\ x.start < x.end /\ x.end <= LastPage + 1
  /\ \A x, y \in A : x # y => x.end <= y.start \/ y.end <= x.start

\* Every page of an area is there.
Present(A, P) == \A x \in A : \A p \in Within(x.start, x.end) : P[p] # Nothing

\* Page p of area x is frame f of the memfd behind it.
Shows(x, p, f, M) ==
  /\ p \in Within(x.start, x.end) /\ x.backing # Anonymous
  /\ x.offset + p - x.start + 1 \in DOMAIN M[x.backing].pages
  /\ M[x.backing].pages[x.offset + p - x.start + 1] = f
Borrows(A, P, M) ==
  \A p \in UserPages : P[p] \in 1 .. FrameCount => \E x \in A : Shows(x, p, P[p], M)

SlotsTold(M) ==
  M \in [Memfds -> SlotType]
  /\ \A m \in Memfds : M[m].used <=> M[m].refs # 0 \/ M[m].map_refs # 0

AreasSound(A, P, M) ==
  /\ Tiled(A) /\ P \in Ptes /\ Present(A, P) /\ Borrows(A, P, M) /\ SlotsTold(M)
  /\ \A m \in Memfds : Cardinality(BackedBy(A, m)) <= M[m].map_refs

\* What a call may do to the memfds as it turns areas A into B: its counts follow
\* the areas, and what is still in use keeps its pages.
Follows(A, M, B, N) ==
  \A m \in Memfds :
    /\ N[m].map_refs + Cardinality(BackedBy(A, m)) = M[m].map_refs + Cardinality(BackedBy(B, m))
    /\ N[m].refs = M[m].refs
    /\ N[m].used => M[m].used /\ N[m].pages = M[m].pages

Fds(m) == {s \in Spaces : m \in memfdFds[s]}
Maps(m) == UNION {{<<s, x>> : x \in BackedBy(mm[s].areas, m)} : s \in Spaces}

AreasTypes ==
  /\ mm \in [Spaces -> SpaceType] /\ memfds \in [Memfds -> SlotType]
  /\ memfdFds \in [Spaces -> SUBSET Memfds] /\ alive \subseteq Spaces

AreasInv ==
  /\ AreasTypes
  /\ \A s \in Spaces : AreasSound(mm[s].areas, mm[s].pte, memfds)
  /\ \A m \in Memfds : memfds[m].refs = Cardinality(Fds(m))
                       /\ memfds[m].map_refs = Cardinality(Maps(m))
  /\ \A s \in Spaces \ alive : mm[s] = NoSpace /\ memfdFds[s] = {}
-----------------------------------------------------------------------------
(* Areas and pieces of them                                                *)

LEMMA NumbersAre ==
  /\ FrameCount \in Nat /\ HeapPages \in Nat /\ LastPage \in Nat /\ MemfdPages \in Nat
  /\ Memfds \subseteq Nat \ {0} /\ Anonymous = 0 /\ 0 \notin Memfds
  /\ IsFiniteSet(Spaces) /\ IsFiniteSet(Memfds) /\ FirstSpace \in Spaces
BY AreasConstants DEF Anonymous

LEMMA LeftIs ==
  ASSUME NEW x \in AreaType, NEW a \in Nat
  PROVE  LET z == [x EXCEPT !.end = a] IN
         /\ z \in AreaType /\ z.start = x.start /\ z.end = a
         /\ z.backing = x.backing /\ z.offset = x.offset
BY DEF AreaType

LEMMA RightIs ==
  ASSUME NEW x \in AreaType, NEW b \in Nat, x.start <= b
  PROVE  LET z == Shortened(x, b) IN
         /\ z \in AreaType /\ z.start = b /\ z.end = x.end /\ z.backing = x.backing
         /\ x.backing # Anonymous => z.offset = x.offset + (b - x.start)
<1>1. x.start \in Nat /\ x.offset \in Nat /\ b - x.start \in Nat
  BY DEF AreaType
<1>2. x.offset + (b - x.start) \in Nat
  BY <1>1
<1>3. CASE x.backing = Anonymous
  BY <1>3 DEF AreaType, Shortened
<1>4. CASE x.backing # Anonymous
  <2> DEFINE o == x.offset + (b - x.start)
  <2>1. Shortened(x, b) = [x EXCEPT !.start = b, !.offset = o]
    BY <1>4 DEF Shortened
  <2>2. o \in Nat
    BY <1>2
  <2> HIDE DEF o
  <2>3. LET z == Shortened(x, b) IN
        /\ z \in AreaType /\ z.start = b /\ z.end = x.end /\ z.backing = x.backing /\ z.offset = o
    BY <2>1, <2>2 DEF AreaType
  <2> QED BY <2>3 DEF o
<1> QED BY <1>3, <1>4

\* What vm_unmap_area_range does, by name.
Hit(A, a, b) == {x \in A : a < x.end /\ x.start < b}
Lefts(A, a, b) == {[x EXCEPT !.end = a] : x \in {y \in Hit(A, a, b) : y.start < a}}
Rights(A, a, b) == {Shortened(x, b) : x \in {y \in Hit(A, a, b) : b < y.end}}
Split(A, a, b) == {x \in Hit(A, a, b) : x.start < a /\ b < x.end}
Whole(A, a, b) == {x \in Hit(A, a, b) : a <= x.start /\ x.end <= b}
Left(A, a, b) == (A \ Hit(A, a, b)) \cup Lefts(A, a, b) \cup Rights(A, a, b)
Cut(A, a, b) == UNION {Within(a, b) \cap Within(x.start, x.end) : x \in Hit(A, a, b)}
Dropped(A, M, a, b) == drop_backings(retain_maps(M, Split(A, a, b)), Whole(A, a, b))

LEMMA UnmapIs ==
  ASSUME NEW A, NEW P, NEW M, NEW a, NEW b
  PROVE  vm_unmap_area_range([areas |-> A, pte |-> P, memfds |-> M], a, b)
           = [areas |-> Left(A, a, b),
              pte |-> [p \in UserPages |-> IF p \in Cut(A, a, b) THEN Nothing ELSE P[p]],
              memfds |-> Dropped(A, M, a, b)]
<1> DEFINE st == [areas |-> A, pte |-> P, memfds |-> M]
           cl == [areas |-> A, pte |-> [p \in UserPages |-> IF p \in Cut(A, a, b) THEN Nothing ELSE P[p]],
                  memfds |-> M]
<1>1. ASSUME NEW r
      PROVE  vm_unmap_area_range(r, a, b)
               = [Filled(r, Cut(r.areas, a, b), Nothing) EXCEPT
                    !.areas = (@ \ Hit(r.areas, a, b)) \cup Lefts(r.areas, a, b) \cup Rights(r.areas, a, b),
                    !.memfds = drop_backings(retain_maps(@, Split(r.areas, a, b)), Whole(r.areas, a, b))]
  BY DEF vm_unmap_area_range, Hit, Lefts, Rights, Split, Whole, Cut
<1>2. st.areas = A
  OBVIOUS
<1>3. Filled(st, Cut(A, a, b), Nothing) = cl
  BY DEF Filled
<1> HIDE DEF st
<1>4. vm_unmap_area_range(st, a, b)
        = [cl EXCEPT !.areas = (@ \ Hit(A, a, b)) \cup Lefts(A, a, b) \cup Rights(A, a, b),
                     !.memfds = drop_backings(retain_maps(@, Split(A, a, b)), Whole(A, a, b))]
  BY <1>1, <1>2, <1>3
<1> QED BY <1>4 DEF st, Left, Dropped

\* Every area that is left is a piece of one that was there.
LEMMA PiecesAre ==
  ASSUME NEW A, Tiled(A), NEW a \in Nat, NEW b \in Nat, a < b, NEW z \in Left(A, a, b)
  PROVE  \E x \in A :
           /\ z \in AreaType /\ x.start <= z.start /\ z.start < z.end /\ z.end <= x.end
           /\ z.backing = x.backing /\ (z.end <= a \/ b <= z.start)
           /\ z.backing # Anonymous => z.offset + x.start = x.offset + z.start
           /\ \/ z = x /\ x \notin Hit(A, a, b)
              \/ z = [x EXCEPT !.end = a] /\ x \in Hit(A, a, b) /\ x.start < a /\ z.end = a
                 /\ z.start = x.start
              \/ z = Shortened(x, b) /\ x \in Hit(A, a, b) /\ b < x.end /\ z.start = b
                 /\ z.end = x.end
<1>1. CASE z \in A \ Hit(A, a, b)
  BY <1>1 DEF Tiled, Hit, AreaType
<1>2. CASE z \in Lefts(A, a, b)
  <2>1. PICK x \in Hit(A, a, b) : x.start < a /\ z = [x EXCEPT !.end = a]
    BY <1>2 DEF Lefts
  <2>2. x \in A /\ x \in AreaType /\ a < x.end /\ x.start < b
    BY <2>1 DEF Hit, Tiled
  <2>3. z \in AreaType /\ z.start = x.start /\ z.end = a
        /\ z.backing = x.backing /\ z.offset = x.offset
    BY <2>1, <2>2, LeftIs
  <2>4. x.start \in Nat /\ x.end \in Nat /\ x.offset \in Nat
    BY <2>2 DEF AreaType
  <2> QED BY <2>1, <2>2, <2>3, <2>4
<1>3. CASE z \in Rights(A, a, b)
  <2>1. PICK x \in Hit(A, a, b) : b < x.end /\ z = Shortened(x, b)
    BY <1>3 DEF Rights
  <2>2. x \in A /\ x \in AreaType /\ a < x.end /\ x.start < b
    BY <2>1 DEF Hit, Tiled
  <2>4. x.start \in Nat /\ x.end \in Nat /\ x.offset \in Nat /\ x.start <= b
    BY <2>2 DEF AreaType
  <2>3. z \in AreaType /\ z.start = b /\ z.end = x.end /\ z.backing = x.backing
        /\ (x.backing # Anonymous => z.offset = x.offset + (b - x.start))
    BY <2>1, <2>2, <2>4, RightIs
  <2> QED BY <2>1, <2>2, <2>3, <2>4
<1> QED BY <1>1, <1>2, <1>3 DEF Left

\* At most one area lies across an address.
LEMMA OneAcross ==
  ASSUME NEW A, Tiled(A), NEW a \in Nat, NEW L \in SUBSET A,
         \A x \in L : x.start < a /\ a < x.end
  PROVE  L = {} \/ \E x \in A : L = {x}
<1> SUFFICES ASSUME NEW x \in L, NEW y \in L, x # y PROVE FALSE
  OBVIOUS
<1>1. x.end <= y.start \/ y.end <= x.start
  BY DEF Tiled
<1>2. x \in AreaType /\ y \in AreaType
  BY DEF Tiled
<1>3. x.start < a /\ a < x.end /\ y.start < a /\ a < y.end
  OBVIOUS
<1> QED BY <1>1, <1>2, <1>3 DEF AreaType

LEMMA LeftsAre ==
  ASSUME NEW A, Tiled(A), NEW a \in Nat, NEW b \in Nat, a < b
  PROVE  LET L == {y \in Hit(A, a, b) : y.start < a} IN
         (L = {} /\ Lefts(A, a, b) = {}) \/ \E x \in A : L = {x} /\ Lefts(A, a, b) = {[x EXCEPT !.end = a]}
<1> DEFINE L == {y \in Hit(A, a, b) : y.start < a}
<1>1. L \in SUBSET A /\ \A x \in L : x.start < a /\ a < x.end
  BY DEF Hit
<1>2. Lefts(A, a, b) = {[x EXCEPT !.end = a] : x \in L}
  BY DEF Lefts
<1> HIDE DEF L
<1>3. L = {} \/ \E x \in A : L = {x}
  BY <1>1, OneAcross
<1>4. (L = {} /\ Lefts(A, a, b) = {}) \/ \E x \in A : L = {x} /\ Lefts(A, a, b) = {[x EXCEPT !.end = a]}
  BY <1>2, <1>3
<1> QED BY <1>4 DEF L

LEMMA RightsAre ==
  ASSUME NEW A, Tiled(A), NEW a \in Nat, NEW b \in Nat, a < b
  PROVE  LET R == {y \in Hit(A, a, b) : b < y.end} IN
         (R = {} /\ Rights(A, a, b) = {}) \/ \E x \in A : R = {x} /\ Rights(A, a, b) = {Shortened(x, b)}
<1> DEFINE R == {y \in Hit(A, a, b) : b < y.end}
<1>1. R \in SUBSET A /\ \A x \in R : x.start < b /\ b < x.end
  BY DEF Hit
<1>2. Rights(A, a, b) = {Shortened(x, b) : x \in R}
  BY DEF Rights
<1> HIDE DEF R
<1>3. R = {} \/ \E x \in A : R = {x}
  BY <1>1, OneAcross
<1>4. (R = {} /\ Rights(A, a, b) = {}) \/ \E x \in A : R = {x} /\ Rights(A, a, b) = {Shortened(x, b)}
  BY <1>2, <1>3
<1> QED BY <1>4 DEF R

LEMMA LeftFinite ==
  ASSUME NEW A, Tiled(A), NEW a \in Nat, NEW b \in Nat, a < b
  PROVE  /\ IsFiniteSet(Hit(A, a, b)) /\ IsFiniteSet(Lefts(A, a, b))
         /\ IsFiniteSet(Rights(A, a, b)) /\ IsFiniteSet(Left(A, a, b))
<1>1. IsFiniteSet(Hit(A, a, b)) /\ IsFiniteSet(A \ Hit(A, a, b))
  BY FS_Subset DEF Hit, Tiled
<1>2. /\ Lefts(A, a, b) = {} \/ \E z : Lefts(A, a, b) = {z}
      /\ Rights(A, a, b) = {} \/ \E z : Rights(A, a, b) = {z}
  <2> DEFINE L == {y \in Hit(A, a, b) : y.start < a}
             R == {y \in Hit(A, a, b) : b < y.end}
  <2>1. (L = {} /\ Lefts(A, a, b) = {}) \/ \E x \in A : L = {x} /\ Lefts(A, a, b) = {[x EXCEPT !.end = a]}
    BY LeftsAre
  <2>2. (R = {} /\ Rights(A, a, b) = {}) \/ \E x \in A : R = {x} /\ Rights(A, a, b) = {Shortened(x, b)}
    BY RightsAre
  <2> HIDE DEF L, R
  <2> QED BY <2>1, <2>2
<1>3. IsFiniteSet(Lefts(A, a, b))
  BY <1>2, FS_EmptySet, FS_Singleton
<1>4. IsFiniteSet(Rights(A, a, b))
  BY <1>2, FS_EmptySet, FS_Singleton
<1> QED BY <1>1, <1>3, <1>4, FS_Union DEF Left

LEMMA LeftTiled ==
  ASSUME NEW A, Tiled(A), NEW a \in Nat, NEW b \in Nat, a < b
  PROVE  Tiled(Left(A, a, b)) /\ \A z \in Left(A, a, b) : z.end <= a \/ b <= z.start
<1> DEFINE B == Left(A, a, b)
<1>1. IsFiniteSet(B)
  BY LeftFinite
<1>2. B \subseteq AreaType /\ \A z \in B : z.end <= a \/ b <= z.start
  BY PiecesAre
<1>3. ASSUME NEW z \in B
      PROVE  HeapPages < z.start /\ z.start < z.end /\ z.end <= LastPage + 1
  <2>1. PICK x \in A : x.start <= z.start /\ z.start < z.end /\ z.end <= x.end
    BY PiecesAre
  <2>2. HeapPages < x.start /\ x.end <= LastPage + 1 /\ x \in AreaType /\ z \in AreaType
    BY <1>2 DEF Tiled
  <2> QED BY <2>1, <2>2, NumbersAre DEF AreaType
<1>4. ASSUME NEW z \in B, NEW w \in B, z # w
      PROVE  z.end <= w.start \/ w.end <= z.start
  <2>1. PICK x \in A : /\ x.start <= z.start /\ z.start < z.end /\ z.end <= x.end
                       /\ \/ z = x /\ x \notin Hit(A, a, b)
                          \/ z = [x EXCEPT !.end = a] /\ x \in Hit(A, a, b) /\ z.end = a
                          \/ z = Shortened(x, b) /\ x \in Hit(A, a, b) /\ z.start = b
    BY PiecesAre
  <2>2. PICK y \in A : /\ y.start <= w.start /\ w.start < w.end /\ w.end <= y.end
                       /\ \/ w = y /\ y \notin Hit(A, a, b)
                          \/ w = [y EXCEPT !.end = a] /\ y \in Hit(A, a, b) /\ w.end = a
                          \/ w = Shortened(y, b) /\ y \in Hit(A, a, b) /\ w.start = b
    BY PiecesAre
  <2>3. z.start \in Nat /\ z.end \in Nat /\ w.start \in Nat /\ w.end \in Nat
        /\ x.start \in Nat /\ x.end \in Nat /\ y.start \in Nat /\ y.end \in Nat
    BY <1>2 DEF AreaType, Tiled
  <2>4. CASE x = y
    BY <1>4, <2>1, <2>2, <2>3, <2>4
  <2>5. CASE x # y
    <3>1. x.end <= y.start \/ y.end <= x.start
      BY <2>5 DEF Tiled
    <3> QED BY <3>1, <2>1, <2>2, <2>3
  <2> QED BY <2>4, <2>5
<1> QED BY <1>1, <1>2, <1>3, <1>4 DEF Tiled
-----------------------------------------------------------------------------
(* Counting the areas of a memfd                                           *)

LEMMA BackedFinite ==
  ASSUME NEW A, IsFiniteSet(A), NEW m
  PROVE  IsFiniteSet(BackedBy(A, m)) /\ Cardinality(BackedBy(A, m)) \in Nat
BY FS_Subset, FS_CardinalityType DEF BackedBy

LEMMA DisjointCount ==
  ASSUME NEW S, NEW T, IsFiniteSet(S), IsFiniteSet(T), S \cap T = {}
  PROVE  /\ IsFiniteSet(S \cup T) /\ Cardinality(S \cup T) = Cardinality(S) + Cardinality(T)
         /\ Cardinality(S) \in Nat /\ Cardinality(T) \in Nat
BY FS_Union, FS_EmptySet, FS_CardinalityType

\* The pieces of the cut areas of a memfd are as many as the areas across the
\* two addresses.
LEMMA PieceCount ==
  ASSUME NEW A, Tiled(A), NEW a \in Nat, NEW b \in Nat, a < b, NEW m
  PROVE  /\ Cardinality(BackedBy(Lefts(A, a, b), m))
              = Cardinality({x \in BackedBy(Hit(A, a, b), m) : x.start < a})
         /\ Cardinality(BackedBy(Rights(A, a, b), m))
              = Cardinality({x \in BackedBy(Hit(A, a, b), m) : b < x.end})
<1> DEFINE L == {y \in Hit(A, a, b) : y.start < a}
           R == {y \in Hit(A, a, b) : b < y.end}
           H == BackedBy(Hit(A, a, b), m)
<1>1. /\ {x \in H : x.start < a} = {x \in L : x.backing = m}
      /\ {x \in H : b < x.end} = {x \in R : x.backing = m}
  BY DEF BackedBy
<1>2. Cardinality(BackedBy(Lefts(A, a, b), m)) = Cardinality({x \in L : x.backing = m})
  <2>1. CASE L = {} /\ Lefts(A, a, b) = {}
    <3>1. BackedBy({}, m) = {} /\ {x \in {} : x.backing = m} = {}
      BY DEF BackedBy
    <3> QED BY <2>1, <3>1
  <2>2. CASE \E x \in A : L = {x} /\ Lefts(A, a, b) = {[x EXCEPT !.end = a]}
    <3>1. PICK x \in A : L = {x} /\ Lefts(A, a, b) = {[x EXCEPT !.end = a]}
      BY <2>2
    <3>2. x \in AreaType
      BY DEF Tiled
    <3> DEFINE z == [x EXCEPT !.end = a]
    <3>3. z.backing = x.backing
      BY <3>2, LeftIs
    <3> HIDE DEF L, z
    <3>4. CASE x.backing = m
      <4>1. BackedBy({z}, m) = {z} /\ {y \in {x} : y.backing = m} = {x}
        BY <3>3, <3>4 DEF BackedBy
      <4> QED BY <3>1, <4>1, FS_Singleton DEF z
    <3>5. CASE x.backing # m
      <4>1. BackedBy({z}, m) = {} /\ {y \in {x} : y.backing = m} = {}
        BY <3>3, <3>5 DEF BackedBy
      <4> QED BY <3>1, <4>1 DEF z
    <3> QED BY <3>4, <3>5
  <2> QED BY <2>1, <2>2, LeftsAre
<1>3. Cardinality(BackedBy(Rights(A, a, b), m)) = Cardinality({x \in R : x.backing = m})
  <2>1. CASE R = {} /\ Rights(A, a, b) = {}
    <3>1. BackedBy({}, m) = {} /\ {x \in {} : x.backing = m} = {}
      BY DEF BackedBy
    <3> QED BY <2>1, <3>1
  <2>2. CASE \E x \in A : R = {x} /\ Rights(A, a, b) = {Shortened(x, b)}
    <3>1. PICK x \in A : R = {x} /\ Rights(A, a, b) = {Shortened(x, b)}
      BY <2>2
    <3>2. x \in AreaType /\ x.start <= b
      <4>1. x \in AreaType /\ x.start < b
        BY <3>1 DEF Tiled, Hit
      <4> QED BY <4>1 DEF AreaType
    <3> DEFINE z == Shortened(x, b)
    <3>3. z.backing = x.backing
      BY <3>2, RightIs
    <3> HIDE DEF R, z
    <3>4. CASE x.backing = m
      <4>1. BackedBy({z}, m) = {z} /\ {y \in {x} : y.backing = m} = {x}
        BY <3>3, <3>4 DEF BackedBy
      <4> QED BY <3>1, <4>1, FS_Singleton DEF z
    <3>5. CASE x.backing # m
      <4>1. BackedBy({z}, m) = {} /\ {y \in {x} : y.backing = m} = {}
        BY <3>3, <3>5 DEF BackedBy
      <4> QED BY <3>1, <4>1 DEF z
    <3> QED BY <3>4, <3>5
  <2> QED BY <2>1, <2>2, RightsAre
<1> QED BY <1>1, <1>2, <1>3

LEMMA LeftCount ==
  ASSUME NEW A, Tiled(A), NEW a \in Nat, NEW b \in Nat, a < b, NEW m
  PROVE  /\ Cardinality(BackedBy(Left(A, a, b), m)) + Cardinality(BackedBy(Whole(A, a, b), m))
              = Cardinality(BackedBy(A, m)) + Cardinality(BackedBy(Split(A, a, b), m))
         /\ Cardinality(BackedBy(Whole(A, a, b), m)) <= Cardinality(BackedBy(A, m))
         /\ Cardinality(BackedBy(Split(A, a, b), m)) <= Cardinality(BackedBy(A, m))
         /\ Cardinality(BackedBy(Whole(A, a, b), m)) \in Nat
         /\ Cardinality(BackedBy(Split(A, a, b), m)) \in Nat
         /\ Cardinality(BackedBy(A, m)) \in Nat
         /\ Cardinality(BackedBy(Left(A, a, b), m)) \in Nat
<1> DEFINE H == BackedBy(Hit(A, a, b), m)
           K == BackedBy(A \ Hit(A, a, b), m)
           L == {x \in H : x.start < a}
           R == {x \in H : b < x.end}
           W == BackedBy(Whole(A, a, b), m)
           S == BackedBy(Split(A, a, b), m)
           Ls == BackedBy(Lefts(A, a, b), m)
           Rs == BackedBy(Rights(A, a, b), m)
<1>1. BackedBy(A, m) = K \cup H /\ K \cap H = {}
  BY DEF BackedBy, Hit
<1>2. H = W \cup (L \cup R) /\ W \cap (L \cup R) = {} /\ L \cap R = S
  <2>1. \A x \in Hit(A, a, b) : x.start \in Nat /\ x.end \in Nat
    BY DEF Hit, Tiled, AreaType
  <2> QED BY <2>1 DEF BackedBy, Whole, Split
<1>3. BackedBy(Left(A, a, b), m) = K \cup (Ls \cup Rs)
  BY DEF BackedBy, Left
<1>4. \A x, y \in A : x.start = y.start \/ x.end = y.end => x = y
  <2> SUFFICES ASSUME NEW x \in A, NEW y \in A, x # y PROVE x.start # y.start /\ x.end # y.end
    OBVIOUS
  <2>1. x.end <= y.start \/ y.end <= x.start
    BY DEF Tiled
  <2>2. x \in AreaType /\ y \in AreaType /\ x.start < x.end /\ y.start < y.end
    BY DEF Tiled
  <2> QED BY <2>1, <2>2 DEF AreaType
<1>5. \A z \in Lefts(A, a, b) : \E x \in Hit(A, a, b) : z.start = x.start /\ z.end = a /\ x.start < a
  <2> SUFFICES ASSUME NEW z \in Lefts(A, a, b)
               PROVE  \E x \in Hit(A, a, b) : z.start = x.start /\ z.end = a /\ x.start < a
    OBVIOUS
  <2>1. PICK x \in Hit(A, a, b) : x.start < a /\ z = [x EXCEPT !.end = a]
    BY DEF Lefts
  <2>2. x \in AreaType
    BY DEF Hit, Tiled
  <2> QED BY <2>1, <2>2, LeftIs
<1>6. \A z \in Rights(A, a, b) : \E x \in Hit(A, a, b) : z.end = x.end /\ z.start = b /\ x.end > b
  <2> SUFFICES ASSUME NEW z \in Rights(A, a, b)
               PROVE  \E x \in Hit(A, a, b) : z.end = x.end /\ z.start = b /\ x.end > b
    OBVIOUS
  <2>1. PICK x \in Hit(A, a, b) : b < x.end /\ z = Shortened(x, b)
    BY DEF Rights
  <2>2. x \in AreaType /\ x.start < b
    BY DEF Hit, Tiled
  <2>3. x.start <= b /\ x.end \in Nat
    BY <2>2 DEF AreaType
  <2> QED BY <2>1, <2>2, <2>3, RightIs
<1>7. K \cap (Ls \cup Rs) = {}
  <2>1. ASSUME NEW z \in K, z \in Ls PROVE FALSE
    BY <2>1, <1>4, <1>5 DEF BackedBy, Hit
  <2>2. ASSUME NEW z \in K, z \in Rs PROVE FALSE
    BY <2>2, <1>4, <1>6 DEF BackedBy, Hit
  <2> QED BY <2>1, <2>2
<1>8. Ls \cap Rs = {}
  <2> SUFFICES ASSUME NEW z \in Ls, z \in Rs PROVE FALSE
    OBVIOUS
  <2>1. PICK x \in Hit(A, a, b) : z.start = x.start /\ z.end = a /\ x.start < a
    BY <1>5 DEF BackedBy
  <2>2. z.start = b
    BY <1>6 DEF BackedBy
  <2> QED BY <2>1, <2>2
<1>9. IsFiniteSet(Hit(A, a, b)) /\ IsFiniteSet(A) /\ IsFiniteSet(A \ Hit(A, a, b))
      /\ IsFiniteSet(Lefts(A, a, b)) /\ IsFiniteSet(Rights(A, a, b))
      /\ IsFiniteSet(Whole(A, a, b)) /\ IsFiniteSet(Split(A, a, b))
  <2>1. IsFiniteSet(Hit(A, a, b)) /\ IsFiniteSet(A)
        /\ IsFiniteSet(Lefts(A, a, b)) /\ IsFiniteSet(Rights(A, a, b))
    BY LeftFinite DEF Tiled
  <2> QED BY <2>1, FS_Subset DEF Whole, Split
<1>10. /\ Cardinality(Ls) = Cardinality(L) /\ Cardinality(Rs) = Cardinality(R)
  BY PieceCount
<1>11. IsFiniteSet(K) /\ IsFiniteSet(H) /\ IsFiniteSet(Ls) /\ IsFiniteSet(Rs) /\ IsFiniteSet(W)
       /\ IsFiniteSet(S)
  BY <1>9, BackedFinite
<1>12. IsFiniteSet(L) /\ IsFiniteSet(R)
  BY <1>11, FS_Subset
<1> DEFINE B == BackedBy(A, m)
           C == BackedBy(Left(A, a, b), m)
<1>13. W \in SUBSET B /\ S \in SUBSET B /\ IsFiniteSet(B)
  BY <1>9, BackedFinite DEF BackedBy, Whole, Split, Hit
<1> HIDE DEF H, K, L, R, W, S, Ls, Rs, B, C
<1>14. Cardinality(B) = Cardinality(K) + Cardinality(H)
  BY <1>1, <1>11, DisjointCount DEF B
<1>15. Cardinality(C) = Cardinality(K) + (Cardinality(Ls) + Cardinality(Rs)) /\ Cardinality(C) \in Nat
  <2>1. Cardinality(Ls \cup Rs) = Cardinality(Ls) + Cardinality(Rs) /\ IsFiniteSet(Ls \cup Rs)
    BY <1>8, <1>11, DisjointCount
  <2>2. Cardinality(K \cup (Ls \cup Rs)) = Cardinality(K) + Cardinality(Ls \cup Rs)
        /\ IsFiniteSet(K \cup (Ls \cup Rs))
    BY <1>7, <1>11, <2>1, DisjointCount
  <2> QED BY <1>3, <2>1, <2>2, FS_CardinalityType DEF C
<1>16. Cardinality(H) = Cardinality(W) + Cardinality(L) + Cardinality(R) - Cardinality(S)
  <2>1. Cardinality(L \cup R) = Cardinality(L) + Cardinality(R) - Cardinality(S) /\ IsFiniteSet(L \cup R)
    BY <1>2, <1>12, FS_Union
  <2>2. Cardinality(H) = Cardinality(W) + Cardinality(L \cup R)
    BY <1>2, <1>11, <2>1, DisjointCount
  <2>3. Cardinality(W) \in Nat /\ Cardinality(L) \in Nat /\ Cardinality(R) \in Nat
        /\ Cardinality(S) \in Nat
    BY <1>11, <1>12, FS_CardinalityType
  <2> QED BY <2>1, <2>2, <2>3
<1>17. Cardinality(K) \in Nat /\ Cardinality(H) \in Nat /\ Cardinality(W) \in Nat
       /\ Cardinality(L) \in Nat /\ Cardinality(R) \in Nat /\ Cardinality(S) \in Nat
       /\ Cardinality(B) \in Nat
  BY <1>11, <1>12, <1>13, FS_CardinalityType
<1>18. Cardinality(W) <= Cardinality(B) /\ Cardinality(S) <= Cardinality(B)
  BY <1>13, FS_Subset
<1>19. Cardinality(C) + Cardinality(W) = Cardinality(B) + Cardinality(S)
  BY <1>10, <1>14, <1>15, <1>16, <1>17
<1> QED BY <1>15, <1>17, <1>18, <1>19 DEF B, C, W, S
-----------------------------------------------------------------------------
(* What unmapping does to the memfds and to the pages                      *)

LEMMA SlotWith ==
  ASSUME NEW x \in SlotType, NEW n \in Nat
  PROVE  LET z == [x EXCEPT !.map_refs = n] IN
         /\ z \in SlotType /\ z.used = x.used /\ z.refs = x.refs /\ z.map_refs = n
         /\ z.pages = x.pages
BY DEF SlotType

LEMMA SlotWithRefs ==
  ASSUME NEW x \in SlotType, NEW n \in Nat
  PROVE  LET z == [x EXCEPT !.refs = n] IN
         /\ z \in SlotType /\ z.used = x.used /\ z.refs = n /\ z.map_refs = x.map_refs
         /\ z.pages = x.pages
BY DEF SlotType

LEMMA NoMemfdIs ==
  /\ NoMemfd \in SlotType /\ NoMemfd.used = FALSE /\ NoMemfd.refs = 0 /\ NoMemfd.map_refs = 0
  /\ NoMemfd.pages = <<>>
BY NumbersAre DEF NoMemfd, SlotType

LEMMA ResetIs ==
  ASSUME NEW x \in SlotType, x.used
  PROVE  LET z == memfd_maybe_reset(x) IN
         /\ z \in SlotType /\ z.refs = x.refs /\ z.map_refs = x.map_refs
         /\ (z.used <=> z.refs # 0 \/ z.map_refs # 0) /\ (z.used => z.pages = x.pages)
BY NoMemfdIs DEF memfd_maybe_reset

LEMMA RetainIs ==
  ASSUME NEW M, SlotsTold(M), NEW S, IsFiniteSet(S),
         \A m \in Memfds : Cardinality(BackedBy(S, m)) # 0 => M[m].used
  PROVE  LET N == retain_maps(M, S) IN
         /\ SlotsTold(N)
         /\ \A m \in Memfds :
              /\ N[m].map_refs = M[m].map_refs + Cardinality(BackedBy(S, m))
              /\ N[m].refs = M[m].refs /\ N[m].used = M[m].used /\ N[m].pages = M[m].pages
<1> DEFINE N == retain_maps(M, S)
<1>1. ASSUME NEW m \in Memfds
      PROVE  /\ N[m] \in SlotType /\ N[m].map_refs = M[m].map_refs + Cardinality(BackedBy(S, m))
             /\ N[m].refs = M[m].refs /\ N[m].used = M[m].used /\ N[m].pages = M[m].pages
             /\ N[m].used <=> N[m].refs # 0 \/ N[m].map_refs # 0
  <2> DEFINE n == M[m].map_refs + Cardinality(BackedBy(S, m))
  <2>1. Cardinality(BackedBy(S, m)) \in Nat
    BY BackedFinite
  <2>2. M[m] \in SlotType
    BY DEF SlotsTold
  <2>3. n \in Nat
    BY <2>1, <2>2 DEF SlotType
  <2>4. N[m] = [M[m] EXCEPT !.map_refs = n]
    BY DEF retain_maps
  <2> HIDE DEF n, N
  <2>5. N[m] \in SlotType /\ N[m].map_refs = n
        /\ N[m].refs = M[m].refs /\ N[m].used = M[m].used /\ N[m].pages = M[m].pages
    BY <2>2, <2>3, <2>4, SlotWith
  <2>6. M[m].used <=> M[m].refs # 0 \/ M[m].map_refs # 0
    BY DEF SlotsTold
  <2>7. M[m].map_refs \in Nat
    BY <2>2 DEF SlotType
  <2>8. n # 0 <=> M[m].map_refs # 0 \/ Cardinality(BackedBy(S, m)) # 0
    BY <2>1, <2>7 DEF n
  <2> QED BY <2>5, <2>6, <2>8 DEF n
<1>2. N = [m \in Memfds |-> N[m]]
  BY DEF retain_maps
<1> HIDE DEF N
<1>3. N \in [Memfds -> SlotType]
  BY <1>1, <1>2
<1>4. SlotsTold(N)
  BY <1>1, <1>3 DEF SlotsTold
<1> QED BY <1>1, <1>4 DEF N

LEMMA DropIs ==
  ASSUME NEW M, SlotsTold(M), NEW S, IsFiniteSet(S),
         \A m \in Memfds : Cardinality(BackedBy(S, m)) <= M[m].map_refs
  PROVE  LET N == drop_backings(M, S) IN
         /\ SlotsTold(N)
         /\ \A m \in Memfds :
              /\ N[m].map_refs + Cardinality(BackedBy(S, m)) = M[m].map_refs
              /\ N[m].refs = M[m].refs
              /\ N[m].used => M[m].used /\ N[m].pages = M[m].pages
<1> DEFINE N == drop_backings(M, S)
<1>1. ASSUME NEW m \in Memfds
      PROVE  /\ N[m] \in SlotType /\ N[m].map_refs + Cardinality(BackedBy(S, m)) = M[m].map_refs
             /\ N[m].refs = M[m].refs /\ (N[m].used => M[m].used /\ N[m].pages = M[m].pages)
             /\ N[m].used <=> N[m].refs # 0 \/ N[m].map_refs # 0
  <2> DEFINE n == Cardinality(BackedBy(S, m))
             k == IF M[m].map_refs < n THEN 0 ELSE M[m].map_refs - n
  <2>1. n \in Nat /\ n <= M[m].map_refs
    BY BackedFinite
  <2>2. M[m] \in SlotType /\ (M[m].used <=> M[m].refs # 0 \/ M[m].map_refs # 0)
    BY DEF SlotsTold
  <2>3. M[m].map_refs \in Nat
    BY <2>2 DEF SlotType
  <2>4. N[m] = IF n = 0 \/ ~M[m].used THEN M[m]
               ELSE memfd_maybe_reset([M[m] EXCEPT !.map_refs = k])
    BY DEF drop_backings
  <2>5. k = M[m].map_refs - n /\ k \in Nat
    BY <2>1, <2>3
  <2> HIDE DEF n, k, N
  <2>6. CASE n = 0 \/ ~M[m].used
    <3>1. n = 0
      BY <2>6, <2>1, <2>2, <2>3
    <3>2. N[m] = M[m]
      BY <2>4, <2>6
    <3>3. N[m].map_refs + n = M[m].map_refs
      BY <3>1, <3>2, <2>3
    <3> QED BY <3>2, <3>3, <2>2 DEF n
  <2>7. CASE ~(n = 0 \/ ~M[m].used)
    <3> DEFINE y == [M[m] EXCEPT !.map_refs = k]
    <3>1. /\ y \in SlotType /\ y.used = M[m].used /\ y.refs = M[m].refs /\ y.map_refs = k
          /\ y.pages = M[m].pages
      BY <2>2, <2>5, SlotWith
    <3>2. N[m] = memfd_maybe_reset(y)
      BY <2>4, <2>7
    <3> HIDE DEF y
    <3>3. y.used
      BY <3>1, <2>7
    <3>4. /\ N[m] \in SlotType /\ N[m].refs = y.refs /\ N[m].map_refs = y.map_refs
          /\ (N[m].used <=> N[m].refs # 0 \/ N[m].map_refs # 0) /\ (N[m].used => N[m].pages = y.pages)
      BY <3>1, <3>2, <3>3, ResetIs
    <3>5. N[m].map_refs + n = M[m].map_refs
      BY <3>1, <3>4, <2>1, <2>3, <2>5
    <3> QED BY <2>7, <3>1, <3>4, <3>5 DEF n
  <2> QED BY <2>6, <2>7
<1>2. N = [m \in Memfds |-> N[m]]
  BY DEF drop_backings
<1> HIDE DEF N
<1>3. N \in [Memfds -> SlotType]
  BY <1>1, <1>2
<1>4. SlotsTold(N)
  BY <1>1, <1>3 DEF SlotsTold
<1> QED BY <1>1, <1>4 DEF N

LEMMA UnmapFollows ==
  ASSUME NEW A, NEW P, NEW M, AreasSound(A, P, M), NEW a \in Nat, NEW b \in Nat, a < b
  PROVE  LET B == Left(A, a, b)
             N == Dropped(A, M, a, b)
         IN  Follows(A, M, B, N) /\ SlotsTold(N)
             /\ \A m \in Memfds : Cardinality(BackedBy(B, m)) <= N[m].map_refs
<1> DEFINE B == Left(A, a, b)
           S == Split(A, a, b)
           W == Whole(A, a, b)
           R == retain_maps(M, S)
           N == drop_backings(R, W)
           In(m) == Cardinality(BackedBy(A, m))
           Out(m) == Cardinality(BackedBy(B, m))
           Both(m) == Cardinality(BackedBy(S, m))
           Gone(m) == Cardinality(BackedBy(W, m))
<1>1. Tiled(A) /\ SlotsTold(M) /\ \A m \in Memfds : In(m) <= M[m].map_refs
  BY DEF AreasSound
<1>2. \A m : Out(m) + Gone(m) = In(m) + Both(m) /\ Gone(m) <= In(m) /\ Both(m) <= In(m)
             /\ Gone(m) \in Nat /\ Both(m) \in Nat /\ In(m) \in Nat /\ Out(m) \in Nat
  BY <1>1, LeftCount
<1>3. IsFiniteSet(S) /\ IsFiniteSet(W)
  <2>1. IsFiniteSet(Hit(A, a, b))
    BY <1>1, LeftFinite
  <2> QED BY <2>1, FS_Subset DEF Split, Whole
<1> HIDE DEF B, S, W, R, N, In, Out, Both, Gone
<1>4. \A m \in Memfds : M[m].map_refs \in Nat /\ M[m].refs \in Nat
                        /\ (M[m].used <=> M[m].refs # 0 \/ M[m].map_refs # 0)
  BY <1>1 DEF SlotsTold, SlotType
<1>5. /\ SlotsTold(R)
      /\ \A m \in Memfds :
           /\ R[m].map_refs = M[m].map_refs + Both(m)
           /\ R[m].refs = M[m].refs /\ R[m].used = M[m].used /\ R[m].pages = M[m].pages
  <2>1. \A m \in Memfds : Both(m) # 0 => M[m].used
    BY <1>1, <1>2, <1>4
  <2> QED BY <1>1, <1>3, <2>1, RetainIs DEF R, Both
<1>6. /\ SlotsTold(N)
      /\ \A m \in Memfds :
           /\ N[m].map_refs + Gone(m) = R[m].map_refs
           /\ N[m].refs = R[m].refs
           /\ N[m].used => R[m].used /\ N[m].pages = R[m].pages
  <2>1. \A m \in Memfds : Gone(m) <= R[m].map_refs
    BY <1>1, <1>2, <1>4, <1>5
  <2> QED BY <1>3, <1>5, <2>1, DropIs DEF N, Gone
<1>7. \A m \in Memfds : N[m].map_refs \in Nat
  BY <1>6 DEF SlotsTold, SlotType
<1>8. ASSUME NEW m \in Memfds
      PROVE  N[m].map_refs + In(m) = M[m].map_refs + Out(m) /\ Out(m) <= N[m].map_refs
  <2>1. Out(m) + Gone(m) = In(m) + Both(m) /\ Gone(m) <= In(m) /\ Both(m) <= In(m)
        /\ Gone(m) \in Nat /\ Both(m) \in Nat /\ In(m) \in Nat /\ Out(m) \in Nat
    BY <1>2
  <2>2. In(m) <= M[m].map_refs /\ M[m].map_refs \in Nat /\ N[m].map_refs \in Nat
    BY <1>1, <1>4, <1>7
  <2>3. N[m].map_refs + Gone(m) = M[m].map_refs + Both(m)
    BY <1>5, <1>6
  <2> QED BY <2>1, <2>2, <2>3
<1>9. Follows(A, M, B, N)
  BY <1>5, <1>6, <1>8 DEF Follows, In, Out
<1>10. N = Dropped(A, M, a, b)
  BY DEF N, R, S, W, Dropped
<1> QED BY <1>6, <1>8, <1>9, <1>10 DEF B, Out

Cleared(A, P, a, b) == [p \in UserPages |-> IF p \in Cut(A, a, b) THEN Nothing ELSE P[p]]

LEMMA CutIs ==
  ASSUME NEW A, NEW a \in Nat, NEW b \in Nat, NEW p, p \in Cut(A, a, b)
  PROVE  p \in Within(a, b) /\ \E x \in A : p \in Within(x.start, x.end)
BY DEF Cut, Hit

LEMMA UnmapPages ==
  ASSUME NEW A, NEW P, NEW M, AreasSound(A, P, M), NEW a \in Nat, NEW b \in Nat, a < b
  PROVE  LET B == Left(A, a, b)
             Q == Cleared(A, P, a, b)
             N == Dropped(A, M, a, b)
         IN  Q \in Ptes /\ Present(B, Q) /\ Borrows(B, Q, N)
<1> DEFINE B == Left(A, a, b)
           Q == Cleared(A, P, a, b)
           N == Dropped(A, M, a, b)
<1>1. Tiled(A) /\ P \in Ptes /\ Present(A, P) /\ Borrows(A, P, M) /\ SlotsTold(M)
      /\ \A m \in Memfds : Cardinality(BackedBy(A, m)) <= M[m].map_refs
  BY DEF AreasSound
<1>2. Q \in Ptes
  BY <1>1, NumbersAre DEF Cleared, Ptes, Nothing, Own
<1>3. \A z \in B : z.end <= a \/ b <= z.start
  BY <1>1, LeftTiled
<1>4. Tiled(B)
  BY <1>1, LeftTiled
<1>5. Present(B, Q)
  <2> SUFFICES ASSUME NEW z \in B, NEW p \in Within(z.start, z.end) PROVE Q[p] # Nothing
    BY DEF Present
  <2>1. PICK x \in A : x.start <= z.start /\ z.start < z.end /\ z.end <= x.end
    BY <1>1, PiecesAre
  <2>2. z \in AreaType /\ x \in AreaType /\ HeapPages < z.start /\ z.end <= LastPage + 1
    BY <1>1, <1>4 DEF Tiled
  <2>3. p \in Within(x.start, x.end) /\ p \in UserPages /\ p \notin Within(a, b)
    BY <2>1, <2>2, <1>3, NumbersAre DEF AreaType, Within, UserPages
  <2>4. p \notin Cut(A, a, b)
    BY <2>3, CutIs
  <2>5. Q[p] = P[p]
    BY <2>3, <2>4 DEF Cleared
  <2> QED BY <1>1, <2>3, <2>5 DEF Present
<1>6. Borrows(B, Q, N)
  <2> SUFFICES ASSUME NEW p \in UserPages, Q[p] \in 1 .. FrameCount
               PROVE  \E z \in B : Shows(z, p, Q[p], N)
    BY DEF Borrows
  <2>1. p \notin Cut(A, a, b) /\ Q[p] = P[p]
    BY NumbersAre DEF Cleared, Nothing
  <2>2. PICK x \in A : Shows(x, p, P[p], M)
    BY <1>1, <2>1 DEF Borrows
  <2>3. x \in AreaType /\ x.start < x.end
    BY <1>1 DEF Tiled
  <2>4. x.start \in Nat /\ x.end \in Nat /\ x.offset \in Nat /\ x.backing \in Memfds \cup {Anonymous}
    BY <2>3 DEF AreaType
  <2>5. p \in Within(x.start, x.end) /\ x.backing \in Memfds
    BY <2>2, <2>4 DEF Shows
  <2>6. p \in Nat
    BY DEF UserPages
  <2>7. \E z \in B : /\ z.backing = x.backing /\ p \in Within(z.start, z.end)
                     /\ z.offset + p - z.start + 1 = x.offset + p - x.start + 1
    <3>1. CASE x \notin Hit(A, a, b)
      BY <2>5, <3>1 DEF Left
    <3>2. CASE x \in Hit(A, a, b)
      <4>1. p \notin Within(a, b)
        BY <2>1, <2>5, <3>2 DEF Cut
      <4>2. CASE p < a
        <5> DEFINE z == [x EXCEPT !.end = a]
        <5>1. z.start = x.start /\ z.end = a /\ z.backing = x.backing /\ z.offset = x.offset
          BY <2>3, LeftIs
        <5>2. x.start < a /\ p \in Within(z.start, z.end)
          BY <5>1, <4>2, <2>4, <2>5, <2>6 DEF Within
        <5>3. z \in B
          BY <3>2, <5>2 DEF Left, Lefts
        <5> HIDE DEF z, B
        <5> QED BY <5>1, <5>2, <5>3
      <4>3. CASE b <= p
        <5> DEFINE z == Shortened(x, b)
        <5>1. b < x.end /\ x.start < b
          BY <4>3, <3>2, <2>4, <2>5, <2>6 DEF Within, Hit
        <5>2. z.start = b /\ z.end = x.end /\ z.backing = x.backing
              /\ (x.backing # Anonymous => z.offset = x.offset + (b - x.start))
          BY <2>3, <2>4, <5>1, RightIs
        <5>3. z \in B
          BY <3>2, <5>1 DEF Left, Rights
        <5> HIDE DEF z, B
        <5>4. p \in Within(z.start, z.end)
          BY <5>2, <4>3, <2>4, <2>5, <2>6 DEF Within
        <5>5. z.offset + p - z.start + 1 = x.offset + p - x.start + 1
          BY <5>2, <2>2, <2>4, <2>6 DEF Shows
        <5> QED BY <5>2, <5>3, <5>4, <5>5
      <4> QED BY <4>1, <4>2, <4>3, <2>6 DEF Within
    <3> QED BY <3>1, <3>2
  <2>8. PICK z \in B : /\ z.backing = x.backing /\ p \in Within(z.start, z.end)
                       /\ z.offset + p - z.start + 1 = x.offset + p - x.start + 1
    BY <2>7
  <2>9. N[x.backing].used /\ N[x.backing].pages = M[x.backing].pages
    <3>1. Follows(A, M, B, N) /\ SlotsTold(N)
          /\ \A m \in Memfds : Cardinality(BackedBy(B, m)) <= N[m].map_refs
      BY UnmapFollows
    <3>2. BackedBy(B, x.backing) # {} /\ IsFiniteSet(BackedBy(B, x.backing))
      BY <1>4, <2>8, BackedFinite DEF BackedBy, Tiled
    <3>3. Cardinality(BackedBy(B, x.backing)) # 0 /\ Cardinality(BackedBy(B, x.backing)) \in Nat
      BY <3>2, FS_EmptySet, FS_CardinalityType
    <3>4. N[x.backing].map_refs \in Nat
      BY <3>1, <2>5 DEF SlotsTold, SlotType
    <3>5. N[x.backing].map_refs # 0
      BY <3>1, <3>3, <3>4, <2>5
    <3>6. N[x.backing].used
      BY <3>1, <3>5, <2>5 DEF SlotsTold
    <3> QED BY <3>1, <3>6, <2>5 DEF Follows
  <2>10. Shows(z, p, P[p], N)
    BY <2>2, <2>8, <2>9 DEF Shows
  <2> QED BY <2>1, <2>10
<1> QED BY <1>2, <1>5, <1>6

\* Unmapping a range leaves sound areas that do not meet it.
LEMMA UnmapSound ==
  ASSUME NEW A, NEW P, NEW M, AreasSound(A, P, M), NEW a \in Nat, NEW b \in Nat, a < b
  PROVE  LET B == Left(A, a, b)
             Q == Cleared(A, P, a, b)
             N == Dropped(A, M, a, b)
         IN  /\ AreasSound(B, Q, N) /\ Follows(A, M, B, N)
             /\ \A z \in B : z.end <= a \/ b <= z.start
             /\ vm_unmap_area_range([areas |-> A, pte |-> P, memfds |-> M], a, b)
                  = [areas |-> B, pte |-> Q, memfds |-> N]
<1>1. Tiled(A)
  BY DEF AreasSound
<1>2. Tiled(Left(A, a, b)) /\ \A z \in Left(A, a, b) : z.end <= a \/ b <= z.start
  BY <1>1, LeftTiled
<1>3. vm_unmap_area_range([areas |-> A, pte |-> P, memfds |-> M], a, b)
        = [areas |-> Left(A, a, b), pte |-> Cleared(A, P, a, b), memfds |-> Dropped(A, M, a, b)]
  BY UnmapIs DEF Cleared
<1> QED BY <1>2, <1>3, UnmapPages, UnmapFollows DEF AreasSound
-----------------------------------------------------------------------------
(* The areas of all spaces                                                 *)

Tag(s, B) == {<<s, x>> : x \in B}
Tags(G, T, m) == UNION {Tag(s, BackedBy(G[s], m)) : s \in T}
MapsOf(G, m) == Tags(G, Spaces, m)

LEMMA TaggedCount ==
  ASSUME NEW s, NEW B, IsFiniteSet(B)
  PROVE  IsFiniteSet(Tag(s, B)) /\ Cardinality(Tag(s, B)) = Cardinality(B)
<1>1. Tag(s, B) = {s} \X B
  BY DEF Tag
<1>2. IsFiniteSet({s} \X B) /\ Cardinality({s} \X B) = Cardinality({s}) * Cardinality(B)
  BY FS_Product, FS_Singleton
<1>3. Cardinality({s}) = 1 /\ Cardinality(B) \in Nat
  BY FS_Singleton, FS_CardinalityType
<1> QED BY <1>1, <1>2, <1>3

LEMMA TagsFinite ==
  ASSUME NEW G, NEW T, IsFiniteSet(T), \A s \in T : IsFiniteSet(G[s]), NEW m
  PROVE  IsFiniteSet(Tags(G, T, m))
<1> DEFINE f == [s \in T |-> Tag(s, BackedBy(G[s], m))]
           I == {Tag(s, BackedBy(G[s], m)) : s \in T}
<1>1. f \in Surjection(T, I)
  <2>1. f \in [T -> I]
    OBVIOUS
  <2>2. \A y \in I : \E s \in T : f[s] = y
    OBVIOUS
  <2> HIDE DEF f, I
  <2> QED BY <2>1, <2>2 DEF Surjection
<1>2. \A s \in T : IsFiniteSet(Tag(s, BackedBy(G[s], m)))
  BY BackedFinite, TaggedCount
<1>3. \A y \in I : IsFiniteSet(y)
  BY <1>2
<1> HIDE DEF f, I
<1>4. IsFiniteSet(I)
  BY <1>1, FS_Surjection
<1>5. IsFiniteSet(UNION I)
  BY <1>3, <1>4, FS_UNION
<1> QED BY <1>5 DEF I, Tags

LEMMA CountAt ==
  ASSUME NEW G, NEW H, NEW s \in Spaces, \A r \in Spaces : IsFiniteSet(G[r]) /\ IsFiniteSet(H[r]),
         \A r \in Spaces \ {s} : H[r] = G[r], NEW m
  PROVE  /\ Cardinality(MapsOf(H, m)) + Cardinality(BackedBy(G[s], m))
              = Cardinality(MapsOf(G, m)) + Cardinality(BackedBy(H[s], m))
         /\ Cardinality(MapsOf(G, m)) \in Nat /\ Cardinality(MapsOf(H, m)) \in Nat
         /\ Cardinality(BackedBy(G[s], m)) \in Nat /\ Cardinality(BackedBy(H[s], m)) \in Nat
<1> DEFINE O == Tags(G, Spaces \ {s}, m)
           Q == Tags(H, Spaces \ {s}, m)
           Gs == Tag(s, BackedBy(G[s], m))
           Hs == Tag(s, BackedBy(H[s], m))
<1>1. MapsOf(G, m) = O \cup Gs /\ MapsOf(H, m) = Q \cup Hs
  BY DEF MapsOf, Tags
<1>2. \A t \in O : \E r \in Spaces \ {s} : \E x \in BackedBy(G[r], m) : t = <<r, x>>
  BY DEF Tags, Tag
<1>3. Q = O
  <2>1. \A r \in Spaces \ {s} : Tag(r, BackedBy(G[r], m)) = Tag(r, BackedBy(H[r], m))
    OBVIOUS
  <2> QED BY <2>1 DEF Tags
<1>4. IsFiniteSet(O)
  <2>1. IsFiniteSet(Spaces \ {s})
    BY NumbersAre, FS_Subset
  <2>2. \A r \in Spaces \ {s} : IsFiniteSet(G[r])
    OBVIOUS
  <2> QED BY <2>1, <2>2, TagsFinite
<1>5. O \cap Gs = {} /\ O \cap Hs = {}
  BY <1>2 DEF Tag
<1>6. /\ IsFiniteSet(Gs) /\ Cardinality(Gs) = Cardinality(BackedBy(G[s], m))
      /\ IsFiniteSet(Hs) /\ Cardinality(Hs) = Cardinality(BackedBy(H[s], m))
      /\ Cardinality(BackedBy(G[s], m)) \in Nat /\ Cardinality(BackedBy(H[s], m)) \in Nat
  <2>1. IsFiniteSet(BackedBy(G[s], m)) /\ IsFiniteSet(BackedBy(H[s], m))
        /\ Cardinality(BackedBy(G[s], m)) \in Nat /\ Cardinality(BackedBy(H[s], m)) \in Nat
    BY BackedFinite
  <2> QED BY <2>1, TaggedCount
<1> HIDE DEF O, Q, Gs, Hs
<1>7. /\ Cardinality(O \cup Gs) = Cardinality(O) + Cardinality(Gs)
      /\ Cardinality(O \cup Hs) = Cardinality(O) + Cardinality(Hs) /\ Cardinality(O) \in Nat
  BY <1>4, <1>5, <1>6, DisjointCount
<1> QED BY <1>1, <1>3, <1>6, <1>7

LEMMA BackedMap ==
  ASSUME NEW A, IsFiniteSet(A), NEW x \in A
  PROVE  Cardinality(BackedBy(A, x.backing)) \in Nat \ {0}
<1>1. IsFiniteSet(BackedBy(A, x.backing)) /\ BackedBy(A, x.backing) # {}
  BY BackedFinite DEF BackedBy
<1> QED BY <1>1, FS_EmptySet, FS_CardinalityType

Extends(q, r) == DOMAIN q \subseteq DOMAIN r /\ \A i \in DOMAIN q : r[i] = q[i]

LEMMA ShowsStill ==
  ASSUME NEW x, NEW p, NEW f, NEW M, NEW N, Shows(x, p, f, M),
         Extends(M[x.backing].pages, N[x.backing].pages)
  PROVE  Shows(x, p, f, N)
BY DEF Shows, Extends

\* What is asked of a step that gives one space other areas.
StepTold(s, X) ==
  /\ Tiled(X.areas) /\ Present(X.areas, X.pte) /\ Borrows(X.areas, X.pte, memfds')
  /\ SlotsTold(memfds')
  /\ \A m \in Memfds :
       /\ memfds'[m].map_refs + Cardinality(BackedBy(mm[s].areas, m))
            = memfds[m].map_refs + Cardinality(BackedBy(X.areas, m))
       /\ memfds'[m].map_refs # 0 => Extends(memfds[m].pages, memfds'[m].pages)
       /\ memfds'[m].refs = Cardinality(Fds(m)')

LEMMA StepKeeps ==
  ASSUME AreasInv, NEW s \in Spaces, NEW X \in SpaceType, mm' = [mm EXCEPT ![s] = X],
         StepTold(s, X), memfdFds' \in [Spaces -> SUBSET Memfds], alive' \subseteq Spaces,
         \A r \in Spaces \ alive' : mm'[r] = NoSpace /\ memfdFds'[r] = {}
  PROVE  AreasInv'
<1> DEFINE G == [r \in Spaces |-> mm[r].areas]
           H == [r \in Spaces |-> mm'[r].areas]
<1>1. mm \in [Spaces -> SpaceType] /\ mm' \in [Spaces -> SpaceType]
  BY DEF AreasInv, AreasTypes
<1>2. mm'[s] = X /\ \A r \in Spaces \ {s} : mm'[r] = mm[r]
  BY <1>1
<1>3. AreasTypes'
  BY <1>1 DEF AreasTypes, StepTold, SlotsTold
<1>4. \A r \in Spaces : Tiled(mm[r].areas) /\ Tiled(mm'[r].areas)
  BY <1>2 DEF AreasInv, AreasSound, StepTold
<1>5. \A r \in Spaces : IsFiniteSet(G[r]) /\ IsFiniteSet(H[r])
  BY <1>4 DEF Tiled
<1>6. \A r \in Spaces \ {s} : H[r] = G[r]
  BY <1>2
<1>7. G[s] = mm[s].areas /\ H[s] = X.areas
  BY <1>2
<1>8. ASSUME NEW m
      PROVE  MapsOf(G, m) = Maps(m) /\ MapsOf(H, m) = Maps(m)'
  <2>1. MapsOf(G, m) = Maps(m)
    BY DEF MapsOf, Tags, Tag, Maps
  <2>2. MapsOf(H, m) = Maps(m)'
    BY DEF MapsOf, Tags, Tag, Maps
  <2> QED BY <2>1, <2>2
<1> HIDE DEF G, H
<1>9. \A m \in Memfds : memfds'[m].refs = Cardinality(Fds(m)') /\ memfds'[m].map_refs = Cardinality(Maps(m)')
  <2> SUFFICES ASSUME NEW m \in Memfds
               PROVE  memfds'[m].map_refs = Cardinality(Maps(m)')
    BY DEF StepTold
  <2>1. /\ Cardinality(MapsOf(H, m)) + Cardinality(BackedBy(G[s], m))
              = Cardinality(MapsOf(G, m)) + Cardinality(BackedBy(H[s], m))
        /\ Cardinality(MapsOf(G, m)) \in Nat /\ Cardinality(MapsOf(H, m)) \in Nat
        /\ Cardinality(BackedBy(G[s], m)) \in Nat /\ Cardinality(BackedBy(H[s], m)) \in Nat
    BY <1>5, <1>6, CountAt
  <2>2. memfds[m].map_refs = Cardinality(MapsOf(G, m))
    BY <1>8 DEF AreasInv
  <2>3. memfds'[m].map_refs + Cardinality(BackedBy(G[s], m))
            = memfds[m].map_refs + Cardinality(BackedBy(H[s], m))
    BY <1>7 DEF StepTold
  <2>4. memfds'[m].map_refs \in Nat
    BY <1>3 DEF AreasTypes, SlotType
  <2> QED BY <1>8, <2>1, <2>2, <2>3, <2>4
<1>10. \A r \in Spaces, m \in Memfds : Cardinality(BackedBy(mm'[r].areas, m)) <= memfds'[m].map_refs
  <2> SUFFICES ASSUME NEW r \in Spaces, NEW m \in Memfds
               PROVE  Cardinality(BackedBy(mm'[r].areas, m)) <= Cardinality(Maps(m)')
    BY <1>9
  <2> DEFINE B == BackedBy(mm'[r].areas, m)
             T == Tag(r, B)
  <2>1. IsFiniteSet(B)
    BY <1>4, BackedFinite DEF Tiled
  <2>2. Cardinality(T) = Cardinality(B)
    BY <2>1, TaggedCount
  <2>3. T \subseteq Maps(m)'
    BY DEF Maps, Tag
  <2>4. IsFiniteSet(MapsOf(H, m))
    <3>1. IsFiniteSet(Spaces) /\ \A q \in Spaces : IsFiniteSet(H[q])
      BY <1>5, NumbersAre
    <3> QED BY <3>1, TagsFinite DEF MapsOf
  <2>5. IsFiniteSet(Maps(m)')
    BY <1>8, <2>4
  <2> HIDE DEF B, T
  <2>6. Cardinality(T) <= Cardinality(Maps(m)')
    BY <2>3, <2>5, FS_Subset
  <2> QED BY <2>2, <2>6 DEF B
<1>11. ASSUME NEW r \in Spaces, r # s PROVE Borrows(mm'[r].areas, mm'[r].pte, memfds')
  <2> SUFFICES ASSUME NEW p \in UserPages, mm[r].pte[p] \in 1 .. FrameCount
               PROVE  \E x \in mm[r].areas : Shows(x, p, mm[r].pte[p], memfds')
    BY <1>2, <1>11 DEF Borrows
  <2>1. PICK x \in mm[r].areas : Shows(x, p, mm[r].pte[p], memfds)
    BY DEF AreasInv, AreasSound, Borrows
  <2>2. x.backing \in Memfds
    BY <2>1, <1>4 DEF Shows, Tiled, AreaType
  <2>3. Cardinality(BackedBy(mm[r].areas, x.backing)) \in Nat \ {0}
    BY <1>4, BackedMap DEF Tiled
  <2>4. memfds'[x.backing].map_refs \in Nat
    BY <1>3, <2>2 DEF AreasTypes, SlotType
  <2>5. memfds'[x.backing].map_refs # 0
    BY <1>2, <1>10, <1>11, <2>2, <2>3, <2>4
  <2>6. Extends(memfds[x.backing].pages, memfds'[x.backing].pages)
    BY <2>2, <2>5 DEF StepTold
  <2> QED BY <2>1, <2>6, ShowsStill
<1>12. \A r \in Spaces : AreasSound(mm'[r].areas, mm'[r].pte, memfds')
  <2> SUFFICES ASSUME NEW r \in Spaces PROVE AreasSound(mm'[r].areas, mm'[r].pte, memfds')
    OBVIOUS
  <2>1. mm'[r].pte \in Ptes /\ SlotsTold(memfds') /\ Tiled(mm'[r].areas)
    BY <1>1, <1>4 DEF SpaceType, StepTold
  <2>2. Present(mm'[r].areas, mm'[r].pte)
    BY <1>2 DEF AreasInv, AreasSound, StepTold
  <2>3. Borrows(mm'[r].areas, mm'[r].pte, memfds')
    BY <1>2, <1>11 DEF StepTold
  <2> QED BY <1>10, <2>1, <2>2, <2>3 DEF AreasSound
<1> QED BY <1>3, <1>9, <1>12 DEF AreasInv

\* A call on one space that ends in sound areas.
LEMMA BecomesKeeps ==
  ASSUME AreasInv, NEW s \in alive, NEW A, NEW P, NEW M, NEW top \in 0 .. HeapPages,
         AreasSound(A, P, M), Follows(mm[s].areas, memfds, A, M),
         mm' = [mm EXCEPT ![s] = [areas |-> A, pte |-> P, brk |-> top]], memfds' = M,
         UNCHANGED <<memfdFds, alive>>
  PROVE  AreasInv'
<1> DEFINE X == [areas |-> A, pte |-> P, brk |-> top]
<1>1. s \in Spaces
  BY DEF AreasInv, AreasTypes
<1>2. X \in SpaceType
  BY DEF SpaceType, AreasSound, Tiled
<1>3. X.areas = A /\ X.pte = P
  OBVIOUS
<1> HIDE DEF X
<1>4. Tiled(A) /\ Present(A, P) /\ Borrows(A, P, M) /\ SlotsTold(M)
  BY DEF AreasSound
<1>5. ASSUME NEW m \in Memfds
      PROVE  /\ M[m].map_refs + Cardinality(BackedBy(mm[s].areas, m))
                  = memfds[m].map_refs + Cardinality(BackedBy(A, m))
             /\ M[m].map_refs # 0 => Extends(memfds[m].pages, M[m].pages)
             /\ M[m].refs = Cardinality(Fds(m)')
  <2>1. M[m].map_refs # 0 => M[m].used
    BY <1>4 DEF SlotsTold
  <2>2. Fds(m)' = Fds(m)
    BY DEF Fds
  <2>3. M[m].refs = memfds[m].refs /\ (M[m].used => M[m].pages = memfds[m].pages)
    BY DEF Follows
  <2>4. memfds[m].refs = Cardinality(Fds(m))
    BY DEF AreasInv
  <2> QED BY <2>1, <2>2, <2>3, <2>4 DEF Follows, Extends
<1>6. StepTold(s, X)
  BY <1>3, <1>4, <1>5 DEF StepTold
<1>7. \A r \in Spaces \ alive' : mm'[r] = NoSpace /\ memfdFds'[r] = {}
  BY DEF AreasInv, AreasTypes
<1>8. mm' = [mm EXCEPT ![s] = X] /\ memfdFds' \in [Spaces -> SUBSET Memfds] /\ alive' \subseteq Spaces
  BY DEF X, AreasInv, AreasTypes
<1> QED BY <1>1, <1>2, <1>6, <1>7, <1>8, StepKeeps
-----------------------------------------------------------------------------
(* Pages                                                                   *)

LEMMA CurrentSound ==
  ASSUME AreasInv, NEW s \in Spaces
  PROVE  /\ AreasSound(mm[s].areas, mm[s].pte, memfds)
         /\ Follows(mm[s].areas, memfds, mm[s].areas, memfds)
         /\ Current(s) = [areas |-> mm[s].areas, pte |-> mm[s].pte, memfds |-> memfds]
         /\ mm[s].brk \in 0 .. HeapPages
BY DEF AreasInv, AreasTypes, SpaceType, Follows, Current

LEMMA CountsAre ==
  ASSUME NEW A, NEW P, NEW M, AreasSound(A, P, M), NEW m \in Memfds
  PROVE  M[m].map_refs \in Nat /\ M[m].refs \in Nat /\ Cardinality(BackedBy(A, m)) \in Nat
BY BackedFinite DEF AreasSound, SlotsTold, SlotType, Tiled

LEMMA FollowsOn ==
  ASSUME NEW A, NEW B, NEW C, NEW M, NEW N, NEW O, NEW P, NEW Q, NEW R,
         AreasSound(A, P, M), AreasSound(B, Q, N), AreasSound(C, R, O), Follows(A, M, B, N), Follows(B, N, C, O)
  PROVE  Follows(A, M, C, O)
<1> SUFFICES ASSUME NEW m \in Memfds
             PROVE  /\ O[m].map_refs + Cardinality(BackedBy(A, m))
                          = M[m].map_refs + Cardinality(BackedBy(C, m))
                    /\ O[m].refs = M[m].refs
                    /\ O[m].used => M[m].used /\ O[m].pages = M[m].pages
  BY DEF Follows
<1>1. /\ M[m].map_refs \in Nat /\ Cardinality(BackedBy(A, m)) \in Nat
      /\ N[m].map_refs \in Nat /\ Cardinality(BackedBy(B, m)) \in Nat
      /\ O[m].map_refs \in Nat /\ Cardinality(BackedBy(C, m)) \in Nat
  BY CountsAre
<1>2. /\ N[m].map_refs + Cardinality(BackedBy(A, m)) = M[m].map_refs + Cardinality(BackedBy(B, m))
      /\ O[m].map_refs + Cardinality(BackedBy(B, m)) = N[m].map_refs + Cardinality(BackedBy(C, m))
  BY DEF Follows
<1>3. O[m].map_refs + Cardinality(BackedBy(A, m)) = M[m].map_refs + Cardinality(BackedBy(C, m))
  BY <1>1, <1>2
<1> QED BY <1>3 DEF Follows

FilledWith(P, T, what) == [p \in UserPages |-> IF p \in T THEN what ELSE P[p]]

LEMMA FilledIs ==
  ASSUME NEW A, NEW P, NEW M, NEW T, NEW what
  PROVE  Filled([areas |-> A, pte |-> P, memfds |-> M], T, what)
           = [areas |-> A, pte |-> FilledWith(P, T, what), memfds |-> M]
BY DEF Filled, FilledWith

LEMMA FillSound ==
  ASSUME NEW A, NEW P, NEW M, AreasSound(A, P, M), NEW T, NEW what \in {Nothing, Own},
         what = Nothing => \A x \in A : T \cap Within(x.start, x.end) = {}
  PROVE  AreasSound(A, FilledWith(P, T, what), M) /\ Follows(A, M, A, M)
<1> DEFINE Q == FilledWith(P, T, what)
<1>1. P \in Ptes /\ Present(A, P) /\ Borrows(A, P, M) /\ Tiled(A)
  BY DEF AreasSound
<1>2. Q \in Ptes
  BY <1>1, NumbersAre DEF Ptes, FilledWith, Nothing, Own
<1>3. Present(A, Q)
  <2> SUFFICES ASSUME NEW x \in A, NEW p \in Within(x.start, x.end) PROVE Q[p] # Nothing
    BY DEF Present
  <2>1. p \in UserPages
    <3>1. x \in AreaType /\ HeapPages < x.start /\ x.end <= LastPage + 1
      BY <1>1 DEF Tiled
    <3> QED BY <3>1, NumbersAre DEF AreaType, Within, UserPages
  <2>2. P[p] # Nothing
    BY <1>1 DEF Present
  <2>3. Own # Nothing
    BY NumbersAre DEF Own, Nothing
  <2>4. Q[p] = IF p \in T THEN what ELSE P[p]
    BY <2>1 DEF FilledWith
  <2> QED BY <2>2, <2>3, <2>4
<1>4. Borrows(A, Q, M)
  <2> SUFFICES ASSUME NEW p \in UserPages, Q[p] \in 1 .. FrameCount
               PROVE  \E x \in A : Shows(x, p, Q[p], M)
    BY DEF Borrows
  <2>1. Q[p] = P[p]
    BY NumbersAre DEF FilledWith, Nothing, Own
  <2> QED BY <1>1, <2>1 DEF Borrows
<1>5. Follows(A, M, A, M)
  BY DEF Follows
<1> QED BY <1>2, <1>3, <1>4, <1>5 DEF AreasSound

Away(A, a, b) == \A x \in A : x.end <= a \/ b <= x.start

\* Where no page is present there is no area.
LEMMA FreeIsAway ==
  ASSUME NEW A, NEW P, Tiled(A), Present(A, P), NEW a \in Nat, NEW b \in Nat, a < b,
         \A p \in Within(a, b) : P[p] = Nothing
  PROVE  Away(A, a, b)
<1> SUFFICES ASSUME NEW x \in A, ~(x.end <= a), ~(b <= x.start) PROVE FALSE
  BY DEF Away
<1>1. x.start \in Nat /\ x.end \in Nat /\ x.start < x.end
  BY DEF Tiled, AreaType
<1>2. \E p : p \in Within(a, b) /\ p \in Within(x.start, x.end)
  <2>1. CASE a <= x.start
    <3>1. x.start \in Within(a, b) /\ x.start \in Within(x.start, x.end)
      BY <1>1, <2>1 DEF Within
    <3> QED BY <3>1
  <2>2. CASE ~(a <= x.start)
    <3>1. a \in Within(a, b) /\ a \in Within(x.start, x.end)
      BY <1>1, <2>2 DEF Within
    <3> QED BY <3>1
  <2> QED BY <2>1, <2>2
<1> QED BY <1>2 DEF Present

LEMMA AwayApart ==
  ASSUME NEW A, Tiled(A), NEW a \in Nat, NEW b \in Nat, Away(A, a, b), NEW x \in A
  PROVE  Within(a, b) \cap Within(x.start, x.end) = {}
BY DEF Tiled, AreaType, Away, Within

LEMMA EmptiedSound ==
  ASSUME NEW A, NEW P, NEW M, AreasSound(A, P, M), NEW a \in Nat, NEW b \in Nat, a < b
  PROVE  LET B == Left(A, a, b)
             Q == FilledWith(Cleared(A, P, a, b), Within(a, b), Nothing)
             N == Dropped(A, M, a, b)
         IN  /\ AreasSound(B, Q, N) /\ Follows(A, M, B, N) /\ Away(B, a, b)
             /\ Emptied([areas |-> A, pte |-> P, memfds |-> M], a, b)
                  = [areas |-> B, pte |-> Q, memfds |-> N]
<1> DEFINE B == Left(A, a, b)
           Q == Cleared(A, P, a, b)
           N == Dropped(A, M, a, b)
<1>1. /\ AreasSound(B, Q, N) /\ Follows(A, M, B, N) /\ Away(B, a, b)
      /\ vm_unmap_area_range([areas |-> A, pte |-> P, memfds |-> M], a, b)
                  = [areas |-> B, pte |-> Q, memfds |-> N]
  BY UnmapSound DEF Away
<1>2. Emptied([areas |-> A, pte |-> P, memfds |-> M], a, b)
        = Filled([areas |-> B, pte |-> Q, memfds |-> N], Within(a, b), Nothing)
  BY <1>1 DEF Emptied
<1> HIDE DEF B, Q, N
<1>3. Tiled(B)
  BY <1>1 DEF AreasSound
<1>4. AreasSound(B, FilledWith(Q, Within(a, b), Nothing), N)
  BY <1>1, <1>3, FillSound, AwayApart
<1>5. Emptied([areas |-> A, pte |-> P, memfds |-> M], a, b)
        = [areas |-> B, pte |-> FilledWith(Q, Within(a, b), Nothing), memfds |-> N]
  BY <1>2, FilledIs
<1> QED BY <1>1, <1>4, <1>5 DEF B, Q, N

\* A new area where there is none.
LEMMA AddSound ==
  ASSUME NEW A, NEW P, NEW M, AreasSound(A, P, M), NEW y \in AreaType, HeapPages < y.start,
         y.start < y.end, y.end <= LastPage + 1, Away(A, y.start, y.end), NEW Q \in Ptes,
         \A p \in UserPages \ Within(y.start, y.end) : Q[p] = P[p],
         NEW N, SlotsTold(N),
         \A m \in Memfds : /\ N[m].map_refs = M[m].map_refs + (IF y.backing = m THEN 1 ELSE 0)
                           /\ N[m].refs = M[m].refs /\ N[m].used = M[m].used
                           /\ N[m].pages = M[m].pages,
         \A p \in Within(y.start, y.end) :
           Q[p] # Nothing /\ (Q[p] \in 1 .. FrameCount => Shows(y, p, Q[p], N))
  PROVE  AreasSound(A \cup {y}, Q, N) /\ Follows(A, M, A \cup {y}, N)
<1> DEFINE B == A \cup {y}
<1>1. Tiled(A) /\ P \in Ptes /\ Present(A, P) /\ Borrows(A, P, M) /\ SlotsTold(M)
      /\ \A m \in Memfds : Cardinality(BackedBy(A, m)) <= M[m].map_refs
  BY DEF AreasSound
<1>2. y \notin A
  <2>1. y.start \in Nat /\ y.end \in Nat
    BY DEF AreaType
  <2> QED BY <2>1 DEF Away
<1>3. Tiled(B)
  <2>1. IsFiniteSet(B)
    BY <1>1, FS_AddElement DEF Tiled
  <2>2. \A x \in A : x.end <= y.start \/ y.end <= x.start
    BY DEF Away
  <2> QED BY <1>1, <2>1, <2>2 DEF Tiled
<1>4. \A x \in B : \A p \in Within(x.start, x.end) : p \in UserPages
  <2> SUFFICES ASSUME NEW x \in B, NEW p \in Within(x.start, x.end) PROVE p \in UserPages
    OBVIOUS
  <2>1. x \in AreaType /\ HeapPages < x.start /\ x.end <= LastPage + 1
    BY <1>3 DEF Tiled
  <2> QED BY <2>1, NumbersAre DEF AreaType, Within, UserPages
<1>5. Present(B, Q)
  <2> SUFFICES ASSUME NEW x \in A, NEW p \in Within(x.start, x.end) PROVE Q[p] # Nothing
    BY DEF Present
  <2>1. CASE p \in Within(y.start, y.end)
    BY <2>1
  <2>2. CASE p \notin Within(y.start, y.end)
    <3>1. Q[p] = P[p]
      BY <1>4, <2>2
    <3> QED BY <1>1, <3>1 DEF Present
  <2> QED BY <2>1, <2>2
<1>6. Borrows(B, Q, N)
  <2> SUFFICES ASSUME NEW p \in UserPages, Q[p] \in 1 .. FrameCount
               PROVE  \E x \in B : Shows(x, p, Q[p], N)
    BY DEF Borrows
  <2>1. CASE p \in Within(y.start, y.end)
    BY <2>1
  <2>2. CASE p \notin Within(y.start, y.end)
    <3>1. Q[p] = P[p]
      BY <2>2
    <3>2. PICK x \in A : Shows(x, p, P[p], M)
      BY <1>1, <3>1 DEF Borrows
    <3>3. x.backing \in Memfds
      BY <1>1, <3>2 DEF Tiled, Shows, AreaType
    <3>4. Shows(x, p, P[p], N)
      BY <3>2, <3>3 DEF Shows
    <3> QED BY <3>1, <3>4
  <2> QED BY <2>1, <2>2
<1>7. ASSUME NEW m \in Memfds
      PROVE  N[m].map_refs + Cardinality(BackedBy(A, m)) = M[m].map_refs + Cardinality(BackedBy(B, m))
             /\ Cardinality(BackedBy(B, m)) <= N[m].map_refs
  <2>1. M[m].map_refs \in Nat /\ IsFiniteSet(BackedBy(A, m)) /\ Cardinality(BackedBy(A, m)) \in Nat
        /\ Cardinality(BackedBy(A, m)) <= M[m].map_refs
    BY <1>1, BackedFinite DEF SlotsTold, SlotType, Tiled
  <2>2. CASE y.backing = m
    <3>1. BackedBy(B, m) = BackedBy(A, m) \cup {y} /\ y \notin BackedBy(A, m)
      BY <1>2, <2>2 DEF BackedBy
    <3>2. Cardinality(BackedBy(B, m)) = Cardinality(BackedBy(A, m)) + 1
      BY <2>1, <3>1, FS_AddElement
    <3> QED BY <2>1, <2>2, <3>2
  <2>3. CASE y.backing # m
    <3>1. BackedBy(B, m) = BackedBy(A, m)
      BY <2>3 DEF BackedBy
    <3> QED BY <2>1, <2>3, <3>1
  <2> QED BY <2>2, <2>3
<1>8. Follows(A, M, B, N)
  BY <1>7 DEF Follows
<1>9. AreasSound(B, Q, N)
  BY <1>3, <1>5, <1>6, <1>7 DEF AreasSound
<1> QED BY <1>8, <1>9
-----------------------------------------------------------------------------
(* mmap, munmap, mremap, brk                                               *)

LEMMA AreasSet ==
  ASSUME NEW A, NEW P, NEW M, NEW B
  PROVE  [[areas |-> A, pte |-> P, memfds |-> M] EXCEPT !.areas = B]
           = [areas |-> B, pte |-> P, memfds |-> M]
OBVIOUS

LEMMA SpaceIs ==
  ASSUME NEW S \in SpaceType
  PROVE  S = [areas |-> S.areas, pte |-> S.pte, brk |-> S.brk]
BY DEF SpaceType

LEMMA SpaceWith ==
  ASSUME NEW S \in SpaceType, NEW A, NEW P, NEW u
  PROVE  /\ [S EXCEPT !.areas = A, !.pte = P] = [areas |-> A, pte |-> P, brk |-> S.brk]
         /\ [S EXCEPT !.brk = u, !.pte = P] = [areas |-> S.areas, pte |-> P, brk |-> u]
<1> DEFINE B == S.areas
           Q == S.pte
           t == S.brk
           L == [areas |-> B, pte |-> Q, brk |-> t]
<1>1. S = L
  BY SpaceIs
<1> HIDE DEF B, Q, t
<1>2. /\ [[S EXCEPT !.areas = A] EXCEPT !.pte = P] = [areas |-> A, pte |-> P, brk |-> t]
      /\ [[S EXCEPT !.brk = u] EXCEPT !.pte = P] = [areas |-> B, pte |-> P, brk |-> u]
  <2>1. [L EXCEPT !.areas = A] = [areas |-> A, pte |-> Q, brk |-> t]
    OBVIOUS
  <2>2. [[areas |-> A, pte |-> Q, brk |-> t] EXCEPT !.pte = P] = [areas |-> A, pte |-> P, brk |-> t]
    OBVIOUS
  <2>3. [L EXCEPT !.brk = u] = [areas |-> B, pte |-> Q, brk |-> u]
    OBVIOUS
  <2>4. [[areas |-> B, pte |-> Q, brk |-> u] EXCEPT !.pte = P] = [areas |-> B, pte |-> P, brk |-> u]
    OBVIOUS
  <2> HIDE DEF L
  <2> QED BY <1>1, <2>1, <2>2, <2>3, <2>4
<1>3. /\ [S EXCEPT !.areas = A, !.pte = P] = [[S EXCEPT !.areas = A] EXCEPT !.pte = P]
      /\ [S EXCEPT !.brk = u, !.pte = P] = [[S EXCEPT !.brk = u] EXCEPT !.pte = P]
  OBVIOUS
<1> QED BY <1>2, <1>3 DEF B, t

LEMMA BecomesIs ==
  ASSUME AreasInv, NEW s \in alive, NEW A, NEW P, NEW M,
         AreasSound(A, P, M), Follows(mm[s].areas, memfds, A, M),
         Becomes(s, [areas |-> A, pte |-> P, memfds |-> M])
  PROVE  AreasInv'
<1>1. s \in Spaces /\ mm \in [Spaces -> SpaceType] /\ mm[s] \in SpaceType
  BY DEF AreasInv, AreasTypes
<1>2. mm' = [mm EXCEPT ![s].areas = A, ![s].pte = P] /\ memfds' = M /\ UNCHANGED <<memfdFds, alive>>
  BY DEF Becomes
<1>3. mm[s].brk \in 0 .. HeapPages
  BY <1>1 DEF SpaceType
<1>4. [mm[s] EXCEPT !.areas = A, !.pte = P] = [areas |-> A, pte |-> P, brk |-> mm[s].brk]
  BY <1>1, SpaceWith
<1>5. mm' = [mm EXCEPT ![s] = [areas |-> A, pte |-> P, brk |-> mm[s].brk]]
  BY <1>1, <1>2, <1>4
<1> QED BY <1>2, <1>3, <1>5, BecomesKeeps

LEMMA TargetIs ==
  ASSUME MapsIntoHeap = FALSE, NEW n \in 1 .. LastPage - HeapPages, NEW a,
         a \in Targets(n) \/ \E s \in Spaces : a \in FirstFree(s, n)
  PROVE  a \in Nat /\ n \in Nat /\ HeapPages < a /\ a < a + n /\ a + n <= LastPage + 1 /\ a + n \in Nat
<1>1. a \in HeapPages + 1 .. LastPage + 1 - n
  BY DEF Targets, FirstFree
<1> QED BY <1>1, NumbersAre

LEMMA MunmapKeeps ==
  ASSUME AreasInv, MapsIntoHeap = FALSE, NEW s \in alive, NEW n \in 1 .. LastPage - HeapPages,
         NEW a \in Targets(n), munmap(s, a, n)
  PROVE  AreasInv'
<1>1. s \in Spaces
  BY DEF AreasInv, AreasTypes
<1>2. a \in Nat /\ a + n \in Nat /\ a < a + n
  BY TargetIs
<1> DEFINE A == mm[s].areas
           P == mm[s].pte
           B == Left(A, a, a + n)
           Q == FilledWith(Cleared(A, P, a, a + n), Within(a, a + n), Nothing)
           N == Dropped(A, memfds, a, a + n)
<1>3. AreasSound(A, P, memfds) /\ Current(s) = [areas |-> A, pte |-> P, memfds |-> memfds]
  BY <1>1, CurrentSound
<1>4. /\ AreasSound(B, Q, N) /\ Follows(A, memfds, B, N)
      /\ Emptied([areas |-> A, pte |-> P, memfds |-> memfds], a, a + n)
           = [areas |-> B, pte |-> Q, memfds |-> N]
  BY <1>2, <1>3, EmptiedSound
<1>5. Becomes(s, [areas |-> B, pte |-> Q, memfds |-> N])
  BY <1>3, <1>4 DEF munmap
<1> HIDE DEF B, Q, N
<1> QED BY <1>4, <1>5, BecomesIs

MappedPtes(P, a, n, m, o) ==
  [p \in UserPages |-> IF m # Anonymous /\ p \in Within(a, a + n) THEN memfds[m].pages[o + p - a + 1]
                       ELSE FilledWith(P, Within(a, a + n), Own)[p]]

LEMMA MappedIs ==
  ASSUME NEW A, NEW P, NEW M, NEW a, NEW n, NEW m, NEW o
  PROVE  Mapped([areas |-> A, pte |-> P, memfds |-> M], a, n, m, o)
           = [areas |-> A \cup {[start |-> a, end |-> a + n, backing |-> m, offset |-> o]},
              pte |-> MappedPtes(P, a, n, m, o), memfds |-> retain_maps(M, {[backing |-> m]})]
<1> DEFINE F == FilledWith(P, Within(a, a + n), Own)
<1>1. Filled([areas |-> A, pte |-> P, memfds |-> M], Within(a, a + n), Own)
        = [areas |-> A, pte |-> F, memfds |-> M]
  BY FilledIs
<1> DEFINE y == [start |-> a, end |-> a + n, backing |-> m, offset |-> o]
           W == Within(a, a + n)
           G == [areas |-> A, pte |-> F, memfds |-> M]
           J == MappedPtes(P, a, n, m, o)
<1>2. Mapped([areas |-> A, pte |-> P, memfds |-> M], a, n, m, o)
        = [G EXCEPT !.areas = @ \cup {y},
             !.pte = [p \in UserPages |-> IF m # Anonymous /\ p \in W
                                         THEN memfds[m].pages[o + p - a + 1] ELSE @[p]],
             !.memfds = retain_maps(@, {[backing |-> m]})]
  <2> HIDE DEF F
  <2> QED BY <1>1 DEF Mapped
<1>3. J = [p \in UserPages |-> IF m # Anonymous /\ p \in W
                               THEN memfds[m].pages[o + p - a + 1] ELSE F[p]]
  BY DEF MappedPtes
<1> DEFINE U == retain_maps(M, {[backing |-> m]})
<1> HIDE DEF F, J, W, y
<1>4. [G EXCEPT !.areas = @ \cup {y},
             !.pte = [p \in UserPages |-> IF m # Anonymous /\ p \in W
                                         THEN memfds[m].pages[o + p - a + 1] ELSE @[p]],
             !.memfds = retain_maps(@, {[backing |-> m]})]
        = [areas |-> A \cup {y}, pte |-> J, memfds |-> U]
  <2>1. G.areas = A /\ G.pte = F /\ G.memfds = M
    OBVIOUS
  <2>2. [G EXCEPT !.areas = A \cup {y}, !.pte = J, !.memfds = U] = [areas |-> A \cup {y}, pte |-> J, memfds |-> U]
    <3> DEFINE K == A \cup {y}
    <3> HIDE DEF U, G, K
    <3>1. [G EXCEPT !.areas = K, !.pte = J, !.memfds = U] = [[[G EXCEPT !.areas = K] EXCEPT !.pte = J] EXCEPT !.memfds = U]
      OBVIOUS
    <3>2. [G EXCEPT !.areas = K] = [areas |-> K, pte |-> F, memfds |-> M]
      BY DEF G
    <3>3. [[areas |-> K, pte |-> F, memfds |-> M] EXCEPT !.pte = J] = [areas |-> K, pte |-> J, memfds |-> M]
      OBVIOUS
    <3>4. [[areas |-> K, pte |-> J, memfds |-> M] EXCEPT !.memfds = U] = [areas |-> K, pte |-> J, memfds |-> U]
      OBVIOUS
    <3> QED BY <3>1, <3>2, <3>3, <3>4 DEF K
  <2> HIDE DEF G
  <2> QED BY <1>3, <2>1, <2>2
<1> QED BY <1>2, <1>4 DEF J, y

LEMMA MappedSound ==
  ASSUME NEW A, NEW P, NEW M, AreasSound(A, P, M), NEW a \in Nat, NEW n \in Nat,
         HeapPages < a, a < a + n, a + n <= LastPage + 1, Away(A, a, a + n),
         NEW m \in Memfds \cup {Anonymous}, NEW o \in Nat,
         m # Anonymous => M[m].used /\ memfds[m].pages = M[m].pages /\ o + n <= Len(M[m].pages)
  PROVE  LET B == A \cup {[start |-> a, end |-> a + n, backing |-> m, offset |-> o]}
             Q == MappedPtes(P, a, n, m, o)
             N == retain_maps(M, {[backing |-> m]})
         IN  AreasSound(B, Q, N) /\ Follows(A, M, B, N)
<1> DEFINE y == [start |-> a, end |-> a + n, backing |-> m, offset |-> o]
           Q == MappedPtes(P, a, n, m, o)
           N == retain_maps(M, {[backing |-> m]})
           S == {[backing |-> m]}
<1>1. y \in AreaType /\ y.start = a /\ y.end = a + n /\ y.backing = m /\ y.offset = o
  BY DEF AreaType
<1>2. SlotsTold(M) /\ P \in Ptes
  BY DEF AreasSound
<1>3. IsFiniteSet(S) /\ \A k \in Memfds : Cardinality(BackedBy(S, k)) = IF m = k THEN 1 ELSE 0
  <2>1. IsFiniteSet(S)
    BY FS_Singleton
  <2>2. ASSUME NEW k \in Memfds PROVE Cardinality(BackedBy(S, k)) = IF m = k THEN 1 ELSE 0
    <3>1. CASE m = k
      <4>1. BackedBy(S, k) = S
        BY <3>1 DEF BackedBy
      <4> QED BY <3>1, <4>1, FS_Singleton
    <3>2. CASE m # k
      <4>1. BackedBy(S, k) = {}
        BY <3>2 DEF BackedBy
      <4> QED BY <3>2, <4>1, FS_EmptySet
    <3> QED BY <3>1, <3>2
  <2> QED BY <2>1, <2>2
<1>4. \A k \in Memfds : Cardinality(BackedBy(S, k)) # 0 => M[k].used
  BY <1>3, NumbersAre
<1> HIDE DEF S
<1>5. /\ SlotsTold(retain_maps(M, S))
      /\ \A k \in Memfds :
           /\ retain_maps(M, S)[k].map_refs = M[k].map_refs + Cardinality(BackedBy(S, k))
           /\ retain_maps(M, S)[k].refs = M[k].refs /\ retain_maps(M, S)[k].used = M[k].used
           /\ retain_maps(M, S)[k].pages = M[k].pages
  BY <1>2, <1>3, <1>4, RetainIs
<1>6. N = retain_maps(M, S)
  BY DEF S
<1>7. /\ SlotsTold(N)
      /\ \A k \in Memfds : /\ N[k].map_refs = M[k].map_refs + (IF m = k THEN 1 ELSE 0)
                           /\ N[k].refs = M[k].refs /\ N[k].used = M[k].used
                           /\ N[k].pages = M[k].pages
  BY <1>3, <1>5, <1>6
<1> HIDE DEF N
<1>8. ASSUME NEW p \in Within(a, a + n), m # Anonymous
      PROVE  /\ p \in UserPages /\ Q[p] = M[m].pages[o + p - a + 1] /\ Q[p] \in 1 .. FrameCount
             /\ o + p - a + 1 \in DOMAIN M[m].pages
  <2>1. p \in UserPages /\ o + p - a + 1 \in 1 .. o + n /\ o + n \in Nat
    BY NumbersAre DEF Within, UserPages
  <2>2. m \in Memfds /\ M[m].pages \in Seq(1 .. FrameCount) /\ o + n <= Len(M[m].pages)
    BY <1>2, <1>8 DEF SlotsTold, SlotType
  <2>3. o + p - a + 1 \in DOMAIN M[m].pages
    BY <2>1, <2>2
  <2>4. Q[p] = M[m].pages[o + p - a + 1]
    BY <1>8, <2>1 DEF MappedPtes
  <2>5. M[m].pages[o + p - a + 1] \in 1 .. FrameCount
    <3> DEFINE q == M[m].pages
               k == o + p - a + 1
               D == 1 .. FrameCount
    <3>1. q \in Seq(D) /\ k \in DOMAIN q
      BY <2>2, <2>3
    <3> HIDE DEF q, k, D
    <3>2. q[k] \in D
      BY <3>1
    <3> QED BY <3>2 DEF q, k, D
  <2> QED BY <2>1, <2>2, <2>3, <2>4, <2>5
<1>9. ASSUME NEW p \in UserPages, ~(m # Anonymous /\ p \in Within(a, a + n))
      PROVE  Q[p] = IF p \in Within(a, a + n) THEN Own ELSE P[p]
  BY <1>9 DEF MappedPtes, FilledWith
<1>10. Q \in Ptes
  <2>1. \A p \in UserPages : Q[p] \in 0 .. Own
    <3> SUFFICES ASSUME NEW p \in UserPages PROVE Q[p] \in 0 .. Own
      OBVIOUS
    <3>1. CASE m # Anonymous /\ p \in Within(a, a + n)
      <4>1. Q[p] \in 1 .. FrameCount
        BY <1>8, <3>1
      <4> QED BY <4>1, NumbersAre DEF Own
    <3>2. CASE ~(m # Anonymous /\ p \in Within(a, a + n))
      <4>1. Q[p] = IF p \in Within(a, a + n) THEN Own ELSE P[p]
        BY <1>9, <3>2
      <4>2. P[p] \in 0 .. Own
        BY <1>2 DEF Ptes
      <4> QED BY <4>1, <4>2, NumbersAre DEF Own
    <3> QED BY <3>1, <3>2
  <2>2. Q = [p \in UserPages |-> Q[p]]
    BY DEF MappedPtes
  <2> HIDE DEF Q
  <2> QED BY <2>1, <2>2 DEF Ptes
<1>11. \A p \in UserPages \ Within(y.start, y.end) : Q[p] = P[p]
  BY <1>1, <1>9
<1>12. ASSUME NEW p \in Within(y.start, y.end)
       PROVE  Q[p] # Nothing /\ (Q[p] \in 1 .. FrameCount => Shows(y, p, Q[p], N))
  <2>1. p \in UserPages /\ p \in Within(a, a + n)
    BY <1>1, NumbersAre DEF Within, UserPages
  <2>2. CASE m # Anonymous
    <3>1. Q[p] = M[m].pages[o + p - a + 1] /\ Q[p] \in 1 .. FrameCount
          /\ o + p - a + 1 \in DOMAIN M[m].pages
      BY <1>8, <2>1, <2>2
    <3>2. N[m].pages = M[m].pages
      BY <1>7, <2>2
    <3>3. Shows(y, p, Q[p], N)
      BY <1>1, <2>1, <2>2, <3>1, <3>2 DEF Shows
    <3> QED BY <3>1, <3>3, NumbersAre DEF Nothing
  <2>3. CASE m = Anonymous
    <3>1. Q[p] = Own
      BY <1>9, <2>1, <2>3
    <3> QED BY <3>1, NumbersAre DEF Own, Nothing
  <2> QED BY <2>2, <2>3
<1> HIDE DEF y, Q
<1>13. AreasSound(A \cup {y}, Q, N) /\ Follows(A, M, A \cup {y}, N)
  <2>1. HeapPages < y.start /\ y.start < y.end /\ y.end <= LastPage + 1 /\ Away(A, y.start, y.end)
    BY <1>1
  <2>2. \A k \in Memfds : /\ N[k].map_refs = M[k].map_refs + (IF y.backing = k THEN 1 ELSE 0)
                           /\ N[k].refs = M[k].refs /\ N[k].used = M[k].used
                           /\ N[k].pages = M[k].pages
    BY <1>1, <1>7
  <2>3. y \in AreaType /\ Q \in Ptes /\ SlotsTold(N)
    BY <1>1, <1>7, <1>10
  <2>4. \A p \in Within(y.start, y.end) :
          Q[p] # Nothing /\ (Q[p] \in 1 .. FrameCount => Shows(y, p, Q[p], N))
    BY <1>12
  <2> QED BY <1>11, <2>1, <2>2, <2>3, <2>4, AddSound
<1> QED BY <1>13 DEF y, Q, N

LEMMA MmapKeeps ==
  ASSUME AreasInv, MapsIntoHeap = FALSE, NEW s \in alive, NEW n \in 1 .. LastPage - HeapPages,
         NEW m \in Memfds \cup {Anonymous}, NEW o \in 0 .. MemfdPages - 1, NEW fixed \in BOOLEAN,
         mmap(s, n, m, o, fixed)
  PROVE  AreasInv'
<1>1. s \in Spaces
  BY DEF AreasInv, AreasTypes
<1> DEFINE A == mm[s].areas
           P == mm[s].pte
<1>2. AreasSound(A, P, memfds) /\ Current(s) = [areas |-> A, pte |-> P, memfds |-> memfds]
      /\ Follows(A, memfds, A, memfds)
  BY <1>1, CurrentSound
<1>3. m # Anonymous => m \in Memfds /\ memfds[m].used
  <2> SUFFICES ASSUME m # Anonymous PROVE m \in Memfds /\ memfds[m].used
    OBVIOUS
  <2>1. m \in Memfds /\ s \in Fds(m)
    BY <1>1 DEF mmap, Fds
  <2>2. IsFiniteSet(Fds(m)) /\ Fds(m) # {}
    BY <2>1, NumbersAre, FS_Subset DEF Fds
  <2>3. Cardinality(Fds(m)) # 0
    BY <2>2, FS_EmptySet
  <2>4. memfds[m].refs # 0
    BY <2>1, <2>3 DEF AreasInv
  <2> QED BY <1>2, <2>1, <2>4 DEF AreasSound, SlotsTold
<1>4. PICK a \in IF fixed THEN Targets(n) ELSE FirstFree(s, n) :
        LET st == IF fixed THEN Emptied(Current(s), a, a + n) ELSE Current(s)
        IN \/ /\ m # Anonymous => o + n <= Len(memfds[m].pages)
              /\ Becomes(s, Mapped(st, a, n, m, o))
           \/ fixed /\ Becomes(s, st)
  BY DEF mmap
<1>5. a \in Nat /\ n \in Nat /\ HeapPages < a /\ a < a + n /\ a + n <= LastPage + 1 /\ a + n \in Nat
  BY <1>1, TargetIs
<1>6. o \in Nat
  OBVIOUS
\* The areas before the new one.
<1>7. \E B, Q, N :
        /\ AreasSound(B, Q, N) /\ Follows(A, memfds, B, N) /\ Away(B, a, a + n)
        /\ (IF fixed THEN Emptied(Current(s), a, a + n) ELSE Current(s))
             = [areas |-> B, pte |-> Q, memfds |-> N]
  <2>1. CASE fixed
    <3> DEFINE B == Left(A, a, a + n)
               Q == FilledWith(Cleared(A, P, a, a + n), Within(a, a + n), Nothing)
               N == Dropped(A, memfds, a, a + n)
    <3>1. /\ AreasSound(B, Q, N) /\ Follows(A, memfds, B, N) /\ Away(B, a, a + n)
          /\ Emptied([areas |-> A, pte |-> P, memfds |-> memfds], a, a + n)
               = [areas |-> B, pte |-> Q, memfds |-> N]
      BY <1>2, <1>5, EmptiedSound
    <3>2. (IF fixed THEN Emptied(Current(s), a, a + n) ELSE Current(s))
             = [areas |-> B, pte |-> Q, memfds |-> N]
      BY <2>1, <1>2, <3>1
    <3> HIDE DEF B, Q, N
    <3> QED BY <3>1, <3>2
  <2>2. CASE ~fixed
    <3>1. \A p \in Within(a, a + n) : P[p] = Nothing
      BY <2>2 DEF FirstFree, IsFreeAt
    <3>2. Tiled(A) /\ Present(A, P)
      BY <1>2 DEF AreasSound
    <3>3. Away(A, a, a + n)
      BY <3>1, <3>2, <1>5, FreeIsAway
    <3> QED BY <2>2, <3>3, <1>2
  <2> QED BY <2>1, <2>2
<1>8. PICK B, Q, N :
        /\ AreasSound(B, Q, N) /\ Follows(A, memfds, B, N) /\ Away(B, a, a + n)
        /\ (IF fixed THEN Emptied(Current(s), a, a + n) ELSE Current(s))
             = [areas |-> B, pte |-> Q, memfds |-> N]
  BY <1>7
<1>9. \/ /\ m # Anonymous => o + n <= Len(memfds[m].pages)
         /\ Becomes(s, Mapped([areas |-> B, pte |-> Q, memfds |-> N], a, n, m, o))
      \/ Becomes(s, [areas |-> B, pte |-> Q, memfds |-> N])
  BY <1>4, <1>8
<1>10. CASE Becomes(s, [areas |-> B, pte |-> Q, memfds |-> N])
  BY <1>8, <1>10, BecomesIs
<1>11. CASE /\ m # Anonymous => o + n <= Len(memfds[m].pages)
            /\ Becomes(s, Mapped([areas |-> B, pte |-> Q, memfds |-> N], a, n, m, o))
  <2> DEFINE C == B \cup {[start |-> a, end |-> a + n, backing |-> m, offset |-> o]}
             R == MappedPtes(Q, a, n, m, o)
             O == retain_maps(N, {[backing |-> m]})
  <2>1. m # Anonymous => N[m].used /\ memfds[m].pages = N[m].pages /\ o + n <= Len(N[m].pages)
    <3> SUFFICES ASSUME m # Anonymous
                 PROVE  N[m].used /\ memfds[m].pages = N[m].pages /\ o + n <= Len(N[m].pages)
      OBVIOUS
    <3>1. m \in Memfds /\ s \in Fds(m)
      BY <1>1, <1>3 DEF mmap, Fds
    <3>2. IsFiniteSet(Fds(m)) /\ Fds(m) # {}
      BY <3>1, NumbersAre, FS_Subset DEF Fds
    <3>3. memfds[m].refs # 0
      BY <3>1, <3>2, FS_EmptySet DEF AreasInv
    <3>4. N[m].refs # 0
      BY <3>1, <3>3, <1>8 DEF Follows
    <3>5. N[m].used
      BY <3>1, <3>4, <1>8 DEF AreasSound, SlotsTold
    <3>6. memfds[m].pages = N[m].pages
      BY <3>1, <3>5, <1>8 DEF Follows
    <3> QED BY <3>5, <3>6, <1>11
  <2>2. AreasSound(C, R, O) /\ Follows(B, N, C, O)
    BY <1>5, <1>6, <1>8, <2>1, MappedSound
  <2>3. Mapped([areas |-> B, pte |-> Q, memfds |-> N], a, n, m, o)
          = [areas |-> C, pte |-> R, memfds |-> O]
    BY MappedIs
  <2>4. Becomes(s, [areas |-> C, pte |-> R, memfds |-> O])
    BY <1>11, <2>3
  <2> HIDE DEF C, R, O
  <2>5. Follows(A, memfds, C, O)
    BY <1>2, <1>8, <2>2, FollowsOn
  <2> QED BY <2>2, <2>4, <2>5, BecomesIs
<1> QED BY <1>9, <1>10, <1>11

\* An area that ends elsewhere, where nothing is in the way.
LEMMA ResizeSound ==
  ASSUME NEW A, NEW P, NEW M, AreasSound(A, P, M), NEW x \in A, NEW e \in Nat,
         x.start < e, e <= LastPage + 1, NEW Q \in Ptes,
         \A p \in UserPages : p \notin Within(x.start, e) /\ p \notin Within(x.start, x.end) => Q[p] = P[p],
         \A p \in Within(x.start, e) : IF p < x.end THEN Q[p] = P[p]
                                       ELSE P[p] = Nothing /\ Q[p] = Own,
         \A p \in Within(e, x.end) : Q[p] = Nothing
  PROVE  LET B == (A \ {x}) \cup {[x EXCEPT !.end = e]} IN
         AreasSound(B, Q, M) /\ Follows(A, M, B, M)
<1> DEFINE y == [x EXCEPT !.end = e]
           K == A \ {x}
           B == K \cup {y}
<1>1. Tiled(A) /\ P \in Ptes /\ Present(A, P) /\ Borrows(A, P, M) /\ SlotsTold(M)
      /\ \A m \in Memfds : Cardinality(BackedBy(A, m)) <= M[m].map_refs
  BY DEF AreasSound
<1>2. x \in AreaType /\ HeapPages < x.start /\ x.start < x.end /\ x.end <= LastPage + 1
  BY <1>1 DEF Tiled
<1>3. y \in AreaType /\ y.start = x.start /\ y.end = e /\ y.backing = x.backing /\ y.offset = x.offset
  BY <1>2, LeftIs
<1> HIDE DEF y
<1>4. x.start \in Nat /\ x.end \in Nat
  BY <1>2 DEF AreaType
<1>5. ASSUME NEW z \in K PROVE z.end <= y.start \/ y.end <= z.start
  <2>1. z \in A /\ z # x /\ z \in AreaType /\ z.start < z.end /\ z.end <= LastPage + 1
    BY <1>1 DEF Tiled
  <2>2. z.start \in Nat /\ z.end \in Nat
    BY <2>1 DEF AreaType
  <2>3. z.end <= x.start \/ x.end <= z.start
    BY <1>1, <2>1 DEF Tiled
  <2>4. CASE z.start < e /\ x.end <= z.start
    <3>1. z.start \in Within(x.start, e) /\ z.start \in Within(z.start, z.end)
      BY <2>1, <2>2, <2>4, <1>2, <1>4 DEF Within
    <3>2. P[z.start] = Nothing
      BY <3>1, <2>2, <2>4, <1>4
    <3> QED BY <3>1, <3>2, <2>1, <1>1 DEF Present
  <2> QED BY <2>2, <2>3, <2>4, <1>3, <1>4
<1>6. y \notin K
  BY <1>3, <1>4, <1>5
<1>7. Tiled(B)
  <2>1. IsFiniteSet(K)
    BY <1>1, FS_Subset DEF Tiled
  <2>2. IsFiniteSet(B)
    BY <2>1, FS_AddElement
  <2>3. \A z \in B : HeapPages < z.start /\ z.start < z.end /\ z.end <= LastPage + 1
    BY <1>1, <1>2, <1>3 DEF Tiled
  <2>4. \A z, w \in K : z # w => z.end <= w.start \/ w.end <= z.start
    BY <1>1 DEF Tiled
  <2>5. B \subseteq AreaType
    BY <1>1, <1>3 DEF Tiled
  <2> QED BY <2>2, <2>3, <2>4, <2>5, <1>5 DEF Tiled
<1>8. ASSUME NEW z \in K, NEW p \in Within(z.start, z.end)
      PROVE  p \in UserPages /\ Q[p] = P[p]
  <2>1. z \in A /\ z # x /\ z \in AreaType /\ HeapPages < z.start /\ z.end <= LastPage + 1
    BY <1>1 DEF Tiled
  <2>2. z.start \in Nat /\ z.end \in Nat /\ p \in Nat
    BY <2>1, NumbersAre DEF AreaType, Within
  <2>3. p \in UserPages
    BY <2>1, <2>2, NumbersAre DEF Within, UserPages
  <2>4. p \notin Within(x.start, x.end)
    BY <1>1, <1>4, <2>1, <2>2 DEF Tiled, Within
  <2>5. p \notin Within(x.start, e)
    BY <1>3, <1>4, <1>5, <2>2 DEF Within
  <2> QED BY <2>3, <2>4, <2>5
<1>9. Present(B, Q)
  <2> SUFFICES ASSUME NEW z \in B, NEW p \in Within(z.start, z.end) PROVE Q[p] # Nothing
    BY DEF Present
  <2>1. CASE z \in K
    <3>1. Q[p] = P[p] /\ P[p] # Nothing
      BY <1>1, <1>8, <2>1 DEF Present
    <3> QED BY <3>1
  <2>2. CASE z = y
    <3>1. p \in Within(x.start, e)
      BY <1>3, <2>2
    <3>2. CASE p < x.end
      <4>1. Q[p] = P[p] /\ p \in Within(x.start, x.end)
        BY <3>1, <3>2, <1>4 DEF Within
      <4> QED BY <4>1, <1>1 DEF Present
    <3>3. CASE ~(p < x.end)
      BY <3>1, <3>3, NumbersAre DEF Own, Nothing
    <3> QED BY <3>2, <3>3
  <2> QED BY <2>1, <2>2
<1>10. Borrows(B, Q, M)
  <2> SUFFICES ASSUME NEW p \in UserPages, Q[p] \in 1 .. FrameCount
               PROVE  \E z \in B : Shows(z, p, Q[p], M)
    BY DEF Borrows
  <2>1. p \in Nat
    BY DEF UserPages
  <2>2. Q[p] # Nothing /\ Q[p] # Own
    BY NumbersAre DEF Nothing, Own
  <2>3. Q[p] = P[p] /\ (p \in Within(x.start, x.end) => p \in Within(x.start, e))
    <3>1. CASE p \in Within(x.start, e)
      BY <2>2, <3>1
    <3>2. CASE p \notin Within(x.start, e) /\ p \in Within(x.start, x.end)
      <4>1. p \in Within(e, x.end)
        BY <3>2, <2>1, <1>4 DEF Within
      <4> QED BY <4>1, <2>2
    <3>3. CASE p \notin Within(x.start, e) /\ p \notin Within(x.start, x.end)
      BY <3>3
    <3> QED BY <3>1, <3>2, <3>3
  <2>4. PICK z \in A : Shows(z, p, P[p], M)
    BY <1>1, <2>3 DEF Borrows
  <2>5. CASE z # x
    BY <2>3, <2>4, <2>5
  <2>6. CASE z = x
    <3>1. Shows(y, p, P[p], M)
      BY <1>3, <2>3, <2>4, <2>6 DEF Shows
    <3> QED BY <2>3, <3>1
  <2> QED BY <2>5, <2>6
<1>11. ASSUME NEW m PROVE Cardinality(BackedBy(B, m)) = Cardinality(BackedBy(A, m))
  <2>1. IsFiniteSet(BackedBy(K, m)) /\ Cardinality(BackedBy(K, m)) \in Nat
    <3>1. IsFiniteSet(K)
      BY <1>1, FS_Subset DEF Tiled
    <3> QED BY <3>1, BackedFinite
  <2>2. CASE x.backing = m
    <3>1. /\ BackedBy(A, m) = BackedBy(K, m) \cup {x} /\ x \notin BackedBy(K, m)
          /\ BackedBy(B, m) = BackedBy(K, m) \cup {y} /\ y \notin BackedBy(K, m)
      BY <1>3, <1>6, <2>2 DEF BackedBy
    <3>2. Cardinality(BackedBy(A, m)) = Cardinality(BackedBy(K, m)) + 1
      BY <2>1, <3>1, FS_AddElement
    <3>3. Cardinality(BackedBy(B, m)) = Cardinality(BackedBy(K, m)) + 1
      BY <2>1, <3>1, FS_AddElement
    <3> QED BY <3>2, <3>3
  <2>3. CASE x.backing # m
    <3>1. BackedBy(A, m) = BackedBy(K, m) /\ BackedBy(B, m) = BackedBy(K, m)
      BY <1>3, <2>3 DEF BackedBy
    <3> QED BY <3>1
  <2> QED BY <2>2, <2>3
<1>12. Follows(A, M, B, M)
  BY <1>11 DEF Follows
<1>13. AreasSound(B, Q, M)
  BY <1>1, <1>7, <1>9, <1>10, <1>11 DEF AreasSound
<1> QED BY <1>12, <1>13 DEF y

LEMMA RemapInPlaceKeeps ==
  ASSUME AreasInv, NEW s \in alive, NEW n \in 1 .. LastPage - HeapPages, NEW x \in mm[s].areas,
         RemapsInPlace(s, x, n)
  PROVE  AreasInv'
<1>1. s \in Spaces
  BY DEF AreasInv, AreasTypes
<1> DEFINE A == mm[s].areas
           P == mm[s].pte
           e == x.start + n
           B == (A \ {x}) \cup {[x EXCEPT !.end = e]}
<1>2. AreasSound(A, P, memfds) /\ Current(s) = [areas |-> A, pte |-> P, memfds |-> memfds]
  BY <1>1, CurrentSound
<1>3. Tiled(A) /\ P \in Ptes /\ Present(A, P)
  BY <1>2 DEF AreasSound
<1>4. x \in AreaType /\ HeapPages < x.start /\ x.start < x.end /\ x.end <= LastPage + 1
  BY <1>3 DEF Tiled
<1>5. x.start \in Nat /\ x.end \in Nat /\ n \in Nat /\ 0 < n /\ e \in Nat /\ x.start < e
  BY <1>4, NumbersAre DEF AreaType
<1>6. CASE /\ n < x.end - x.start
           /\ Becomes(s, [Filled(Current(s), Within(x.start + n, x.end), Nothing) EXCEPT !.areas = B])
  <2> DEFINE Q == FilledWith(P, Within(e, x.end), Nothing)
  <2>1. Filled(Current(s), Within(x.start + n, x.end), Nothing) = [areas |-> A, pte |-> Q, memfds |-> memfds]
    BY <1>2, FilledIs
  <2>2. Becomes(s, [areas |-> B, pte |-> Q, memfds |-> memfds])
    <3> HIDE DEF A, P, B, Q
    <3> QED BY <1>6, <2>1, AreasSet
  <2>3. e < x.end
    BY <1>5, <1>6
  <2>4. Q \in Ptes /\ \A p \in UserPages : Q[p] = IF p \in Within(e, x.end) THEN Nothing ELSE P[p]
    BY <1>3, NumbersAre DEF FilledWith, Ptes, Own, Nothing
  <2> HIDE DEF Q
  <2>5. \A p \in Within(x.start, x.end) : p \in UserPages /\ p \in Nat
    BY <1>4, <1>5, NumbersAre DEF Within, UserPages
  <2>6. /\ \A p \in UserPages : p \notin Within(x.start, e) /\ p \notin Within(x.start, x.end) => Q[p] = P[p]
        /\ \A p \in Within(x.start, e) : IF p < x.end THEN Q[p] = P[p]
                                         ELSE P[p] = Nothing /\ Q[p] = Own
        /\ \A p \in Within(e, x.end) : Q[p] = Nothing
    <3>1. Within(x.start, e) \subseteq Within(x.start, x.end) /\ Within(e, x.end) \subseteq Within(x.start, x.end)
          /\ Within(x.start, e) \cap Within(e, x.end) = {} /\ \A p \in Within(x.start, e) : p < x.end
      BY <1>5, <2>3 DEF Within
    <3> QED BY <2>4, <2>5, <3>1
  <2>7. e <= LastPage + 1
    BY <1>4, <1>5, <2>3, NumbersAre
  <2>8. AreasSound(B, Q, memfds) /\ Follows(A, memfds, B, memfds)
    <3> HIDE DEF A, P, e
    <3> QED BY <1>2, <1>5, <2>4, <2>6, <2>7, ResizeSound DEF A
  <2> QED BY <2>2, <2>8, BecomesIs
<1>7. CASE /\ n > x.end - x.start /\ x.start + n <= LastPage + 1
           /\ IsFreeAt(s, x.end, n - (x.end - x.start))
           /\ Becomes(s, [Filled(Current(s), Within(x.end, x.start + n), Own) EXCEPT !.areas = B])
  <2> DEFINE Q == FilledWith(P, Within(x.end, e), Own)
  <2>1. Filled(Current(s), Within(x.end, x.start + n), Own) = [areas |-> A, pte |-> Q, memfds |-> memfds]
    BY <1>2, FilledIs
  <2>2. Becomes(s, [areas |-> B, pte |-> Q, memfds |-> memfds])
    <3> HIDE DEF A, P, B, Q
    <3> QED BY <1>7, <2>1, AreasSet
  <2>3. x.end < e /\ x.end + (n - (x.end - x.start)) = e
    BY <1>5, <1>7
  <2>4. Q \in Ptes /\ \A p \in UserPages : Q[p] = IF p \in Within(x.end, e) THEN Own ELSE P[p]
    BY <1>3, NumbersAre DEF FilledWith, Ptes, Own
  <2>5. \A p \in Within(x.end, e) : P[p] = Nothing
    BY <1>7, <2>3 DEF IsFreeAt
  <2> HIDE DEF Q
  <2>6. \A p \in Within(x.start, e) : p \in UserPages /\ p \in Nat
    BY <1>4, <1>5, <1>7, NumbersAre DEF Within, UserPages
  <2>7. /\ \A p \in UserPages : p \notin Within(x.start, e) /\ p \notin Within(x.start, x.end) => Q[p] = P[p]
        /\ \A p \in Within(x.start, e) : IF p < x.end THEN Q[p] = P[p]
                                         ELSE P[p] = Nothing /\ Q[p] = Own
        /\ \A p \in Within(e, x.end) : Q[p] = Nothing
    <3>1. Within(x.end, e) \subseteq Within(x.start, e) /\ Within(e, x.end) = {}
          /\ \A p \in Within(x.start, e) : p < x.end <=> p \notin Within(x.end, e)
      BY <1>4, <1>5, <2>3, <2>6 DEF Within
    <3> QED BY <2>4, <2>5, <2>6, <3>1
  <2>8. AreasSound(B, Q, memfds) /\ Follows(A, memfds, B, memfds)
    <3>1. e <= LastPage + 1
      BY <1>7
    <3>2. x \in A /\ AreasSound(A, P, memfds) /\ e \in Nat /\ x.start < e /\ Q \in Ptes
      BY <1>2, <1>5, <2>4
    <3> HIDE DEF A, P, e
    <3> QED BY <2>7, <3>1, <3>2, ResizeSound
  <2> QED BY <2>2, <2>8, BecomesIs
<1> QED BY <1>6, <1>7 DEF RemapsInPlace

LEMMA RemapMovesKeeps ==
  ASSUME AreasInv, MapsIntoHeap = FALSE, RemapsShared = FALSE, NEW s \in alive,
         NEW n \in 1 .. LastPage - HeapPages, NEW x \in mm[s].areas, NEW fixed \in BOOLEAN,
         RemapMoves(s, x, n, fixed)
  PROVE  AreasInv'
<1>1. s \in Spaces
  BY DEF AreasInv, AreasTypes
<1> DEFINE A == mm[s].areas
           P == mm[s].pte
<1>2. AreasSound(A, P, memfds) /\ Current(s) = [areas |-> A, pte |-> P, memfds |-> memfds]
      /\ Follows(A, memfds, A, memfds)
  BY <1>1, CurrentSound
<1>3. Tiled(A) /\ Present(A, P)
  BY <1>2 DEF AreasSound
<1>4. x \in AreaType /\ x.start \in Nat /\ x.end \in Nat /\ x.start < x.end
  BY <1>3 DEF Tiled, AreaType
<1>5. x.backing = Anonymous
  BY DEF RemapMoves
<1>6. PICK a \in IF fixed THEN Targets(n) ELSE FirstFree(s, n) :
       LET cleared == IF fixed THEN vm_unmap_area_range(Current(s), a, a + n) ELSE Current(s)
           there == Filled(cleared, Within(a, a + n), Own)
           moved == vm_unmap_area_range(there, x.start, x.end)
           area == [x EXCEPT !.start = a, !.end = a + n]
       IN \/ Becomes(s, [moved EXCEPT !.areas = @ \cup {area}])
          \/ Becomes(s, moved)
          \/ fixed /\ Becomes(s, cleared)
  BY DEF RemapMoves
<1>7. a \in Nat /\ n \in Nat /\ HeapPages < a /\ a < a + n /\ a + n <= LastPage + 1 /\ a + n \in Nat
  BY <1>1, TargetIs
<1>8. \E B, Q, N :
        /\ AreasSound(B, Q, N) /\ Follows(A, memfds, B, N) /\ Away(B, a, a + n)
        /\ (IF fixed THEN vm_unmap_area_range(Current(s), a, a + n) ELSE Current(s))
             = [areas |-> B, pte |-> Q, memfds |-> N]
  <2>1. CASE fixed
    <3> DEFINE B == Left(A, a, a + n)
               Q == Cleared(A, P, a, a + n)
               N == Dropped(A, memfds, a, a + n)
    <3>1. /\ AreasSound(B, Q, N) /\ Follows(A, memfds, B, N) /\ Away(B, a, a + n)
          /\ vm_unmap_area_range([areas |-> A, pte |-> P, memfds |-> memfds], a, a + n)
               = [areas |-> B, pte |-> Q, memfds |-> N]
      BY <1>2, <1>7, UnmapSound DEF Away
    <3>2. (IF fixed THEN vm_unmap_area_range(Current(s), a, a + n) ELSE Current(s))
             = [areas |-> B, pte |-> Q, memfds |-> N]
      BY <2>1, <1>2, <3>1
    <3> HIDE DEF B, Q, N
    <3> QED BY <3>1, <3>2
  <2>2. CASE ~fixed
    <3>1. \A p \in Within(a, a + n) : P[p] = Nothing
      BY <2>2 DEF FirstFree, IsFreeAt
    <3>3. Away(A, a, a + n)
      BY <3>1, <1>3, <1>7, FreeIsAway
    <3> QED BY <2>2, <3>3, <1>2
  <2> QED BY <2>1, <2>2
<1>9. PICK B, Q, N :
        /\ AreasSound(B, Q, N) /\ Follows(A, memfds, B, N) /\ Away(B, a, a + n)
        /\ (IF fixed THEN vm_unmap_area_range(Current(s), a, a + n) ELSE Current(s))
             = [areas |-> B, pte |-> Q, memfds |-> N]
  BY <1>8
<1> DEFINE F == FilledWith(Q, Within(a, a + n), Own)
           C == Left(B, x.start, x.end)
           R == Cleared(B, F, x.start, x.end)
           O == Dropped(B, N, x.start, x.end)
           y == [x EXCEPT !.start = a, !.end = a + n]
<1>10. AreasSound(B, F, N) /\ Filled([areas |-> B, pte |-> Q, memfds |-> N], Within(a, a + n), Own)
                            = [areas |-> B, pte |-> F, memfds |-> N]
  <2>1. Own # Nothing
    BY NumbersAre DEF Own, Nothing
  <2> QED BY <1>9, <2>1, FillSound, FilledIs
<1>11. /\ AreasSound(C, R, O) /\ Follows(B, N, C, O)
       /\ vm_unmap_area_range([areas |-> B, pte |-> F, memfds |-> N], x.start, x.end)
            = [areas |-> C, pte |-> R, memfds |-> O]
  <2> HIDE DEF F
  <2> QED BY <1>4, <1>10, UnmapSound
<1>12. \/ Becomes(s, [areas |-> C \cup {y}, pte |-> R, memfds |-> O])
       \/ Becomes(s, [areas |-> C, pte |-> R, memfds |-> O])
       \/ Becomes(s, [areas |-> B, pte |-> Q, memfds |-> N])
  <2> DEFINE cleared == IF fixed THEN vm_unmap_area_range(Current(s), a, a + n) ELSE Current(s)
             there == Filled(cleared, Within(a, a + n), Own)
             moved == vm_unmap_area_range(there, x.start, x.end)
  <2>1. \/ Becomes(s, [moved EXCEPT !.areas = @ \cup {y}])
        \/ Becomes(s, moved)
        \/ Becomes(s, cleared)
    BY <1>6
  <2>2. cleared = [areas |-> B, pte |-> Q, memfds |-> N]
    BY <1>9
  <2> HIDE DEF cleared, F, C, R, O, y
  <2>3. there = [areas |-> B, pte |-> F, memfds |-> N]
    BY <1>10, <2>2
  <2> HIDE DEF there
  <2>4. moved = [areas |-> C, pte |-> R, memfds |-> O]
    BY <1>11, <2>3
  <2> HIDE DEF moved
  <2>5. [moved EXCEPT !.areas = @ \cup {y}] = [areas |-> C \cup {y}, pte |-> R, memfds |-> O]
    <3> DEFINE E == C \cup {y}
    <3>1. moved.areas = C
      BY <2>4
    <3> HIDE DEF E
    <3>2. [moved EXCEPT !.areas = E] = [areas |-> E, pte |-> R, memfds |-> O]
      BY <2>4, AreasSet
    <3> QED BY <3>1, <3>2 DEF E
  <2> QED BY <2>1, <2>2, <2>4, <2>5
<1>13. Follows(A, memfds, C, O)
  <2> HIDE DEF F, C, R, O
  <2> QED BY <1>2, <1>9, <1>11, FollowsOn
<1>14. /\ y \in AreaType /\ y.start = a /\ y.end = a + n /\ y.backing = Anonymous
  BY <1>4, <1>5, <1>7 DEF AreaType
<1>15. Tiled(B) /\ Tiled(C)
  BY <1>9, <1>11 DEF AreasSound
<1>16. Away(C, a, a + n)
  <2> SUFFICES ASSUME NEW z \in C PROVE z.end <= a \/ a + n <= z.start
    BY DEF Away
  <2>1. PICK w \in B : w.start <= z.start /\ z.start < z.end /\ z.end <= w.end
    BY <1>4, <1>15, PiecesAre
  <2>2. w \in AreaType /\ z \in AreaType
    BY <1>15 DEF Tiled
  <2>3. w.end <= a \/ a + n <= w.start
    BY <1>9 DEF Away
  <2> QED BY <2>1, <2>2, <2>3, <1>7 DEF AreaType
<1>17. \A p \in Within(a, a + n) : R[p] = Own
  <2> SUFFICES ASSUME NEW p \in Within(a, a + n) PROVE R[p] = Own
    OBVIOUS
  <2>1. p \in UserPages
    BY <1>7, NumbersAre DEF Within, UserPages
  <2>2. \A w \in B : p \notin Within(w.start, w.end)
    BY <1>7, <1>9, <1>15, AwayApart
  <2>3. p \notin Cut(B, x.start, x.end)
    BY <1>4, <2>2, CutIs
  <2> QED BY <2>1, <2>3 DEF Cleared, FilledWith
<1>18. AreasSound(C \cup {y}, R, O) /\ Follows(C, O, C \cup {y}, O)
  <2>1. SlotsTold(O) /\ R \in Ptes
    BY <1>11 DEF AreasSound
  <2>2. \A p \in Within(y.start, y.end) :
           R[p] # Nothing /\ (R[p] \in 1 .. FrameCount => Shows(y, p, R[p], O))
    <3>1. Own # Nothing /\ Own \notin 1 .. FrameCount
      BY NumbersAre DEF Own, Nothing
    <3> HIDE DEF R, O, y
    <3> QED BY <1>14, <1>17, <3>1
  <2>3. \A m \in Memfds : /\ O[m].map_refs = O[m].map_refs + (IF y.backing = m THEN 1 ELSE 0)
                           /\ O[m].refs = O[m].refs /\ O[m].used = O[m].used
                           /\ O[m].pages = O[m].pages
    <3>1. \A m \in Memfds : O[m].map_refs \in Nat /\ y.backing # m
      BY <1>14, <2>1, NumbersAre DEF SlotsTold, SlotType
    <3> HIDE DEF O, y
    <3> QED BY <3>1
  <2> HIDE DEF F, C, R, O, y
  <2> QED BY <1>7, <1>11, <1>14, <1>16, <2>1, <2>2, <2>3, AddSound
<1> HIDE DEF F, C, R, O, y
<1>19. Follows(A, memfds, C \cup {y}, O)
  BY <1>2, <1>11, <1>13, <1>18, FollowsOn
<1>20. CASE Becomes(s, [areas |-> C \cup {y}, pte |-> R, memfds |-> O])
  BY <1>18, <1>19, <1>20, BecomesIs
<1>21. CASE Becomes(s, [areas |-> C, pte |-> R, memfds |-> O])
  BY <1>11, <1>13, <1>21, BecomesIs
<1>22. CASE Becomes(s, [areas |-> B, pte |-> Q, memfds |-> N])
  BY <1>9, <1>22, BecomesIs
<1> QED BY <1>12, <1>20, <1>21, <1>22

LEMMA BrkKeeps ==
  ASSUME AreasInv, NEW s \in alive, NEW top \in 0 .. HeapPages, user_brk(s, top)
  PROVE  AreasInv'
<1>1. s \in Spaces /\ mm \in [Spaces -> SpaceType]
  BY DEF AreasInv, AreasTypes
<1> DEFINE A == mm[s].areas
           P == mm[s].pte
           old == mm[s].brk
           fresh == {p \in old + 1 .. top : \E q \in {r \in old + 1 .. top : P[r] = Nothing} : q <= p}
           F == FilledWith(P, fresh, Own)
           Q == FilledWith(F, top + 1 .. old, Nothing)
<1>2. AreasSound(A, P, memfds) /\ Current(s) = [areas |-> A, pte |-> P, memfds |-> memfds]
      /\ Follows(A, memfds, A, memfds) /\ old \in 0 .. HeapPages
  BY <1>1, CurrentSound
<1>3. /\ mm' = [mm EXCEPT ![s].brk = top,
                 ![s].pte = Filled(Filled(Current(s), fresh, Own), top + 1 .. old, Nothing).pte]
      /\ UNCHANGED <<memfds, memfdFds, alive>>
  BY DEF user_brk
<1> HIDE DEF fresh
<1>4. Filled(Filled(Current(s), fresh, Own), top + 1 .. old, Nothing)
        = [areas |-> A, pte |-> Q, memfds |-> memfds]
  <2>1. Filled(Current(s), fresh, Own) = [areas |-> A, pte |-> F, memfds |-> memfds]
    BY <1>2, FilledIs
  <2> HIDE DEF F
  <2> QED BY <2>1, FilledIs
<1>5. AreasSound(A, F, memfds)
  <2>1. Own # Nothing
    BY NumbersAre DEF Own, Nothing
  <2> QED BY <1>2, <2>1, FillSound
<1> HIDE DEF F
<1>6. \A x \in A : (top + 1 .. old) \cap Within(x.start, x.end) = {}
  <2> SUFFICES ASSUME NEW x \in A, NEW p \in top + 1 .. old PROVE p \notin Within(x.start, x.end)
    OBVIOUS
  <2>1. x \in AreaType /\ HeapPages < x.start
    BY <1>2 DEF AreasSound, Tiled
  <2> QED BY <1>2, <2>1, NumbersAre DEF AreaType, Within
<1>7. AreasSound(A, Q, memfds)
  BY <1>5, <1>6, FillSound
<1> HIDE DEF Q
<1>8. mm' = [mm EXCEPT ![s] = [areas |-> A, pte |-> Q, brk |-> top]]
  <2>1. mm' = [mm EXCEPT ![s].brk = top, ![s].pte = Q]
    <3>1. Filled(Filled(Current(s), fresh, Own), top + 1 .. old, Nothing).pte = Q
      BY <1>4
    <3> HIDE DEF old
    <3> QED BY <1>3, <3>1
  <2>2. [mm[s] EXCEPT !.brk = top, !.pte = Q] = [areas |-> A, pte |-> Q, brk |-> top]
    BY <1>1, SpaceWith
  <2> QED BY <1>1, <2>1, <2>2
<1> QED BY <1>2, <1>3, <1>7, <1>8, BecomesKeeps
-----------------------------------------------------------------------------
(* memfd objects                                                           *)

LEMMA BorrowsStill ==
  ASSUME NEW A, NEW P, NEW M, AreasSound(A, P, M), NEW N,
         \A m \in Memfds : M[m].map_refs # 0 => Extends(M[m].pages, N[m].pages)
  PROVE  Borrows(A, P, N)
<1> SUFFICES ASSUME NEW p \in UserPages, P[p] \in 1 .. FrameCount
             PROVE  \E x \in A : Shows(x, p, P[p], N)
  BY DEF Borrows
<1>1. PICK x \in A : Shows(x, p, P[p], M)
  BY DEF AreasSound, Borrows
<1>2. Tiled(A) /\ \A m \in Memfds : Cardinality(BackedBy(A, m)) <= M[m].map_refs
  BY DEF AreasSound
<1>3. x.backing \in Memfds
  BY <1>1, <1>2 DEF Shows, Tiled, AreaType
<1>4. Cardinality(BackedBy(A, x.backing)) \in Nat \ {0}
  BY <1>2, BackedMap DEF Tiled
<1>5. M[x.backing].map_refs \in Nat
  BY <1>3, CountsAre
<1>6. M[x.backing].map_refs # 0
  BY <1>2, <1>3, <1>4, <1>5
<1>7. Extends(M[x.backing].pages, N[x.backing].pages)
  BY <1>3, <1>6
<1> QED BY <1>1, <1>7, ShowsStill

\* A call that leaves the spaces alone and the pages of what is mapped.
LEMMA MemfdKeeps ==
  ASSUME AreasInv, NEW s \in alive, UNCHANGED <<mm, alive>>, SlotsTold(memfds'),
         \A m \in Memfds :
           /\ memfds'[m].map_refs = memfds[m].map_refs
           /\ memfds[m].map_refs # 0 => Extends(memfds[m].pages, memfds'[m].pages)
           /\ memfds'[m].refs = Cardinality(Fds(m)'),
         memfdFds' \in [Spaces -> SUBSET Memfds],
         \A r \in Spaces \ {s} : memfdFds'[r] = memfdFds[r]
  PROVE  AreasInv'
<1> DEFINE X == mm[s]
<1>1. s \in Spaces /\ mm \in [Spaces -> SpaceType] /\ alive \subseteq Spaces
  BY DEF AreasInv, AreasTypes
<1>2. X \in SpaceType /\ mm' = [mm EXCEPT ![s] = X]
  BY <1>1
<1>3. AreasSound(X.areas, X.pte, memfds)
  BY <1>1 DEF AreasInv
<1>4. Tiled(X.areas) /\ Present(X.areas, X.pte)
  BY <1>3 DEF AreasSound
<1>5. Borrows(X.areas, X.pte, memfds')
  BY <1>3, BorrowsStill
<1>6. StepTold(s, X)
  BY <1>4, <1>5 DEF StepTold
<1>7. \A r \in Spaces \ alive' : mm'[r] = NoSpace /\ memfdFds'[r] = {}
  BY DEF AreasInv
<1> HIDE DEF X
<1> QED BY <1>1, <1>2, <1>6, <1>7, StepKeeps

LEMMA FdsFinite ==
  ASSUME NEW m
  PROVE  IsFiniteSet(Fds(m)) /\ Cardinality(Fds(m)) \in Nat
BY NumbersAre, FS_Subset, FS_CardinalityType DEF Fds

\* A memfd a descriptor names is in use.
LEMMA NamedIsUsed ==
  ASSUME AreasInv, NEW s \in Spaces, NEW m \in memfdFds[s]
  PROVE  /\ m \in Memfds /\ memfds[m].used /\ memfds[m].refs \in Nat \ {0}
         /\ memfds[m] \in SlotType /\ s \in Fds(m)
<1>1. m \in Memfds
  BY DEF AreasInv, AreasTypes
<1>2. s \in Fds(m)
  BY DEF Fds
<1>3. memfds[m].refs \in Nat \ {0}
  BY <1>1, <1>2, FdsFinite, FS_EmptySet DEF AreasInv
<1>4. SlotsTold(memfds)
  BY DEF AreasInv, AreasSound
<1> QED BY <1>1, <1>2, <1>3, <1>4 DEF SlotsTold

LEMMA CreateKeeps ==
  ASSUME AreasInv, NEW s \in alive, memfd_create(s)
  PROVE  AreasInv'
<1>1. s \in Spaces /\ memfdFds \in [Spaces -> SUBSET Memfds] /\ memfds \in [Memfds -> SlotType]
  BY DEF AreasInv, AreasTypes
<1>2. PICK m \in Memfds :
       /\ ~memfds[m].used
       /\ memfds' = [memfds EXCEPT ![m] = [NoMemfd EXCEPT !.used = TRUE, !.refs = 1]]
       /\ memfdFds' = [memfdFds EXCEPT ![s] = @ \cup {m}]
  BY DEF memfd_create
<1> DEFINE z == [NoMemfd EXCEPT !.used = TRUE, !.refs = 1]
<1>3. z \in SlotType /\ z.used = TRUE /\ z.refs = 1 /\ z.map_refs = 0 /\ z.pages = <<>>
  BY NoMemfdIs DEF SlotType
<1> HIDE DEF z
<1>4. memfds' = [memfds EXCEPT ![m] = z]
  BY <1>2 DEF z
<1>5. memfds'[m] = z /\ \A k \in Memfds : k # m => memfds'[k] = memfds[k]
  BY <1>1, <1>4
<1>6. SlotsTold(memfds)
  BY <1>1 DEF AreasInv, AreasSound
<1>7. memfds[m].refs = 0 /\ memfds[m].map_refs = 0
  BY <1>2, <1>6 DEF SlotsTold
<1>8. SlotsTold(memfds')
  BY <1>1, <1>3, <1>4, <1>5, <1>6 DEF SlotsTold
<1>9. Fds(m) = {}
  BY <1>7, FdsFinite, FS_EmptySet DEF AreasInv
<1>10. /\ \A r \in Spaces \ {s} : memfdFds'[r] = memfdFds[r]
       /\ memfdFds'[s] = memfdFds[s] \cup {m} /\ memfdFds' \in [Spaces -> SUBSET Memfds]
  BY <1>1, <1>2
<1>11. Fds(m)' = {s}
  BY <1>1, <1>9, <1>10 DEF Fds
<1>12. \A k \in Memfds : k # m => Fds(k)' = Fds(k)
  BY <1>1, <1>10 DEF Fds
<1>13. ASSUME NEW k \in Memfds
       PROVE  /\ memfds'[k].map_refs = memfds[k].map_refs
              /\ memfds[k].map_refs # 0 => Extends(memfds[k].pages, memfds'[k].pages)
              /\ memfds'[k].refs = Cardinality(Fds(k)')
  <2>1. CASE k = m
    BY <2>1, <1>3, <1>5, <1>7, <1>11, FS_Singleton
  <2>2. CASE k # m
    BY <2>2, <1>5, <1>12 DEF AreasInv, Extends
  <2> QED BY <2>1, <2>2
<1>14. UNCHANGED <<mm, alive>>
  BY DEF memfd_create
<1> QED BY <1>8, <1>10, <1>13, <1>14, MemfdKeeps

LEMMA MemfdCloseKeeps ==
  ASSUME AreasInv, NEW s \in alive, NEW m \in Memfds, memfd_close(s, m)
  PROVE  AreasInv'
<1>1. s \in Spaces /\ memfdFds \in [Spaces -> SUBSET Memfds] /\ memfds \in [Memfds -> SlotType]
      /\ m \in memfdFds[s]
  BY DEF AreasInv, AreasTypes, memfd_close
<1>2. memfds[m].used /\ memfds[m].refs \in Nat \ {0} /\ memfds[m] \in SlotType /\ s \in Fds(m)
  BY <1>1, NamedIsUsed
<1> DEFINE n == memfds[m].refs - 1
           y == [memfds[m] EXCEPT !.refs = n]
           z == memfd_maybe_reset(y)
<1>3. memfds' = [memfds EXCEPT ![m] = z]
  BY DEF memfd_close
<1>4. n \in Nat
  BY <1>2
<1> HIDE DEF n
<1>5. y \in SlotType /\ y.used = memfds[m].used /\ y.refs = n /\ y.map_refs = memfds[m].map_refs
      /\ y.pages = memfds[m].pages
  BY <1>2, <1>4, SlotWithRefs
<1> HIDE DEF y
<1>6. /\ z \in SlotType /\ z.refs = n /\ z.map_refs = memfds[m].map_refs
      /\ (z.used <=> z.refs # 0 \/ z.map_refs # 0) /\ (z.used => z.pages = memfds[m].pages)
  BY <1>2, <1>5, ResetIs
<1> HIDE DEF z
<1>7. memfds'[m] = z /\ \A k \in Memfds : k # m => memfds'[k] = memfds[k]
  BY <1>1, <1>3
<1>8. SlotsTold(memfds)
  BY <1>1 DEF AreasInv, AreasSound
<1>9. SlotsTold(memfds')
  BY <1>1, <1>3, <1>6, <1>7, <1>8 DEF SlotsTold
<1>10. /\ \A r \in Spaces \ {s} : memfdFds'[r] = memfdFds[r]
       /\ memfdFds'[s] = memfdFds[s] \ {m} /\ memfdFds' \in [Spaces -> SUBSET Memfds]
  BY <1>1 DEF memfd_close
<1>11. Fds(m)' = Fds(m) \ {s}
  BY <1>1, <1>10 DEF Fds
<1>12. \A k \in Memfds : k # m => Fds(k)' = Fds(k)
  BY <1>1, <1>10 DEF Fds
<1>13. ASSUME NEW k \in Memfds
       PROVE  /\ memfds'[k].map_refs = memfds[k].map_refs
              /\ memfds[k].map_refs # 0 => Extends(memfds[k].pages, memfds'[k].pages)
              /\ memfds'[k].refs = Cardinality(Fds(k)')
  <2>1. CASE k = m
    <3>1. Cardinality(Fds(m)') = Cardinality(Fds(m)) - 1
      BY <1>2, <1>11, FdsFinite, FS_RemoveElement
    <3>2. memfds[m].refs = Cardinality(Fds(m))
      BY DEF AreasInv
    <3> QED BY <2>1, <3>1, <3>2, <1>6, <1>7 DEF Extends, n
  <2>2. CASE k # m
    BY <2>2, <1>7, <1>12 DEF AreasInv, Extends
  <2> QED BY <2>1, <2>2
<1>14. UNCHANGED <<mm, alive>>
  BY DEF memfd_close
<1> QED BY <1>9, <1>10, <1>13, <1>14, MemfdKeeps

\* Of the numbers of a finite set, one has as many below it as one likes.
LEMMA RankIs ==
  ASSUME NEW S \in SUBSET Nat, IsFiniteSet(S), NEW k \in Nat, k < Cardinality(S)
  PROVE  \E f \in S : Cardinality({g \in S : g < f}) = k
<1> DEFINE Below(f) == {g \in S : g < f}
           T == 0 .. Cardinality(S) - 1
           r == [f \in S |-> Cardinality(Below(f))]
<1>1. Cardinality(S) \in Nat
  BY FS_CardinalityType
<1>2. IsFiniteSet(T) /\ Cardinality(T) = Cardinality(S)
  <2> DEFINE n == Cardinality(S)
  <2>1. n \in Nat /\ k < n
    BY <1>1
  <2> HIDE DEF n
  <2>2. 0 \in Int /\ n - 1 \in Int
    BY <2>1
  <2>3. IsFiniteSet(0 .. n - 1) /\ Cardinality(0 .. n - 1) = IF 0 > n - 1 THEN 0 ELSE n - 1 - 0 + 1
    BY <2>2, FS_Interval
  <2>4. ~(0 > n - 1) /\ n - 1 - 0 + 1 = n
    BY <2>1
  <2> QED BY <2>3, <2>4 DEF n
<1>3. ASSUME NEW f \in S
      PROVE  /\ IsFiniteSet(Below(f)) /\ Cardinality(Below(f)) \in Nat
             /\ Cardinality(Below(f)) < Cardinality(S)
  <2>1. Below(f) \in SUBSET S /\ f \notin Below(f)
    OBVIOUS
  <2>2. IsFiniteSet(Below(f)) /\ Cardinality(Below(f)) <= Cardinality(S)
        /\ (Cardinality(S) = Cardinality(Below(f)) => S = Below(f))
    BY <2>1, FS_Subset
  <2>3. Cardinality(Below(f)) \in Nat
    BY <2>2, FS_CardinalityType
  <2> HIDE DEF Below
  <2>4. Cardinality(S) # Cardinality(Below(f))
    BY <2>1, <2>2
  <2> QED BY <1>1, <2>2, <2>3, <2>4
<1>4. ASSUME NEW f \in S, NEW g \in S, f < g PROVE Cardinality(Below(f)) < Cardinality(Below(g))
  <2>1. Below(f) \in SUBSET Below(g) /\ f \in Below(g) /\ f \notin Below(f)
    <3>1. f \in Nat /\ g \in Nat /\ \A x \in S : x \in Nat
      OBVIOUS
    <3>2. f \in Below(g)
      BY <1>4
    <3>3. f \notin Below(f)
      BY <3>1
    <3>4. ASSUME NEW x \in S, x < f PROVE x < g
      BY <3>1, <3>4, <1>4
    <3> QED BY <3>2, <3>3, <3>4
  <2>2. IsFiniteSet(Below(g)) /\ Cardinality(Below(g)) \in Nat /\ Cardinality(Below(f)) \in Nat
    BY <1>3
  <2> HIDE DEF Below
  <2>3. Cardinality(Below(f)) <= Cardinality(Below(g))
        /\ (Cardinality(Below(g)) = Cardinality(Below(f)) => Below(g) = Below(f))
    BY <2>1, <2>2, FS_Subset
  <2> QED BY <2>1, <2>2, <2>3
<1>5. r \in [S -> T]
  <2>1. \A f \in S : Cardinality(Below(f)) \in T
    BY <1>1, <1>3
  <2> HIDE DEF Below, T
  <2> QED BY <2>1
<1>6. \A f, g \in S : r[f] = r[g] => f = g
  <2> SUFFICES ASSUME NEW f \in S, NEW g \in S, f # g PROVE r[f] # r[g]
    OBVIOUS
  <2>1. f < g \/ g < f
    OBVIOUS
  <2>2. Cardinality(Below(f)) \in Nat /\ Cardinality(Below(g)) \in Nat
    BY <1>3
  <2>3. r[f] = Cardinality(Below(f)) /\ r[g] = Cardinality(Below(g))
    OBVIOUS
  <2> HIDE DEF Below, r
  <2> QED BY <2>1, <2>2, <2>3, <1>4
<1>7. k \in T
  BY <1>1
<1>8. \A f \in S : r[f] = Cardinality(Below(f))
  OBVIOUS
<1> HIDE DEF r, T
<1>9. r \in Injection(S, T)
  BY <1>5, <1>6 DEF Injection, IsInjective
<1>10. r \in Surjection(S, T)
  BY <1>2, <1>9, FS_Injection
<1>11. \E f \in S : r[f] = k
  BY <1>7, <1>10 DEF Surjection
<1> QED BY <1>8, <1>11

LEMMA FreeFinite == IsFiniteSet(FreeFrames)
<1> DEFINE D == 1 .. FrameCount
<1>1. 1 \in Int /\ FrameCount \in Int
  BY NumbersAre
<1>2. IsFiniteSet(D)
  BY <1>1, FS_Interval
<1>3. FreeFrames \in SUBSET D
  BY DEF FreeFrames
<1> HIDE DEF D
<1> QED BY <1>2, <1>3, FS_Subset

LEMMA NextFramesAre ==
  ASSUME NEW n \in Nat, n <= Cardinality(FreeFrames)
  PROVE  NextFrames(n) \in [1 .. n -> 1 .. FrameCount]
<1> DEFINE S == FreeFrames
<1>1. S \subseteq 1 .. FrameCount
  BY DEF FreeFrames
<1>2. S \in SUBSET Nat
  BY <1>1, NumbersAre
<1>3. IsFiniteSet(S)
  BY FreeFinite
<1> DEFINE At(i) == CHOOSE f \in S : Cardinality({g \in S : g < f}) = i - 1
<1>4. ASSUME NEW i \in 1 .. n PROVE At(i) \in S
  <2>1. i - 1 \in Nat /\ i - 1 < Cardinality(S)
    BY <1>3, FS_CardinalityType
  <2> HIDE DEF S
  <2>2. \E f \in S : Cardinality({g \in S : g < f}) = i - 1
    BY <1>2, <1>3, <2>1, RankIs
  <2> QED BY <2>2
<1>5. NextFrames(n) = [i \in 1 .. n |-> At(i)]
  BY DEF NextFrames
<1> HIDE DEF S, At
<1> QED BY <1>1, <1>4, <1>5

LEMMA SlotWithPages ==
  ASSUME NEW x \in SlotType, NEW q \in Seq(1 .. FrameCount)
  PROVE  LET z == [x EXCEPT !.pages = q] IN
         /\ z \in SlotType /\ z.used = x.used /\ z.refs = x.refs /\ z.map_refs = x.map_refs
         /\ z.pages = q
BY DEF SlotType

LEMMA TruncateKeeps ==
  ASSUME AreasInv, NEW s \in alive, NEW m \in Memfds, NEW n \in 0 .. MemfdPages,
         memfd_truncate(s, m, n)
  PROVE  AreasInv'
<1> DEFINE had == memfds[m].pages
           got == IF n < Len(had) THEN SubSeq(had, 1, n) ELSE had \o NextFrames(n - Len(had))
<1>1. memfdFds \in [Spaces -> SUBSET Memfds] /\ memfds \in [Memfds -> SlotType]
  BY DEF AreasInv, AreasTypes
<1>2. had \in Seq(1 .. FrameCount) /\ memfds[m].map_refs \in Nat
  BY <1>1 DEF SlotType
<1>3. n # Len(had) /\ MayResize(m, n) /\ (n > Len(had) => Cardinality(FreeFrames) >= n - Len(had))
      /\ memfds' = [memfds EXCEPT ![m].pages = got] /\ UNCHANGED <<mm, memfdFds, alive>>
  BY DEF memfd_truncate
<1>4. MayResize(m, n) /\ n < Len(had) => memfds[m].map_refs = 0
  BY DEF MayResize
<1> DEFINE z == [memfds[m] EXCEPT !.pages = got]
<1>5. memfds' = [memfds EXCEPT ![m] = z]
  BY <1>3
<1> HIDE DEF had, got
<1>6. got \in Seq(1 .. FrameCount) /\ (memfds[m].map_refs # 0 => Extends(had, got))
  <2>1. CASE n < Len(had)
    <3>1. got = SubSeq(had, 1, n)
      BY <2>1 DEF got
    <3>2. n \in Nat /\ n <= Len(had)
      BY <1>2, <2>1, NumbersAre
    <3>3. SubSeq(had, 1, n) \in Seq(1 .. FrameCount)
      <4>1. 1 \in Int /\ n \in Int /\ 1 .. n \subseteq 1 .. Len(had) /\ Len(had) \in Nat
        BY <1>2, <3>2
      <4>2. \A i \in 1 .. n : had[i] \in 1 .. FrameCount
        BY <1>2, <4>1, ElementOfSeq
      <4> QED BY <4>1, <4>2, SubSeqProperties
    <3> QED BY <3>1, <3>3, <1>3, <1>4, <2>1
  <2>2. CASE ~(n < Len(had))
    <3> DEFINE k == n - Len(had)
               w == NextFrames(k)
    <3>1. k \in Nat /\ k <= Cardinality(FreeFrames)
      <4>1. n \in Nat /\ Len(had) \in Nat
        BY <1>2, NumbersAre
      <4>2. n > Len(had)
        BY <1>3, <2>2, <4>1
      <4>4. Cardinality(FreeFrames) \in Nat
        BY FreeFinite, FS_CardinalityType
      <4> QED BY <1>3, <4>1, <4>2, <4>4
    <3> HIDE DEF k
    <3>2. w \in [1 .. k -> 1 .. FrameCount]
      BY <3>1, NextFramesAre
    <3> HIDE DEF w
    <3>3. w \in Seq(1 .. FrameCount)
      <4> DEFINE D == 1 .. FrameCount
      <4>1. w \in [1 .. k -> D]
        BY <3>2
      <4> HIDE DEF D
      <4>2. w \in Seq(D)
        BY <3>1, <4>1, SeqDef
      <4> QED BY <4>2 DEF D
    <3>4. got = had \o w
      BY <2>2 DEF got, w, k
    <3>5. had \o w \in Seq(1 .. FrameCount) /\ Len(had \o w) = Len(had) + Len(w)
          /\ \A i \in 1 .. Len(had) : (had \o w)[i] = had[i]
      BY <1>2, <3>3, ConcatProperties
    <3>6. DOMAIN had = 1 .. Len(had) /\ DOMAIN (had \o w) = 1 .. Len(had \o w)
          /\ Len(had) \in Nat /\ Len(w) \in Nat
      BY <1>2, <3>3, <3>5
    <3>7. DOMAIN had \subseteq DOMAIN (had \o w)
      BY <3>5, <3>6
    <3> QED BY <3>4, <3>5, <3>6, <3>7 DEF Extends
  <2> QED BY <2>1, <2>2
<1>7. /\ z \in SlotType /\ z.used = memfds[m].used /\ z.refs = memfds[m].refs
      /\ z.map_refs = memfds[m].map_refs /\ z.pages = got
  BY <1>1, <1>6, SlotWithPages
<1> HIDE DEF z
<1>8. memfds'[m] = z /\ \A k \in Memfds : k # m => memfds'[k] = memfds[k]
  BY <1>1, <1>5
<1>9. s \in Spaces
  BY DEF AreasInv, AreasTypes
<1>10. SlotsTold(memfds)
  BY <1>9 DEF AreasInv, AreasSound
<1>11. SlotsTold(memfds')
  BY <1>1, <1>5, <1>7, <1>8, <1>10 DEF SlotsTold
<1>12. ASSUME NEW k \in Memfds
       PROVE  /\ memfds'[k].map_refs = memfds[k].map_refs
              /\ memfds[k].map_refs # 0 => Extends(memfds[k].pages, memfds'[k].pages)
              /\ memfds'[k].refs = Cardinality(Fds(k)')
  <2>1. Fds(k)' = Fds(k)
    BY <1>3 DEF Fds
  <2>2. memfds[k].refs = Cardinality(Fds(k))
    BY DEF AreasInv
  <2>3. CASE k = m
    BY <2>1, <2>2, <2>3, <1>6, <1>7, <1>8 DEF had
  <2>4. CASE k # m
    BY <2>1, <2>2, <2>4, <1>8 DEF Extends
  <2> QED BY <2>3, <2>4
<1> QED BY <1>1, <1>3, <1>11, <1>12, MemfdKeeps
-----------------------------------------------------------------------------
(* Processes                                                               *)

LEMMA NoSpaceIs ==
  /\ NoSpace \in SpaceType /\ NoSpace.areas = {} /\ Tiled(NoSpace.areas)
  /\ Present(NoSpace.areas, NoSpace.pte) /\ \A M : Borrows(NoSpace.areas, NoSpace.pte, M)
  /\ \A m : BackedBy(NoSpace.areas, m) = {} /\ Cardinality(BackedBy(NoSpace.areas, m)) = 0
<1>1. NoSpace.areas = {} /\ NoSpace.pte = [p \in UserPages |-> Nothing] /\ NoSpace.brk = 0
  BY DEF NoSpace
<1> DEFINE P == [p \in UserPages |-> Nothing]
<1>2. P \in Ptes /\ \A p \in UserPages : P[p] \notin 1 .. FrameCount
  BY NumbersAre DEF Ptes, Nothing, Own
<1>3. NoSpace = [areas |-> {}, pte |-> P, brk |-> 0]
  BY DEF NoSpace
<1> HIDE DEF P
<1>4. NoSpace \in SpaceType
  BY <1>2, <1>3, NumbersAre DEF SpaceType
<1>5. Tiled({}) /\ Present({}, P)
  BY FS_EmptySet DEF Tiled, Present
<1>6. \A M : Borrows({}, P, M)
  BY <1>2 DEF Borrows
<1>7. \A m : BackedBy({}, m) = {} /\ Cardinality(BackedBy({}, m)) = 0
  BY FS_EmptySet DEF BackedBy
<1>8. NoSpace.areas = {} /\ NoSpace.pte = P
  BY <1>3
<1> QED BY <1>4, <1>5, <1>6, <1>7, <1>8

\* What is mapped is in use.
LEMMA MappedIsUsed ==
  ASSUME NEW A, NEW P, NEW M, AreasSound(A, P, M), NEW m \in Memfds, Cardinality(BackedBy(A, m)) # 0
  PROVE  M[m].used
<1>1. M[m].map_refs \in Nat /\ Cardinality(BackedBy(A, m)) \in Nat
  BY CountsAre
<1>2. Cardinality(BackedBy(A, m)) <= M[m].map_refs
  BY DEF AreasSound
<1>3. M[m].map_refs # 0
  BY <1>1, <1>2
<1> QED BY <1>3 DEF AreasSound, SlotsTold

LEMMA ForkKeepsAreas ==
  ASSUME AreasInv, NEW s \in alive, NEW child \in Spaces, fork_space(s, child)
  PROVE  AreasInv'
<1>1. /\ s \in Spaces /\ memfdFds \in [Spaces -> SUBSET Memfds] /\ memfds \in [Memfds -> SlotType]
      /\ mm \in [Spaces -> SpaceType] /\ alive \subseteq Spaces
  BY DEF AreasInv, AreasTypes
<1> DEFINE X == mm[s]
           held == retain_maps(memfds, X.areas)
           more(m) == IF m \in memfdFds[s] THEN 1 ELSE 0
<1>2. /\ child \notin alive /\ alive' = alive \cup {child} /\ mm' = [mm EXCEPT ![child] = X]
      /\ memfdFds' = [memfdFds EXCEPT ![child] = memfdFds[s]]
  BY DEF fork_space
<1>3. memfds' = [m \in Memfds |-> [held[m] EXCEPT !.refs = @ + more(m)]]
  BY DEF fork_space
<1>4. mm[child] = NoSpace /\ memfdFds[child] = {} /\ s # child
  BY <1>2 DEF AreasInv
<1>5. X \in SpaceType /\ AreasSound(X.areas, X.pte, memfds)
  BY <1>1 DEF AreasInv
<1> HIDE DEF X
<1>6. Tiled(X.areas) /\ Present(X.areas, X.pte) /\ SlotsTold(memfds) /\ IsFiniteSet(X.areas)
  BY <1>5 DEF AreasSound, Tiled
<1>7. \A m \in Memfds : Cardinality(BackedBy(X.areas, m)) # 0 => memfds[m].used
  BY <1>5, MappedIsUsed
<1>8. /\ SlotsTold(held)
      /\ \A m \in Memfds :
           /\ held[m].map_refs = memfds[m].map_refs + Cardinality(BackedBy(X.areas, m))
           /\ held[m].refs = memfds[m].refs /\ held[m].used = memfds[m].used
           /\ held[m].pages = memfds[m].pages
  BY <1>6, <1>7, RetainIs
<1> HIDE DEF held
<1>9. ASSUME NEW m \in Memfds
      PROVE  /\ memfds'[m] \in SlotType /\ memfds'[m].used = memfds[m].used
             /\ memfds'[m].refs = memfds[m].refs + more(m) /\ more(m) \in {0, 1}
             /\ memfds'[m].map_refs = held[m].map_refs /\ memfds'[m].pages = memfds[m].pages
  <2> DEFINE n == memfds[m].refs + more(m)
  <2>1. held[m] \in SlotType /\ memfds[m].refs \in Nat /\ more(m) \in {0, 1}
    BY <1>1, <1>8 DEF SlotsTold, SlotType
  <2>2. n \in Nat
    BY <2>1
  <2>3. memfds'[m] = [held[m] EXCEPT !.refs = n]
    BY <1>3, <1>8
  <2> HIDE DEF n, more
  <2>4. LET z == [held[m] EXCEPT !.refs = n] IN
         /\ z \in SlotType /\ z.used = held[m].used /\ z.refs = n /\ z.map_refs = held[m].map_refs
         /\ z.pages = held[m].pages
    BY <2>1, <2>2, SlotWithRefs
  <2> QED BY <2>1, <2>3, <2>4, <1>8 DEF n
<1>10. \A m \in memfdFds[s] : m \in Memfds /\ memfds[m].used
  BY <1>1, NamedIsUsed
<1>11. ASSUME NEW m \in Memfds PROVE memfds'[m].used <=> memfds'[m].refs # 0 \/ memfds'[m].map_refs # 0
  <2>1. memfds[m].refs \in Nat /\ memfds[m].map_refs \in Nat
    BY <1>1 DEF SlotType
  <2>2. Cardinality(BackedBy(X.areas, m)) \in Nat
    BY <1>6, BackedFinite
  <2>3. memfds[m].used <=> memfds[m].refs # 0 \/ memfds[m].map_refs # 0
    BY <1>6 DEF SlotsTold
  <2>4. more(m) = 1 => memfds[m].used
    BY <1>10
  <2>5. /\ memfds'[m].refs = memfds[m].refs + more(m) /\ more(m) \in {0, 1}
        /\ memfds'[m].map_refs = memfds[m].map_refs + Cardinality(BackedBy(X.areas, m))
        /\ memfds'[m].used = memfds[m].used
    BY <1>8, <1>9
  <2> HIDE DEF more
  <2>6. Cardinality(BackedBy(X.areas, m)) # 0 => memfds[m].used
    BY <1>7
  <2>7. memfds'[m].refs = 0 <=> memfds[m].refs = 0 /\ more(m) = 0
    BY <2>1, <2>5
  <2>8. memfds'[m].map_refs = 0 <=> memfds[m].map_refs = 0 /\ Cardinality(BackedBy(X.areas, m)) = 0
    BY <2>1, <2>2, <2>5
  <2> QED BY <2>3, <2>4, <2>5, <2>6, <2>7, <2>8
<1>12. memfds' = [m \in Memfds |-> memfds'[m]]
  BY <1>3
<1>13. SlotsTold(memfds')
  <2>1. memfds' \in [Memfds -> SlotType]
    BY <1>9, <1>12
  <2> QED BY <2>1, <1>11 DEF SlotsTold
<1>14. /\ \A r \in Spaces \ {child} : memfdFds'[r] = memfdFds[r]
       /\ memfdFds'[child] = memfdFds[s] /\ memfdFds' \in [Spaces -> SUBSET Memfds]
  BY <1>1, <1>2
<1>15. ASSUME NEW m \in Memfds PROVE memfds'[m].refs = Cardinality(Fds(m)')
  <2>1. child \notin Fds(m) /\ IsFiniteSet(Fds(m)) /\ Cardinality(Fds(m)) \in Nat
    BY <1>4, FdsFinite DEF Fds
  <2>2. memfds[m].refs = Cardinality(Fds(m))
    BY DEF AreasInv
  <2>3. CASE m \in memfdFds[s]
    <3>1. Fds(m)' = Fds(m) \cup {child}
      BY <1>14, <2>3 DEF Fds
    <3>2. Cardinality(Fds(m)') = Cardinality(Fds(m)) + 1
      BY <2>1, <3>1, FS_AddElement
    <3> QED BY <1>9, <2>2, <2>3, <3>2
  <2>4. CASE m \notin memfdFds[s]
    <3>1. Fds(m)' = Fds(m)
      BY <1>4, <1>14, <2>4 DEF Fds
    <3> QED BY <1>9, <2>1, <2>2, <2>4, <3>1
  <2> QED BY <2>3, <2>4
<1> HIDE DEF more
<1>16. ASSUME NEW m \in Memfds
       PROVE  memfds'[m].map_refs + Cardinality(BackedBy(mm[child].areas, m))
                = memfds[m].map_refs + Cardinality(BackedBy(X.areas, m))
  <2>1. Cardinality(BackedBy(mm[child].areas, m)) = 0
    BY <1>4, NoSpaceIs
  <2>2. memfds[m].map_refs \in Nat /\ Cardinality(BackedBy(X.areas, m)) \in Nat
    BY <1>1, <1>6, BackedFinite DEF SlotType
  <2> QED BY <1>8, <1>9, <2>1, <2>2
<1>17. \A m \in Memfds : Extends(memfds[m].pages, memfds'[m].pages)
  BY <1>9 DEF Extends
<1>18. Borrows(X.areas, X.pte, memfds')
  BY <1>5, <1>17, BorrowsStill
<1>19. StepTold(child, X)
  BY <1>6, <1>13, <1>15, <1>16, <1>17, <1>18 DEF StepTold
<1>20. \A r \in Spaces \ alive' : mm'[r] = NoSpace /\ memfdFds'[r] = {}
  <2> SUFFICES ASSUME NEW r \in Spaces \ alive' PROVE mm'[r] = NoSpace /\ memfdFds'[r] = {}
    OBVIOUS
  <2>1. r \notin alive /\ r # child
    BY <1>2
  <2> QED BY <1>1, <1>2, <1>14, <2>1 DEF AreasInv
<1>21. alive' \subseteq Spaces
  BY <1>1, <1>2
<1> QED BY <1>2, <1>5, <1>14, <1>19, <1>20, <1>21, StepKeeps

LEMMA ExitKeeps ==
  ASSUME AreasInv, NEW s \in alive, exit_space(s)
  PROVE  AreasInv'
<1>1. /\ s \in Spaces /\ memfdFds \in [Spaces -> SUBSET Memfds] /\ memfds \in [Memfds -> SlotType]
      /\ mm \in [Spaces -> SpaceType] /\ alive \subseteq Spaces
  BY DEF AreasInv, AreasTypes
<1> DEFINE A == mm[s].areas
           left == drop_backings(memfds, A)
<1>2. /\ alive' = alive \ {s} /\ mm' = [mm EXCEPT ![s] = NoSpace]
      /\ memfdFds' = [memfdFds EXCEPT ![s] = {}]
      /\ memfds' = [m \in Memfds |-> IF m \in memfdFds[s] /\ left[m].used
                     THEN memfd_maybe_reset([left[m] EXCEPT !.refs = @ - 1])
                     ELSE left[m]]
  BY DEF exit_space
<1>3. AreasSound(A, mm[s].pte, memfds)
  BY <1>1 DEF AreasInv
<1> HIDE DEF A
<1>4. SlotsTold(memfds) /\ IsFiniteSet(A)
      /\ \A m \in Memfds : Cardinality(BackedBy(A, m)) <= memfds[m].map_refs
  BY <1>3 DEF AreasSound, Tiled
<1>5. /\ SlotsTold(left)
      /\ \A m \in Memfds :
           /\ left[m].map_refs + Cardinality(BackedBy(A, m)) = memfds[m].map_refs
           /\ left[m].refs = memfds[m].refs
           /\ left[m].used => memfds[m].used /\ left[m].pages = memfds[m].pages
  BY <1>4, DropIs
<1> HIDE DEF left
<1>6. /\ \A r \in Spaces \ {s} : memfdFds'[r] = memfdFds[r]
      /\ memfdFds'[s] = {} /\ memfdFds' \in [Spaces -> SUBSET Memfds]
  BY <1>1, <1>2
<1>7. ASSUME NEW m \in Memfds
      PROVE  /\ memfds'[m] \in SlotType /\ memfds'[m].map_refs = left[m].map_refs
             /\ memfds'[m].refs = Cardinality(Fds(m)')
             /\ (memfds'[m].used <=> memfds'[m].refs # 0 \/ memfds'[m].map_refs # 0)
             /\ (memfds'[m].used => memfds'[m].pages = memfds[m].pages)
  <2>1. /\ left[m] \in SlotType /\ left[m].refs = Cardinality(Fds(m))
        /\ (left[m].used <=> left[m].refs # 0 \/ left[m].map_refs # 0)
        /\ (left[m].used => left[m].pages = memfds[m].pages)
    BY <1>5 DEF SlotsTold, AreasInv
  <2>2. IsFiniteSet(Fds(m)) /\ Cardinality(Fds(m)) \in Nat
    BY FdsFinite
  <2>3. CASE m \in memfdFds[s]
    <3> DEFINE n == left[m].refs - 1
               y == [left[m] EXCEPT !.refs = n]
    <3>1. s \in Fds(m)
      BY <1>1, <2>3 DEF Fds
    <3>2. Cardinality(Fds(m)) # 0
      BY <2>2, <3>1, FS_EmptySet
    <3>3. left[m].used /\ n \in Nat
      BY <2>1, <2>2, <3>2
    <3>4. Fds(m)' = Fds(m) \ {s}
      BY <1>1, <1>6 DEF Fds
    <3>5. Cardinality(Fds(m)') = Cardinality(Fds(m)) - 1
      BY <2>2, <3>1, <3>4, FS_RemoveElement
    <3>6. memfds'[m] = memfd_maybe_reset(y)
      BY <1>2, <2>3, <3>3
    <3>7. Cardinality(Fds(m)') = n
      BY <2>1, <3>5
    <3> HIDE DEF n
    <3>8. y \in SlotType /\ y.used = left[m].used /\ y.refs = n /\ y.map_refs = left[m].map_refs
          /\ y.pages = left[m].pages
      BY <2>1, <3>3, SlotWithRefs
    <3> HIDE DEF y
    <3>9. LET z == memfd_maybe_reset(y) IN
         /\ z \in SlotType /\ z.refs = y.refs /\ z.map_refs = y.map_refs
         /\ (z.used <=> z.refs # 0 \/ z.map_refs # 0) /\ (z.used => z.pages = y.pages)
      BY <3>3, <3>8, ResetIs
    <3> QED BY <2>1, <3>3, <3>6, <3>7, <3>8, <3>9
  <2>4. CASE m \notin memfdFds[s]
    <3>1. Fds(m)' = Fds(m)
      BY <1>1, <1>6, <2>4 DEF Fds
    <3>2. memfds'[m] = left[m]
      BY <1>2, <2>4
    <3> QED BY <2>1, <3>1, <3>2
  <2> QED BY <2>3, <2>4
<1>8. memfds' = [m \in Memfds |-> memfds'[m]]
  BY <1>2
<1>9. SlotsTold(memfds')
  <2>1. memfds' \in [Memfds -> SlotType]
    BY <1>7, <1>8
  <2> QED BY <2>1, <1>7 DEF SlotsTold
<1>10. ASSUME NEW m \in Memfds
       PROVE  /\ memfds'[m].map_refs + Cardinality(BackedBy(mm[s].areas, m))
                   = memfds[m].map_refs + Cardinality(BackedBy(NoSpace.areas, m))
              /\ memfds'[m].map_refs # 0 => Extends(memfds[m].pages, memfds'[m].pages)
  <2>1. Cardinality(BackedBy(NoSpace.areas, m)) = 0 /\ memfds[m].map_refs \in Nat
    BY <1>1, NoSpaceIs DEF SlotType
  <2>2. memfds'[m].map_refs + Cardinality(BackedBy(mm[s].areas, m)) = memfds[m].map_refs
    BY <1>5, <1>7 DEF A
  <2>3. memfds'[m].map_refs # 0 => memfds'[m].pages = memfds[m].pages
    BY <1>7
  <2> QED BY <2>1, <2>2, <2>3 DEF Extends
<1>11. StepTold(s, NoSpace)
  BY <1>7, <1>9, <1>10, NoSpaceIs DEF StepTold
<1>12. \A r \in Spaces \ alive' : mm'[r] = NoSpace /\ memfdFds'[r] = {}
  <2> SUFFICES ASSUME NEW r \in Spaces \ alive' PROVE mm'[r] = NoSpace /\ memfdFds'[r] = {}
    OBVIOUS
  <2>1. CASE r = s
    BY <1>1, <1>2, <1>6, <2>1
  <2>2. CASE r # s
    <3>1. r \notin alive
      BY <1>2, <2>2
    <3> QED BY <1>1, <1>2, <1>6, <2>2, <3>1 DEF AreasInv
  <2> QED BY <2>1, <2>2
<1>13. alive' \subseteq Spaces /\ NoSpace \in SpaceType
  BY <1>1, <1>2, NoSpaceIs
<1> QED BY <1>1, <1>2, <1>6, <1>11, <1>12, <1>13, StepKeeps
-----------------------------------------------------------------------------
(* The specification                                                       *)

LEMMA AreasInitInv == AreasInit => AreasInv
<1> SUFFICES ASSUME AreasInit PROVE AreasInv
  OBVIOUS
<1>1. /\ mm = [s \in Spaces |-> NoSpace] /\ memfds = [m \in Memfds |-> NoMemfd]
      /\ memfdFds = [s \in Spaces |-> {}] /\ alive = {FirstSpace}
  BY DEF AreasInit
<1>2. AreasTypes
  BY <1>1, NoSpaceIs, NoMemfdIs, NumbersAre DEF AreasTypes
<1>3. SlotsTold(memfds)
  BY <1>1, NoMemfdIs DEF SlotsTold
<1>4. \A s \in Spaces : AreasSound(mm[s].areas, mm[s].pte, memfds)
  <2>1. NoSpace.pte \in Ptes
    BY NoSpaceIs DEF SpaceType
  <2>2. \A m \in Memfds : Cardinality(BackedBy(NoSpace.areas, m)) <= memfds[m].map_refs
    BY <1>1, NoSpaceIs, NoMemfdIs
  <2>3. AreasSound(NoSpace.areas, NoSpace.pte, memfds)
    BY <1>3, <2>1, <2>2, NoSpaceIs DEF AreasSound
  <2> QED BY <1>1, <2>3
<1>5. ASSUME NEW m \in Memfds
      PROVE  memfds[m].refs = Cardinality(Fds(m)) /\ memfds[m].map_refs = Cardinality(Maps(m))
  <2>1. Fds(m) = {}
    BY <1>1 DEF Fds
  <2>2. \A s \in Spaces : BackedBy(mm[s].areas, m) = {}
    BY <1>1, NoSpaceIs
  <2>3. Maps(m) = {}
    BY <2>2 DEF Maps
  <2> QED BY <1>1, <2>1, <2>3, NoMemfdIs, FS_EmptySet
<1>6. \A s \in Spaces \ alive : mm[s] = NoSpace /\ memfdFds[s] = {}
  BY <1>1
<1> QED BY <1>2, <1>4, <1>5, <1>6 DEF AreasInv

LEMMA AreasInvSafe == AreasInv => AreasSafe
<1> SUFFICES ASSUME AreasInv PROVE AreasSafe
  OBVIOUS
<1>1. /\ mm \in [Spaces -> SpaceType] /\ memfds \in [Memfds -> SlotType]
      /\ memfdFds \in [Spaces -> SUBSET Memfds] /\ alive \subseteq Spaces
  BY DEF AreasInv, AreasTypes
<1>2. \A s \in Spaces : AreasSound(mm[s].areas, mm[s].pte, memfds)
  BY DEF AreasInv
<1>3. AreasTypeOK
  BY <1>1 DEF AreasTypeOK, SpaceType, SlotType, Ptes
<1>4. MemfdCountsExact
  <2> SUFFICES ASSUME NEW m \in Memfds
               PROVE  /\ memfds[m].refs = Cardinality(Fds(m))
                      /\ memfds[m].map_refs = Cardinality(Maps(m))
                      /\ memfds[m].used <=> Fds(m) # {} \/ Maps(m) # {}
    BY DEF MemfdCountsExact, Fds, Maps, BackedBy
  <2>1. memfds[m].refs = Cardinality(Fds(m)) /\ memfds[m].map_refs = Cardinality(Maps(m))
    BY DEF AreasInv
  <2> DEFINE G == [r \in Spaces |-> mm[r].areas]
  <2>2. \A r \in Spaces : IsFiniteSet(G[r])
    BY <1>2 DEF AreasSound, Tiled
  <2>3. Maps(m) = MapsOf(G, m)
    BY DEF MapsOf, Tags, Tag, Maps
  <2> HIDE DEF G
  <2>4. IsFiniteSet(Maps(m)) /\ IsFiniteSet(Fds(m))
    BY <2>2, <2>3, NumbersAre, TagsFinite, FdsFinite DEF MapsOf
  <2>5. memfds[m].used <=> memfds[m].refs # 0 \/ memfds[m].map_refs # 0
    BY <1>2, NumbersAre DEF AreasSound, SlotsTold
  <2> QED BY <2>1, <2>4, <2>5, FS_EmptySet
<1>5. BorrowedPagesAreShared
  BY <1>2 DEF BorrowedPagesAreShared, AreasSound, Borrows, Shows
<1>6. AreasDisjoint
  BY <1>2 DEF AreasDisjoint, AreasSound, Tiled
<1> QED BY <1>3, <1>4, <1>5, <1>6 DEF AreasSafe

LEMMA AreasStep ==
  ASSUME AreasInv, MapsIntoHeap = FALSE, RemapsShared = FALSE, AreasNext
  PROVE  AreasInv'
<1>1. PICK s \in alive :
    \/ memfd_create(s)
    \/ \E m \in Memfds : memfd_close(s, m) \/ \E n \in 0 .. MemfdPages : memfd_truncate(s, m, n)
    \/ \E n \in 1 .. LastPage - HeapPages :
         \/ s \in Mappers /\ \E m \in Memfds \cup {Anonymous}, o \in 0 .. MemfdPages - 1 :
              (m = Anonymous => o = 0) /\ \E fixed \in BOOLEAN : mmap(s, n, m, o, fixed)
         \/ \E a \in Targets(n) : munmap(s, a, n)
         \/ s \in Mappers /\ \E fixed \in BOOLEAN : mremap(s, n, fixed)
    \/ s \in Mappers /\ \E top \in 0 .. HeapPages : user_brk(s, top)
    \/ \E child \in Spaces : fork_space(s, child)
    \/ Cardinality(alive) > 1 /\ exit_space(s)
  BY DEF AreasNext
<1>2. CASE memfd_create(s)
  BY <1>2, CreateKeeps
<1>3. CASE \E m \in Memfds : memfd_close(s, m) \/ \E n \in 0 .. MemfdPages : memfd_truncate(s, m, n)
  BY <1>3, MemfdCloseKeeps, TruncateKeeps
<1>4. ASSUME NEW n \in 1 .. LastPage - HeapPages,
             \E m \in Memfds \cup {Anonymous}, o \in 0 .. MemfdPages - 1 :
               \E fixed \in BOOLEAN : mmap(s, n, m, o, fixed)
      PROVE  AreasInv'
  BY <1>4, MmapKeeps
<1>5. ASSUME NEW n \in 1 .. LastPage - HeapPages, \E a \in Targets(n) : munmap(s, a, n)
      PROVE  AreasInv'
  BY <1>5, MunmapKeeps
<1>6. ASSUME NEW n \in 1 .. LastPage - HeapPages, NEW fixed \in BOOLEAN, mremap(s, n, fixed)
      PROVE  AreasInv'
  <2>1. PICK x \in mm[s].areas : RemapsInPlace(s, x, n) \/ RemapMoves(s, x, n, fixed)
    BY <1>6 DEF mremap
  <2> QED BY <2>1, RemapInPlaceKeeps, RemapMovesKeeps
<1>7. CASE \E top \in 0 .. HeapPages : user_brk(s, top)
  BY <1>7, BrkKeeps
<1>8. CASE \E child \in Spaces : fork_space(s, child)
  BY <1>8, ForkKeepsAreas
<1>9. CASE exit_space(s)
  BY <1>9, ExitKeeps
<1> QED BY <1>1, <1>2, <1>3, <1>4, <1>5, <1>6, <1>7, <1>8, <1>9

LEMMA AreasStutter ==
  ASSUME AreasInv, UNCHANGED areaVars
  PROVE  AreasInv'
<1>1. mm' = mm /\ memfds' = memfds /\ memfdFds' = memfdFds /\ alive' = alive
  BY DEF areaVars
<1>2. \A m : Fds(m)' = Fds(m) /\ Maps(m)' = Maps(m)
  BY <1>1 DEF Fds, Maps
<1>3. AreasTypes'
  BY <1>1 DEF AreasInv, AreasTypes
<1> QED BY <1>1, <1>2, <1>3 DEF AreasInv

\* While no program grows a shared memfd area out of its place or maps at the
\* addresses of the heap, in any number of processes with any calls: the two
\* counts of every memfd are its descriptors and its areas, a page borrowed
\* from a memfd is at the offset its area says, and areas do not overlap.
THEOREM AreasAreSafe ==
  ASSUME RemapsShared = FALSE, MapsIntoHeap = FALSE
  PROVE  AreasSpec => []AreasSafe
<1>1. AreasInv /\ [AreasNext]_areaVars => AreasInv'
  BY AreasStep, AreasStutter
<1> QED BY <1>1, AreasInitInv, AreasInvSafe, PTL DEF AreasSpec
=============================================================================
