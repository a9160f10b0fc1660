---------------------------- MODULE DeviceProofs ----------------------------
(***************************************************************************)
(* The safety of the two USB drivers, for rings of any size and any number *)
(* of transfers, sectors and commands, and of the desktop's four parts,    *)
(* for any number of windows, slots, programs, surfaces and events.        *)
(***************************************************************************)
EXTENDS Drivers, Desktop, FiniteSetTheorems, FunctionTheorems, SequenceTheorems,
        NaturalsInduction, WellFoundedInduction, TLAPS

(* A transfer ring: r is its entries, d where the driver is, c where the    *)
(* controller is, q what is posted and not carried out.                     *)

Bit == {0, 1}
TrbState == [type : {"normal", "link"}, cycle : Bit, serial : Nat]
RingState == [0 .. LinkAt -> TrbState]
PlaceState == [idx : 0 .. LinkAt, cycle : Bit]

\* The entries the driver has filled in this lap carry its bit, the others,
\* and the link that ends the ring, the opposite.
BitsTold(r, d) ==
  /\ \A i \in 0 .. LinkAt - 1 :
       r[i].type = "normal" /\ r[i].cycle = (IF i < d.idx THEN d.cycle ELSE 1 - d.cycle)
  /\ r[LinkAt].type = "link" /\ r[LinkAt].cycle = 1 - d.cycle

\* The controller is in the driver's lap, or in the one before it.
Between(d, c, n) ==
  \/ c.cycle = d.cycle /\ c.idx <= d.idx /\ n = d.idx - c.idx
  \/ c.cycle = 1 - d.cycle /\ d.idx <= c.idx /\ n = (LinkAt - c.idx) + d.idx

\* The entry that is j places after place k, the link left out.
EntryAt(k, j) == IF k + j < LinkAt THEN k + j ELSE (k + j) - LinkAt
Holds(r, c, q) == \A j \in 1 .. Len(q) : r[EntryAt(c.idx, j - 1)].serial = q[j]

TransferRing(r, d, c, q) ==
  /\ r \in RingState /\ d \in PlaceState /\ c \in PlaceState /\ q \in Seq(Nat)
  /\ BitsTold(r, d) /\ Between(d, c, Len(q)) /\ Holds(r, c, q)

\* The ring has room for the link and one entry at least.
LEMMA LinkIs == LinkAt \in Nat /\ LinkAt >= 1
  BY XhciAssumption DEF LinkAt

\* The places of a driver that posts.
LEMMA OnwardIs ==
  ASSUME NEW d \in PlaceState
  PROVE  /\ PostPlace(d) \in [idx : 0 .. LinkAt - 1, cycle : Bit]
         /\ Onward(d) \in PlaceState
         /\ Onward(d).idx = PostPlace(d).idx + 1 /\ Onward(d).cycle = PostPlace(d).cycle
         /\ d.idx # LinkAt => PostPlace(d) = d
         /\ d.idx = LinkAt => PostPlace(d).idx = 0 /\ PostPlace(d).cycle = 1 - d.cycle
<1>1. PostPlace(d) \in [idx : 0 .. LinkAt - 1, cycle : Bit]
  <2>1. CASE d.idx = LinkAt
    BY <2>1, LinkIs DEF PostPlace, PlaceState, Bit
  <2>2. CASE d.idx # LinkAt
    <3>1. d.idx \in 0 .. LinkAt - 1
      BY <2>2, LinkIs DEF PlaceState
    <3> QED BY <2>2, <3>1 DEF PostPlace, PlaceState
  <2> QED BY <2>1, <2>2
<1>2. Onward(d).idx = PostPlace(d).idx + 1 /\ Onward(d).cycle = PostPlace(d).cycle
  BY <1>1 DEF Onward
<1>3. Onward(d) \in PlaceState
  BY <1>1, <1>2, LinkIs DEF Onward, PlaceState
<1>4. d.idx # LinkAt => PostPlace(d) = d
  BY DEF PostPlace
<1>5. d.idx = LinkAt => PostPlace(d).idx = 0 /\ PostPlace(d).cycle = 1 - d.cycle
  BY DEF PostPlace
<1> QED BY <1>1, <1>2, <1>3, <1>4, <1>5

\* What the ring holds after a post: the new entry, the link if it was passed,
\* and the rest as before.
LEMMA PostedIs ==
  ASSUME NEW r \in RingState, NEW d \in PlaceState, NEW s \in Nat
  PROVE  LET p == PostedRing(r, d, s) IN
         /\ p \in RingState
         /\ \A i \in 0 .. LinkAt - 1 :
              p[i] = IF i = PostPlace(d).idx
                       THEN [type |-> "normal", cycle |-> PostPlace(d).cycle, serial |-> s]
                       ELSE r[i]
         /\ p[LinkAt] = IF d.idx = LinkAt THEN [type |-> "link", cycle |-> d.cycle, serial |-> 0]
                        ELSE r[LinkAt]
<1> DEFINE n == [type |-> "normal", cycle |-> PostPlace(d).cycle, serial |-> s]
           l == [type |-> "link", cycle |-> d.cycle, serial |-> 0]
           k == PostPlace(d).idx
<1>1. k \in 0 .. LinkAt - 1 /\ PostPlace(d).cycle \in Bit
  BY OnwardIs
<1>2. n \in TrbState
  BY <1>1 DEF TrbState
<1>3. l \in TrbState
  BY DEF TrbState, PlaceState
<1>4. LinkAt \in 0 .. LinkAt /\ k \in 0 .. LinkAt /\ k # LinkAt
  BY <1>1, LinkIs
<1>5. PostedRing(r, d, s) = [Linked(r, d) EXCEPT ![k] = n]
  BY DEF PostedRing
<1>6. Linked(r, d) = IF d.idx = LinkAt THEN [r EXCEPT ![LinkAt] = l] ELSE r
  BY DEF Linked
<1> HIDE DEF n, l, k
<1>7. Linked(r, d) \in RingState
  BY <1>3, <1>4, <1>6 DEF RingState
<1>8. \A i \in 0 .. LinkAt : Linked(r, d)[i] = IF d.idx = LinkAt /\ i = LinkAt THEN l ELSE r[i]
  BY <1>4, <1>6 DEF RingState
<1>9. PostedRing(r, d, s) \in RingState
  BY <1>2, <1>4, <1>5, <1>7 DEF RingState
<1>10. \A i \in 0 .. LinkAt : PostedRing(r, d, s)[i] = IF i = k THEN n ELSE Linked(r, d)[i]
  BY <1>4, <1>5, <1>7 DEF RingState
<1>11. \A i \in 0 .. LinkAt - 1 : i \in 0 .. LinkAt /\ i # LinkAt
  BY LinkIs
<1> QED BY <1>4, <1>8, <1>9, <1>10, <1>11 DEF n, l, k

\* A transfer posted while the ring has room is the last the controller comes to.
LEMMA PostKeeps ==
  ASSUME NEW r, NEW d, NEW c, NEW q, NEW s \in Nat,
         TransferRing(r, d, c, q), Len(q) < LinkAt
  PROVE  TransferRing(PostedRing(r, d, s), Onward(d), c, Append(q, s))
<1> DEFINE p == PostedRing(r, d, s)
           e == Onward(d)
           a == PostPlace(d)
<1>1. /\ r \in RingState /\ d \in PlaceState /\ c \in PlaceState /\ q \in Seq(Nat)
      /\ BitsTold(r, d) /\ Between(d, c, Len(q)) /\ Holds(r, c, q)
  BY DEF TransferRing
<1>2. /\ a \in [idx : 0 .. LinkAt - 1, cycle : Bit] /\ e \in PlaceState
      /\ e.idx = a.idx + 1 /\ e.cycle = a.cycle
      /\ d.idx # LinkAt => a = d
      /\ d.idx = LinkAt => a.idx = 0 /\ a.cycle = 1 - d.cycle
  BY <1>1, OnwardIs
<1>3. /\ p \in RingState
      /\ \A i \in 0 .. LinkAt - 1 :
           p[i] = IF i = a.idx THEN [type |-> "normal", cycle |-> a.cycle, serial |-> s] ELSE r[i]
      /\ p[LinkAt] = IF d.idx = LinkAt THEN [type |-> "link", cycle |-> d.cycle, serial |-> 0]
                     ELSE r[LinkAt]
  BY <1>1, PostedIs
<1>4. Append(q, s) \in Seq(Nat) /\ Len(Append(q, s)) = Len(q) + 1
      /\ \A j \in 1 .. Len(q) + 1 : Append(q, s)[j] = IF j = Len(q) + 1 THEN s ELSE q[j]
  BY <1>1
<1> DEFINE n == Len(q)
           qq == Append(q, s)
<1>5. n \in Nat
  BY <1>1
<1> HIDE DEF p, e, a, n, qq
<1>6. d.cycle \in Bit /\ c.cycle \in Bit /\ a.cycle \in Bit /\ d.idx \in 0 .. LinkAt
      /\ c.idx \in 0 .. LinkAt /\ a.idx \in 0 .. LinkAt - 1
  BY <1>1, <1>2 DEF PlaceState
<1>7. BitsTold(p, e)
  <2>1. CASE d.idx = LinkAt
    <3>1. \A i \in 0 .. LinkAt - 1 : r[i].type = "normal" /\ r[i].cycle = d.cycle
      BY <1>1, <2>1, LinkIs DEF BitsTold
    <3>2. \A i \in 0 .. LinkAt - 1 : i < e.idx <=> i = a.idx
      BY <1>2, <2>1
    <3>3. 1 - e.cycle = d.cycle
      BY <1>2, <1>6, <2>1 DEF Bit
    <3> QED BY <1>2, <1>3, <2>1, <3>1, <3>2, <3>3 DEF BitsTold
  <2>2. CASE d.idx # LinkAt
    <3>1. \A i \in 0 .. LinkAt - 1 : i < e.idx <=> (i = d.idx \/ i < d.idx)
      BY <1>2, <1>6, <2>2
    <3>2. a = d /\ e.cycle = d.cycle
      BY <1>2, <2>2
    <3> QED BY <1>1, <1>3, <2>2, <3>1, <3>2 DEF BitsTold
  <2> QED BY <2>1, <2>2
<1>8. Between(e, c, n + 1) /\ EntryAt(c.idx, n) = a.idx
  <2>1. Between(d, c, n) /\ n < LinkAt
    BY <1>1 DEF n
  <2>2. e.idx \in Int /\ e.cycle \in Bit
    BY <1>2, <1>6
  <2>3. CASE c.cycle = d.cycle /\ c.idx <= d.idx /\ n = d.idx - c.idx
    <3>1. CASE d.idx = LinkAt
      <4>1. e.idx = 1 /\ e.cycle = 1 - d.cycle /\ a.idx = 0
        BY <1>2, <3>1
      <4>2. c.idx >= 1 /\ c.idx + n = LinkAt
        BY <1>5, <1>6, <2>1, <2>3, <3>1, LinkIs
      <4>3. c.cycle = 1 - e.cycle
        BY <1>6, <2>3, <4>1 DEF Bit
      <4>4. n + 1 = (LinkAt - c.idx) + e.idx
        BY <1>5, <1>6, <2>3, <3>1, <4>1, LinkIs
      <4> QED BY <1>5, <1>6, <4>1, <4>2, <4>3, <4>4, LinkIs DEF Between, EntryAt
    <3>2. CASE d.idx # LinkAt
      <4>1. e.idx = d.idx + 1 /\ e.cycle = d.cycle /\ a.idx = d.idx
        BY <1>2, <3>2
      <4> QED BY <1>5, <1>6, <2>3, <3>2, <4>1, LinkIs DEF Between, EntryAt
    <3> QED BY <3>1, <3>2
  <2>4. CASE c.cycle = 1 - d.cycle /\ d.idx <= c.idx /\ n = (LinkAt - c.idx) + d.idx
    <3>1. d.idx < c.idx
      BY <1>5, <1>6, <2>1, <2>4, LinkIs
    <3>2. d.idx # LinkAt
      BY <1>6, <3>1
    <3>3. e.idx = d.idx + 1 /\ e.cycle = d.cycle /\ a.idx = d.idx
      BY <1>2, <3>2
    <3>4. /\ c.cycle = 1 - e.cycle /\ e.idx <= c.idx /\ n + 1 = (LinkAt - c.idx) + e.idx
      BY <1>5, <1>6, <2>4, <3>1, <3>3, LinkIs
    <3>5. ~ c.idx + n < LinkAt /\ (c.idx + n) - LinkAt = d.idx
      BY <1>5, <1>6, <2>4, LinkIs
    <3> QED BY <3>3, <3>4, <3>5 DEF Between, EntryAt
  <2> QED BY <2>1, <2>3, <2>4 DEF Between
<1>9. Holds(p, c, qq)
  <2>1. EntryAt(c.idx, n) = a.idx
    BY <1>8
  <2>2. ASSUME NEW j \in 1 .. n
        PROVE  EntryAt(c.idx, j - 1) \in 0 .. LinkAt - 1 /\ EntryAt(c.idx, j - 1) # a.idx
    <3>1. EntryAt(c.idx, j - 1) \in 0 .. LinkAt - 1
      BY <1>5, <1>6, LinkIs DEF EntryAt, n
    <3>2. EntryAt(c.idx, j - 1) # EntryAt(c.idx, n)
      <4>1. /\ j - 1 \in Nat /\ n \in Nat /\ j - 1 < n /\ n < LinkAt /\ c.idx \in Nat /\ LinkAt \in Nat
            /\ (c.idx + n) - LinkAt < c.idx + (j - 1)
        BY <1>5, <1>6, LinkIs DEF n
      <4>2. CASE c.idx + n < LinkAt
        BY <4>1, <4>2 DEF EntryAt
      <4>3. CASE ~ c.idx + n < LinkAt
        BY <4>1, <4>3 DEF EntryAt
      <4> QED BY <4>2, <4>3
    <3> QED BY <2>1, <3>1, <3>2
  <2>3. p[EntryAt(c.idx, n)].serial = s
    BY <1>3, <1>6, <2>1
  <2>4. \A j \in 1 .. n : p[EntryAt(c.idx, j - 1)].serial = q[j]
    BY <1>1, <1>3, <2>2 DEF Holds, n
  <2>5. Len(qq) = n + 1 /\ \A j \in 1 .. n + 1 : qq[j] = IF j = n + 1 THEN s ELSE q[j]
    BY <1>4 DEF qq, n
  <2>6. \A j \in 1 .. n + 1 : j \in 1 .. n \/ (j = n + 1 /\ j - 1 = n)
    BY <1>5
  <2>7. ASSUME NEW j \in 1 .. Len(qq)
        PROVE  p[EntryAt(c.idx, j - 1)].serial = qq[j]
    <3>1. j \in 1 .. n + 1 /\ qq[j] = IF j = n + 1 THEN s ELSE q[j]
      BY <2>5
    <3>2. CASE j = n + 1
      <4>1. j - 1 = n /\ qq[j] = s
        BY <1>5, <3>1, <3>2
      <4> QED BY <2>3, <4>1
    <3>3. CASE j # n + 1
      <4>1. j \in 1 .. n /\ qq[j] = q[j]
        BY <2>6, <3>1, <3>3
      <4> QED BY <2>4, <4>1
    <3> QED BY <3>2, <3>3
  <2> QED BY <2>7 DEF Holds
<1> QED BY <1>1, <1>2, <1>3, <1>4, <1>7, <1>8, <1>9 DEF TransferRing, p, e, n, qq

\* The parts of a transfer ring, with its numbers.
LEMMA RingParts ==
  ASSUME NEW r, NEW d, NEW c, NEW q, TransferRing(r, d, c, q)
  PROVE  /\ r \in RingState /\ d \in PlaceState /\ c \in PlaceState /\ q \in Seq(Nat)
         /\ BitsTold(r, d) /\ Between(d, c, Len(q)) /\ Holds(r, c, q)
         /\ d.cycle \in Bit /\ c.cycle \in Bit /\ Len(q) \in Nat
         /\ d.idx \in 0 .. LinkAt /\ c.idx \in 0 .. LinkAt /\ Len(q) <= LinkAt
<1>1. /\ r \in RingState /\ d \in PlaceState /\ c \in PlaceState /\ q \in Seq(Nat)
      /\ BitsTold(r, d) /\ Between(d, c, Len(q)) /\ Holds(r, c, q)
  BY DEF TransferRing
<1>2. d.cycle \in Bit /\ c.cycle \in Bit /\ d.idx \in 0 .. LinkAt /\ c.idx \in 0 .. LinkAt
  BY <1>1 DEF PlaceState
<1>3. Len(q) \in Nat
  BY <1>1
<1> DEFINE n == Len(q)
<1> HIDE DEF n
<1>4. n <= LinkAt
  <2>1. Between(d, c, n) /\ n \in Nat
    BY <1>1, <1>3 DEF n
  <2> QED BY <1>2, <2>1, LinkIs DEF Between
<1> QED BY <1>1, <1>2, <1>3, <1>4 DEF n

\* The controller owns the entry it is at exactly when something is posted: that
\* entry is the first of them, or the link before it.
LEMMA RingFinds ==
  ASSUME NEW r, NEW d, NEW c, NEW q, TransferRing(r, d, c, q)
  PROVE  /\ q # <<>> =>
              /\ r[c.idx].cycle = c.cycle
              /\ \/ r[c.idx].type = "normal" /\ c.idx < LinkAt /\ r[c.idx].serial = q[1]
                 \/ /\ r[c.idx].type = "link" /\ c.idx = LinkAt
                    /\ r[0].cycle = 1 - c.cycle /\ r[0].serial = q[1]
         /\ q = <<>> =>
              \/ r[c.idx].cycle # c.cycle
              \/ r[c.idx].type = "link" /\ c.idx = LinkAt /\ r[0].cycle # 1 - c.cycle
         /\ r[c.idx].type = "normal" <=> c.idx < LinkAt
         /\ r[c.idx].type = "link" <=> c.idx = LinkAt
         /\ r[c.idx].cycle = c.cycle /\ c.idx = LinkAt =>
              c.cycle = 1 - d.cycle /\ Len(q) = d.idx
<1> DEFINE n == Len(q)
<1>1. /\ q \in Seq(Nat) /\ BitsTold(r, d) /\ Holds(r, c, q)
      /\ d.cycle \in Bit /\ c.cycle \in Bit
      /\ d.idx \in 0 .. LinkAt /\ c.idx \in 0 .. LinkAt
  BY RingParts
<1>2. Between(d, c, n) /\ n \in Nat
  BY RingParts
<1>3. (q = <<>> <=> n = 0) /\ (n # 0 => r[EntryAt(c.idx, 0)].serial = q[1])
  BY <1>1 DEF Holds
<1> HIDE DEF n
<1>4. LinkAt - 1 \in Nat /\ 0 \in 0 .. LinkAt - 1
  BY LinkIs
<1>5. c.idx < LinkAt => c.idx \in 0 .. LinkAt - 1
  BY <1>1, LinkIs
<1>6. CASE c.idx < LinkAt
  <2>1. EntryAt(c.idx, 0) = c.idx
    BY <1>1, <1>6, LinkIs DEF EntryAt
  <2>2. r[c.idx].type = "normal" /\ r[c.idx].cycle = (IF c.idx < d.idx THEN d.cycle ELSE 1 - d.cycle)
    BY <1>1, <1>5, <1>6 DEF BitsTold
  <2>3. n # 0 <=> r[c.idx].cycle = c.cycle
    BY <1>1, <1>2, <1>6, <2>2, LinkIs DEF Between, Bit
  <2>4. c.idx # LinkAt
    BY <1>1, <1>6, LinkIs
  <2> QED BY <1>3, <1>6, <2>1, <2>2, <2>3, <2>4
<1>7. CASE c.idx = LinkAt
  <2>1. EntryAt(c.idx, 0) = 0
    BY <1>7, LinkIs DEF EntryAt
  <2>2. r[c.idx].type = "link" /\ r[c.idx].cycle = 1 - d.cycle
    BY <1>1, <1>7 DEF BitsTold
  <2>3. r[0].cycle = (IF 0 < d.idx THEN d.cycle ELSE 1 - d.cycle)
    BY <1>1, <1>4 DEF BitsTold
  <2>4. n # 0 => r[c.idx].cycle = c.cycle /\ r[0].cycle = 1 - c.cycle
    BY <1>1, <1>2, <1>7, <2>2, <2>3, LinkIs DEF Between, Bit
  <2>5. n = 0 => r[c.idx].cycle # c.cycle \/ r[0].cycle # 1 - c.cycle
    BY <1>1, <1>2, <1>7, <2>2, <2>3, LinkIs DEF Between, Bit
  <2>6. r[c.idx].cycle = c.cycle => c.cycle = 1 - d.cycle /\ n = d.idx
    BY <1>1, <1>2, <1>7, <2>2, LinkIs DEF Between, Bit
  <2>7. ~ c.idx < LinkAt
    BY <1>7, LinkIs
  <2> QED BY <1>3, <1>7, <2>1, <2>2, <2>4, <2>5, <2>6, <2>7 DEF n
<1> QED BY <1>1, <1>6, <1>7, LinkIs

\* The controller follows the link into the driver's lap.
LEMMA FollowKeeps ==
  ASSUME NEW r, NEW d, NEW c, NEW q, TransferRing(r, d, c, q),
         r[c.idx].cycle = c.cycle, r[c.idx].type = "link"
  PROVE  TransferRing(r, d, PastLink(c), q)
<1> DEFINE n == Len(q)
           e == PastLink(c)
<1>1. /\ r \in RingState /\ d \in PlaceState /\ c \in PlaceState
      /\ q \in Seq(Nat) /\ BitsTold(r, d) /\ Holds(r, c, q)
      /\ d.cycle \in Bit /\ c.cycle \in Bit
      /\ d.idx \in 0 .. LinkAt /\ c.idx \in 0 .. LinkAt
  BY RingParts
<1>2. n \in Nat /\ n <= LinkAt
  BY RingParts
<1>3. c.idx = LinkAt /\ c.cycle = 1 - d.cycle /\ n = d.idx
  BY RingFinds
<1>4. e.idx = 0 /\ e.cycle = d.cycle /\ e \in PlaceState
  <2>1. 1 - c.cycle = d.cycle /\ 0 \in 0 .. LinkAt
    BY <1>1, <1>3, LinkIs DEF Bit
  <2>2. e.idx = 0 /\ e.cycle = 1 - c.cycle
    BY <1>1 DEF PlaceState, PastLink
  <2>3. e \in PlaceState
    BY <1>1, <2>1 DEF PlaceState, PastLink
  <2> QED BY <2>1, <2>2, <2>3
<1> HIDE DEF e
<1>5. Between(d, e, n)
  BY <1>1, <1>3, <1>4, LinkIs DEF Between
<1>6. \A j \in 1 .. n : EntryAt(c.idx, j - 1) = EntryAt(e.idx, j - 1)
  BY <1>2, <1>3, <1>4, LinkIs DEF EntryAt
<1>7. Holds(r, e, q)
  BY <1>1, <1>6 DEF Holds
<1> QED BY <1>1, <1>4, <1>5, <1>7 DEF TransferRing, e

\* A transfer carried out is the first of those posted.
LEMMA CarryKeeps ==
  ASSUME NEW r, NEW d, NEW c, NEW q, TransferRing(r, d, c, q),
         r[c.idx].cycle = c.cycle, r[c.idx].type = "normal"
  PROVE  /\ q # <<>> /\ r[c.idx].serial = q[1]
         /\ TransferRing(r, d, [c EXCEPT !.idx = @ + 1], Tail(q))
<1> DEFINE n == Len(q)
           e == [c EXCEPT !.idx = @ + 1]
           t == Tail(q)
<1>1. /\ r \in RingState /\ d \in PlaceState /\ c \in PlaceState
      /\ q \in Seq(Nat) /\ BitsTold(r, d) /\ Holds(r, c, q)
      /\ d.cycle \in Bit /\ c.cycle \in Bit
      /\ d.idx \in 0 .. LinkAt /\ c.idx \in 0 .. LinkAt
  BY RingParts
<1>2. n \in Nat /\ n <= LinkAt /\ Between(d, c, n)
  BY RingParts
<1>3. c.idx < LinkAt
  BY RingFinds
<1>4. r[c.idx].type # "link"
  OBVIOUS
<1>5. q # <<>> /\ r[c.idx].serial = q[1]
  BY <1>4, RingFinds
<1>6. /\ t \in Seq(Nat) /\ Len(t) = n - 1 /\ n # 0
      /\ \A j \in 1 .. n - 1 : t[j] = q[j + 1]
  BY <1>1, <1>5
<1>7. e.idx = c.idx + 1 /\ e.cycle = c.cycle /\ e \in PlaceState
  BY <1>1, <1>3, LinkIs DEF PlaceState
<1>8. r[c.idx].cycle = (IF c.idx < d.idx THEN d.cycle ELSE 1 - d.cycle)
  BY <1>1, <1>3, LinkIs DEF BitsTold
<1> HIDE DEF n, e, t
<1>9. Between(d, e, n - 1)
  <2>1. CASE c.idx < d.idx
    <3>1. c.cycle = d.cycle
      BY <1>8, <2>1
    <3>2. n = d.idx - c.idx
      BY <1>1, <1>2, <2>1, <3>1, LinkIs DEF Between, Bit
    <3> QED BY <1>1, <1>7, <2>1, <3>1, <3>2, LinkIs DEF Between
  <2>2. CASE ~ c.idx < d.idx
    <3>1. c.cycle = 1 - d.cycle
      BY <1>8, <2>2
    <3>2. n = (LinkAt - c.idx) + d.idx
      BY <1>1, <1>2, <2>2, <3>1, LinkIs DEF Between, Bit
    <3>3. d.idx <= e.idx /\ n - 1 = (LinkAt - e.idx) + d.idx
      BY <1>1, <1>3, <1>7, <2>2, <3>2, LinkIs
    <3> QED BY <1>7, <3>1, <3>3 DEF Between
  <2> QED BY <2>1, <2>2
<1>10. \A j \in 1 .. n - 1 : EntryAt(e.idx, j - 1) = EntryAt(c.idx, (j + 1) - 1)
  BY <1>1, <1>2, <1>3, <1>7, LinkIs DEF EntryAt
<1>11. \A j \in 1 .. n - 1 : j + 1 \in 1 .. n
  BY <1>2, <1>6
<1>12. Holds(r, e, t)
  <2>1. \A j \in 1 .. n : r[EntryAt(c.idx, j - 1)].serial = q[j]
    BY <1>1 DEF Holds, n
  <2>2. \A j \in 1 .. n - 1 : r[EntryAt(c.idx, (j + 1) - 1)].serial = q[j + 1]
    BY <1>11, <2>1
  <2>3. \A j \in 1 .. n - 1 : r[EntryAt(e.idx, j - 1)].serial = t[j]
    BY <1>6, <1>10, <2>2
  <2> QED BY <1>6, <2>3 DEF Holds
<1> QED BY <1>1, <1>5, <1>6, <1>7, <1>9, <1>12 DEF TransferRing, e, t

-----------------------------------------------------------------------------
(* The event ring: r is its entries, d where the driver is, w where the      *)
(* controller writes, q the events written and not taken.                    *)

EventState == [type : {"none", "transfer", "command"}, cycle : Bit, ep : Endpoints, serial : Nat]
Event == [type : {"transfer", "command"}, ep : Endpoints, serial : Nat]
EventPlace == [idx : 0 .. EventRingSize - 1, cycle : Bit]
Content(x) == [type |-> x.type, ep |-> x.ep, serial |-> x.serial]

EventBits(r, w) ==
  \A i \in 0 .. EventRingSize - 1 : r[i].cycle = (IF i < w.idx THEN w.cycle ELSE 1 - w.cycle)

\* The driver is in the controller's lap, or in the one before it.
Behind(d, w, m) ==
  \/ d.cycle = w.cycle /\ d.idx <= w.idx /\ m = w.idx - d.idx
  \/ d.cycle = 1 - w.cycle /\ w.idx < d.idx /\ m = (EventRingSize - d.idx) + w.idx

SlotAt(k, j) == IF k + j < EventRingSize THEN k + j ELSE (k + j) - EventRingSize
Carries(r, d, q) == \A j \in 1 .. Len(q) : Content(r[SlotAt(d.idx, j - 1)]) = q[j]

EventsRing(r, d, w, q) ==
  /\ r \in [0 .. EventRingSize - 1 -> EventState] /\ d \in EventPlace /\ w \in EventPlace
  /\ q \in Seq(Event)
  /\ EventBits(r, w) /\ Behind(d, w, Len(q)) /\ Carries(r, d, q)

\* The parts of the event ring, with its numbers.
LEMMA EventParts ==
  ASSUME NEW r, NEW d, NEW w, NEW q, EventsRing(r, d, w, q)
  PROVE  /\ r \in [0 .. EventRingSize - 1 -> EventState] /\ d \in EventPlace /\ w \in EventPlace
         /\ q \in Seq(Event) /\ EventBits(r, w) /\ Behind(d, w, Len(q)) /\ Carries(r, d, q)
         /\ d.cycle \in Bit /\ w.cycle \in Bit /\ Len(q) \in Nat
         /\ d.idx \in 0 .. EventRingSize - 1 /\ w.idx \in 0 .. EventRingSize - 1
         /\ EventRingSize \in Nat /\ EventRingSize > 1 /\ Len(q) < EventRingSize
<1>1. /\ r \in [0 .. EventRingSize - 1 -> EventState] /\ d \in EventPlace /\ w \in EventPlace
      /\ q \in Seq(Event) /\ EventBits(r, w) /\ Behind(d, w, Len(q)) /\ Carries(r, d, q)
  BY DEF EventsRing
<1>2. EventRingSize \in Nat /\ EventRingSize > 1
  BY XhciAssumption
<1>3. /\ d.cycle \in Bit /\ w.cycle \in Bit
      /\ d.idx \in 0 .. EventRingSize - 1 /\ w.idx \in 0 .. EventRingSize - 1
  BY <1>1 DEF EventPlace
<1>4. Len(q) \in Nat
  BY <1>1
<1> DEFINE m == Len(q)
<1> HIDE DEF m
<1>5. m < EventRingSize
  <2>1. Behind(d, w, m) /\ m \in Nat
    BY <1>1, <1>4 DEF m
  <2> QED BY <1>2, <1>3, <2>1 DEF Behind
<1> QED BY <1>1, <1>2, <1>3, <1>4, <1>5 DEF m

\* The next place of the driver or of the controller.
LEMMA AdvancedIs ==
  ASSUME NEW e \in EventPlace
  PROVE  /\ AdvancedEvent(e) \in EventPlace
         /\ e.idx + 1 < EventRingSize =>
              AdvancedEvent(e).idx = e.idx + 1 /\ AdvancedEvent(e).cycle = e.cycle
         /\ ~ e.idx + 1 < EventRingSize =>
              /\ e.idx = EventRingSize - 1
              /\ AdvancedEvent(e).idx = 0 /\ AdvancedEvent(e).cycle = 1 - e.cycle
<1>1. EventRingSize \in Nat /\ EventRingSize > 1
  BY XhciAssumption
<1>2. e.idx \in 0 .. EventRingSize - 1 /\ e.cycle \in Bit
  BY DEF EventPlace
<1>3. CASE e.idx + 1 < EventRingSize
  <2>1. AdvancedEvent(e) = [e EXCEPT !.idx = @ + 1]
    BY <1>1, <1>2, <1>3 DEF AdvancedEvent
  <2>2. e.idx + 1 \in 0 .. EventRingSize - 1
    BY <1>1, <1>2, <1>3
  <2> QED BY <1>3, <2>1, <2>2 DEF EventPlace
<1>4. CASE ~ e.idx + 1 < EventRingSize
  <2>1. AdvancedEvent(e) = [idx |-> 0, cycle |-> 1 - e.cycle]
    BY <1>1, <1>2, <1>4 DEF AdvancedEvent
  <2>2. 1 - e.cycle \in Bit /\ 0 \in 0 .. EventRingSize - 1 /\ e.idx = EventRingSize - 1
    BY <1>1, <1>2, <1>4 DEF Bit
  <2> QED BY <1>4, <2>1, <2>2 DEF EventPlace
<1> QED BY <1>3, <1>4

\* An event is ready exactly when one is written and not taken, and it is the
\* oldest.
LEMMA EventSeen ==
  ASSUME NEW r, NEW d, NEW w, NEW q, EventsRing(r, d, w, q)
  PROVE  /\ (r[d.idx].cycle = d.cycle /\ r[d.idx].type # "none") <=> q # <<>>
         /\ q # <<>> => Content(r[d.idx]) = q[1]
<1> DEFINE m == Len(q)
<1>1. /\ q \in Seq(Event) /\ EventBits(r, w) /\ Carries(r, d, q)
      /\ d.cycle \in Bit /\ w.cycle \in Bit
      /\ d.idx \in 0 .. EventRingSize - 1 /\ w.idx \in 0 .. EventRingSize - 1
      /\ EventRingSize \in Nat /\ EventRingSize > 1
  BY EventParts
<1>2. m \in Nat /\ Behind(d, w, m)
  BY EventParts
<1>3. (q = <<>> <=> m = 0) /\ (m # 0 => Content(r[SlotAt(d.idx, 0)]) = q[1] /\ q[1] \in Event)
  BY <1>1 DEF Carries
<1> HIDE DEF m
<1>4. SlotAt(d.idx, 0) = d.idx
  BY <1>1 DEF SlotAt
<1>5. r[d.idx].cycle = (IF d.idx < w.idx THEN w.cycle ELSE 1 - w.cycle)
  BY <1>1 DEF EventBits
<1>6. r[d.idx].cycle = d.cycle <=> m # 0
  BY <1>1, <1>2, <1>5 DEF Behind, Bit
<1>7. ASSUME m # 0 PROVE r[d.idx].type # "none"
  <2>1. Content(r[d.idx]).type = q[1].type
    BY <1>3, <1>4, <1>7
  <2>2. q[1].type \in {"transfer", "command"}
    BY <1>3, <1>7 DEF Event
  <2> QED BY <2>1, <2>2 DEF Content
<1> QED BY <1>3, <1>4, <1>6, <1>7

\* Taking an event leaves the others.
LEMMA TakeKeeps ==
  ASSUME NEW r, NEW d, NEW w, NEW q, EventsRing(r, d, w, q), q # <<>>
  PROVE  EventsRing(r, AdvancedEvent(d), w, Tail(q))
<1> DEFINE m == Len(q)
           e == AdvancedEvent(d)
           t == Tail(q)
<1>1. /\ r \in [0 .. EventRingSize - 1 -> EventState] /\ d \in EventPlace /\ w \in EventPlace
      /\ q \in Seq(Event) /\ EventBits(r, w) /\ Carries(r, d, q)
      /\ d.cycle \in Bit /\ w.cycle \in Bit
      /\ d.idx \in 0 .. EventRingSize - 1 /\ w.idx \in 0 .. EventRingSize - 1
      /\ EventRingSize \in Nat /\ EventRingSize > 1
  BY EventParts
<1>2. m \in Nat /\ Behind(d, w, m) /\ m < EventRingSize
  BY EventParts
<1>3. /\ t \in Seq(Event) /\ Len(t) = m - 1 /\ m # 0
      /\ \A j \in 1 .. m - 1 : t[j] = q[j + 1]
  BY <1>1
<1>4. /\ e \in EventPlace
      /\ d.idx + 1 < EventRingSize => e.idx = d.idx + 1 /\ e.cycle = d.cycle
      /\ ~ d.idx + 1 < EventRingSize =>
           d.idx = EventRingSize - 1 /\ e.idx = 0 /\ e.cycle = 1 - d.cycle
  BY <1>1, AdvancedIs
<1> HIDE DEF m, e, t
<1>5. Behind(e, w, m - 1)
  <2>1. /\ d.cycle \in Bit /\ w.cycle \in Bit /\ m \in Nat /\ m # 0
        /\ d.idx \in 0 .. EventRingSize - 1 /\ w.idx \in 0 .. EventRingSize - 1
        /\ EventRingSize \in Nat /\ EventRingSize > 1
    BY <1>1, <1>2, <1>3
  <2>2. CASE d.idx + 1 < EventRingSize
    <3>1. e.idx = d.idx + 1 /\ e.cycle = d.cycle
      BY <1>4, <2>2
    <3>2. CASE d.cycle = w.cycle /\ d.idx <= w.idx /\ m = w.idx - d.idx
      BY <2>1, <3>1, <3>2 DEF Behind
    <3>3. CASE d.cycle = 1 - w.cycle /\ w.idx < d.idx /\ m = (EventRingSize - d.idx) + w.idx
      BY <2>1, <3>1, <3>3 DEF Behind
    <3> QED BY <1>2, <3>2, <3>3 DEF Behind
  <2>3. CASE ~ d.idx + 1 < EventRingSize
    <3>1. d.idx = EventRingSize - 1 /\ e.idx = 0 /\ e.cycle = 1 - d.cycle
      BY <1>4, <2>3
    <3>2. d.cycle = 1 - w.cycle /\ m = 1 + w.idx
      BY <1>2, <2>1, <3>1 DEF Behind, Bit
    <3> QED BY <2>1, <3>1, <3>2 DEF Behind, Bit
  <2> QED BY <2>2, <2>3
<1>6. \A j \in 1 .. m - 1 : SlotAt(e.idx, j - 1) = SlotAt(d.idx, (j + 1) - 1)
  BY <1>1, <1>2, <1>4 DEF SlotAt
<1>7. \A j \in 1 .. m - 1 : j + 1 \in 1 .. m
  BY <1>2, <1>3
<1>8. Carries(r, e, t)
  <2>1. \A j \in 1 .. m : Content(r[SlotAt(d.idx, j - 1)]) = q[j]
    BY <1>1 DEF Carries, m
  <2>2. \A j \in 1 .. m - 1 : Content(r[SlotAt(e.idx, j - 1)]) = t[j]
    BY <1>3, <1>6, <1>7, <2>1
  <2> QED BY <1>3, <2>2 DEF Carries
<1> QED BY <1>1, <1>3, <1>4, <1>5, <1>8 DEF EventsRing, e, t

\* An event written while the ring has room comes last.
LEMMA WriteKeeps ==
  ASSUME NEW r, NEW d, NEW w, NEW q, EventsRing(r, d, w, q),
         NEW type \in {"transfer", "command"}, NEW ep \in Endpoints, NEW s \in Nat,
         AdvancedEvent(w).idx # d.idx
  PROVE  EventsRing([r EXCEPT ![w.idx] = [type |-> type, cycle |-> w.cycle, ep |-> ep, serial |-> s]],
                    d, AdvancedEvent(w), Append(q, [type |-> type, ep |-> ep, serial |-> s]))
<1> DEFINE m == Len(q)
           e == AdvancedEvent(w)
           x == [type |-> type, ep |-> ep, serial |-> s]
           y == [type |-> type, cycle |-> w.cycle, ep |-> ep, serial |-> s]
           t == Append(q, x)
           p == [r EXCEPT ![w.idx] = y]
<1>1. /\ r \in [0 .. EventRingSize - 1 -> EventState] /\ d \in EventPlace /\ w \in EventPlace
      /\ q \in Seq(Event) /\ EventBits(r, w) /\ Carries(r, d, q)
      /\ d.cycle \in Bit /\ w.cycle \in Bit
      /\ d.idx \in 0 .. EventRingSize - 1 /\ w.idx \in 0 .. EventRingSize - 1
      /\ EventRingSize \in Nat /\ EventRingSize > 1
  BY EventParts
<1>2. m \in Nat /\ Behind(d, w, m) /\ m < EventRingSize
  BY EventParts
<1>3. x \in Event /\ y \in EventState /\ Content(y) = x /\ y.cycle = w.cycle
  BY <1>1 DEF Event, EventState, Content
<1> HIDE DEF x, y
<1>4. /\ t \in Seq(Event) /\ Len(t) = m + 1
      /\ \A j \in 1 .. m + 1 : t[j] = IF j = m + 1 THEN x ELSE q[j]
  BY <1>1, <1>3
<1>5. /\ p \in [0 .. EventRingSize - 1 -> EventState]
      /\ \A i \in 0 .. EventRingSize - 1 : p[i] = IF i = w.idx THEN y ELSE r[i]
  BY <1>1, <1>3
<1>6. /\ e \in EventPlace
      /\ w.idx + 1 < EventRingSize => e.idx = w.idx + 1 /\ e.cycle = w.cycle
      /\ ~ w.idx + 1 < EventRingSize =>
           w.idx = EventRingSize - 1 /\ e.idx = 0 /\ e.cycle = 1 - w.cycle
  BY <1>1, AdvancedIs
<1>7. e.idx # d.idx
  OBVIOUS
<1> HIDE DEF m, e, t, p
<1>8. Behind(d, e, m + 1) /\ SlotAt(d.idx, m) = w.idx
  <2>1. /\ d.cycle \in Bit /\ w.cycle \in Bit /\ m \in Nat
        /\ d.idx \in 0 .. EventRingSize - 1 /\ w.idx \in 0 .. EventRingSize - 1
        /\ EventRingSize \in Nat /\ EventRingSize > 1
    BY <1>1, <1>2
  <2>2. SlotAt(d.idx, m) = w.idx
    BY <1>2, <2>1 DEF Behind, SlotAt
  <2>3. CASE w.idx + 1 < EventRingSize
    <3>1. e.idx = w.idx + 1 /\ e.cycle = w.cycle /\ e.idx # d.idx
      BY <1>6, <1>7, <2>3
    <3>2. Behind(d, e, m + 1)
      BY <1>2, <2>1, <3>1 DEF Behind
    <3> QED BY <2>2, <3>2
  <2>4. CASE ~ w.idx + 1 < EventRingSize
    <3>1. w.idx = EventRingSize - 1 /\ e.idx = 0 /\ e.cycle = 1 - w.cycle /\ d.idx # 0
      BY <1>6, <1>7, <2>4
    <3>2. d.cycle = w.cycle /\ m = (EventRingSize - 1) - d.idx
      BY <1>2, <2>1, <3>1 DEF Behind, Bit
    <3>3. Behind(d, e, m + 1)
      BY <2>1, <3>1, <3>2 DEF Behind, Bit
    <3> QED BY <2>2, <3>3
  <2> QED BY <2>3, <2>4
<1>9. EventBits(p, e)
  <2>1. \A i \in 0 .. EventRingSize - 1 : r[i].cycle = (IF i < w.idx THEN w.cycle ELSE 1 - w.cycle)
    BY <1>1 DEF EventBits
  <2>2. CASE w.idx + 1 < EventRingSize
    BY <1>1, <1>3, <1>5, <1>6, <2>1, <2>2 DEF EventBits
  <2>3. CASE ~ w.idx + 1 < EventRingSize
    <3>1. 1 - e.cycle = w.cycle /\ e.idx = 0 /\ w.idx = EventRingSize - 1
      BY <1>1, <1>6, <2>3 DEF Bit
    <3> QED BY <1>1, <1>3, <1>5, <2>1, <3>1 DEF EventBits
  <2> QED BY <2>2, <2>3
<1>10. Carries(p, d, t)
  <2>1. \A j \in 1 .. m : /\ SlotAt(d.idx, j - 1) # SlotAt(d.idx, m)
                          /\ SlotAt(d.idx, j - 1) \in 0 .. EventRingSize - 1
    BY <1>1, <1>2 DEF SlotAt
  <2>2. \A j \in 1 .. m : Content(r[SlotAt(d.idx, j - 1)]) = q[j]
    BY <1>1 DEF Carries, m
  <2>3. \A j \in 1 .. m : Content(p[SlotAt(d.idx, j - 1)]) = q[j]
    BY <1>5, <1>8, <2>1, <2>2
  <2>4. Content(p[SlotAt(d.idx, m)]) = x
    BY <1>1, <1>3, <1>5, <1>8
  <2>5. \A j \in 1 .. m + 1 : j \in 1 .. m \/ (j = m + 1 /\ j - 1 = m)
    BY <1>2
  <2>6. \A j \in 1 .. m + 1 : Content(p[SlotAt(d.idx, j - 1)]) = t[j]
    BY <1>2, <1>4, <2>3, <2>4, <2>5
  <2> QED BY <1>4, <2>6 DEF Carries
<1> QED BY <1>1, <1>4, <1>5, <1>6, <1>8, <1>9, <1>10 DEF EventsRing, e, t, p, x, y

-----------------------------------------------------------------------------
(* How many completions of an endpoint are on their way.                    *)

Completes(ep, x) == x.ep = ep /\ x.type = "transfer"
Of(ep, q) == {i \in 1 .. Len(q) : Completes(ep, q[i])}
Coming(ep, q) == Cardinality(Of(ep, q))
One(ep, x) == IF Completes(ep, x) THEN 1 ELSE 0

\* They can be counted, and there is one if there are any.
LEMMA ComingIs ==
  ASSUME NEW ep, NEW q \in Seq(Event)
  PROVE  /\ IsFiniteSet(Of(ep, q)) /\ Coming(ep, q) \in Nat
         /\ Coming(ep, q) = 0 <=> Of(ep, q) = {}
<1>1. IsFiniteSet(1 .. Len(q))
  BY FS_Interval
<1>2. IsFiniteSet(Of(ep, q))
  BY <1>1, FS_Subset DEF Of
<1> QED BY <1>2, FS_CardinalityType, FS_EmptySet DEF Coming

\* An event written is one more, if it completes a transfer.
LEMMA WrittenCounts ==
  ASSUME NEW ep, NEW q \in Seq(Event), NEW x \in Event
  PROVE  Coming(ep, Append(q, x)) = Coming(ep, q) + One(ep, x)
<1> DEFINE m == Len(q)
           t == Append(q, x)
<1>1. m \in Nat /\ Len(t) = m + 1 /\ \A j \in 1 .. m + 1 : t[j] = IF j = m + 1 THEN x ELSE q[j]
  OBVIOUS
<1> HIDE DEF t
<1>2. \A j : j \in 1 .. m + 1 <=> (j \in 1 .. m \/ j = m + 1)
  BY <1>1
<1>3. m + 1 \notin 1 .. m
  BY <1>1
<1>4. IsFiniteSet(Of(ep, q)) /\ Coming(ep, q) \in Nat
  BY ComingIs
<1> HIDE DEF m
<1>5. CASE Completes(ep, x)
  <2>1. Of(ep, t) = Of(ep, q) \cup {m + 1}
    <3>1. \A j : j \in Of(ep, t) <=> j \in 1 .. m + 1 /\ Completes(ep, t[j])
      BY <1>1 DEF Of
    <3>2. \A j : j \in Of(ep, q) <=> j \in 1 .. m /\ Completes(ep, q[j])
      BY DEF Of, m
    <3>3. \A j \in 1 .. m : t[j] = q[j]
      BY <1>1, <1>2, <1>3
    <3>4. t[m + 1] = x
      BY <1>1, <1>2
    <3> QED BY <1>2, <1>5, <3>1, <3>2, <3>3, <3>4
  <2>2. m + 1 \notin Of(ep, q)
    BY <1>3 DEF Of, m
  <2>3. Cardinality(Of(ep, q) \cup {m + 1}) = Cardinality(Of(ep, q)) + 1
    BY <1>4, <2>2, FS_AddElement
  <2> QED BY <1>5, <2>1, <2>3 DEF Coming, One, t
<1>6. CASE ~Completes(ep, x)
  <2>1. Of(ep, t) = Of(ep, q)
    <3>1. \A j : j \in Of(ep, t) <=> j \in 1 .. m + 1 /\ Completes(ep, t[j])
      BY <1>1 DEF Of
    <3>2. \A j : j \in Of(ep, q) <=> j \in 1 .. m /\ Completes(ep, q[j])
      BY DEF Of, m
    <3>3. \A j \in 1 .. m : t[j] = q[j]
      BY <1>1, <1>2, <1>3
    <3>4. t[m + 1] = x
      BY <1>1, <1>2
    <3> QED BY <1>2, <1>6, <3>1, <3>2, <3>3, <3>4
  <2> QED BY <1>4, <1>6, <2>1 DEF Coming, One, t
<1> QED BY <1>5, <1>6

\* An event taken is one less.
LEMMA TakenCounts ==
  ASSUME NEW ep, NEW q \in Seq(Event), q # <<>>
  PROVE  Coming(ep, Tail(q)) + One(ep, q[1]) = Coming(ep, q)
<1> DEFINE m == Len(q)
           t == Tail(q)
           A == Of(ep, t)
           B == Of(ep, q)
           f == [i \in A |-> i + 1]
<1>1. /\ m \in Nat /\ m # 0 /\ Len(t) = m - 1 /\ t \in Seq(Event)
      /\ \A j \in 1 .. m - 1 : t[j] = q[j + 1]
  OBVIOUS
<1> HIDE DEF t
<1>2. \A j : j \in A <=> j \in 1 .. m - 1 /\ Completes(ep, q[j + 1])
  BY <1>1 DEF Of
<1>3. \A j : j \in B <=> j \in 1 .. m /\ Completes(ep, q[j])
  BY DEF Of
<1>4. IsFiniteSet(A) /\ IsFiniteSet(B) /\ Cardinality(A) \in Nat /\ Cardinality(B) \in Nat
  BY <1>1, ComingIs DEF Coming
<1> HIDE DEF m, A, B
<1>5. f \in Bijection(A, B \ {1})
  <2>1. \A j \in A : f[j] = j + 1 /\ j \in 1 .. m - 1
    BY <1>2
  <2>2. \A j \in A : f[j] \in B \ {1}
    <3>1. ASSUME NEW j \in A
          PROVE  j + 1 \in 1 .. m /\ j + 1 # 1 /\ Completes(ep, q[j + 1])
      <4>1. j \in 1 .. m - 1 /\ Completes(ep, q[j + 1])
        BY <1>2
      <4> QED  BY <1>1, <4>1
    <3>2. ASSUME NEW j \in A  PROVE  j + 1 \in B \ {1}
      BY <1>3, <3>1
    <3> QED  BY <2>1, <3>2
  <2>3. \A i, j \in A : f[i] = f[j] => i = j
    BY <1>1, <2>1
  <2>4. \A k \in B \ {1} : k - 1 \in A /\ f[k - 1] = k
    <3> TAKE k \in B \ {1}
    <3>1. k - 1 \in 1 .. m - 1 /\ (k - 1) + 1 = k
      BY <1>1, <1>3
    <3>2. Completes(ep, q[k])
      BY <1>3
    <3>3. k - 1 \in A
      BY <1>2, <3>1, <3>2
    <3> QED BY <2>1, <3>1, <3>3
  <2>5. f \in [A -> B \ {1}]
    BY <2>2
  <2> HIDE DEF f
  <2>6. \A k \in B \ {1} : \E j \in A : f[j] = k
    BY <2>4
  <2> QED BY <2>3, <2>5, <2>6, Fun_IsBij
<1>6. Cardinality(B \ {1}) = Cardinality(A)
  <2> HIDE DEF f
  <2>1. ExistsBijection(A, B \ {1})
    BY <1>5, Fun_ExistsBij
  <2> QED BY <1>4, <2>1, FS_Bijection
<1>7. Cardinality(B \ {1}) = IF 1 \in B THEN Cardinality(B) - 1 ELSE Cardinality(B)
  BY <1>4, FS_RemoveElement
<1>8. 1 \in B <=> Completes(ep, q[1])
  BY <1>1, <1>3
<1>9. Coming(ep, t) = Cardinality(A) /\ Coming(ep, q) = Cardinality(B)
  BY DEF Coming, A, B
<1> QED BY <1>4, <1>6, <1>7, <1>8, <1>9 DEF One, t

-----------------------------------------------------------------------------
(* The controller: its inductive invariant.                                 *)

NoOrSerial == Nat \cup {NoSerial}
XhciTyped ==
  /\ xring \in [Endpoints -> RingState]
  /\ xdrv \in [Endpoints -> PlaceState] /\ xctl \in [Endpoints -> PlaceState]
  /\ posted \in [Endpoints -> Seq(Nat)]
  /\ has_data \in [Endpoints -> NoOrSerial] /\ waits \in NoOrSerial
  /\ serial \in Nat /\ givenUp \in 0 .. MaxGivenUp

RingsInStep == \A ep \in Endpoints : TransferRing(xring[ep], xdrv[ep], xctl[ep], posted[ep])
EventsKept == EventsRing(ering, edrv, ectl, eventTrbs)

InFlight(ep) == Len(posted[ep]) + Coming(ep, eventTrbs)
Answered == IF has_data["bulk"] = NoSerial THEN 0 ELSE 1
Waiting == IF waits = NoSerial THEN 0 ELSE 1

\* No more transfers are in flight or answered than are waited for or given up,
\* and the one waited for is among them.
BulkCounted ==
  /\ InFlight("bulk") + Answered <= givenUp + Waiting
  /\ waits # NoSerial /\ ~passedOver => Answered = 1 \/ InFlight("bulk") > 0

\* While none was given up, everything in flight is what the task waits for.
AllAwaited ==
  givenUp = 0 =>
    /\ \A j \in 1 .. Len(posted["bulk"]) : posted["bulk"][j] = waits
    /\ \A i \in Of("bulk", eventTrbs) : eventTrbs[i].serial = waits
    /\ has_data["bulk"] \in {NoSerial, waits}

\* The interrupt endpoint's only transfer is in flight from when it is armed.
IntCounted ==
  /\ InFlight("int") <= 1
  /\ ~Armed => InFlight("int") = 0
  /\ Armed /\ ~passedOver => InFlight("int") = 1

XhciInv ==
  /\ XhciTyped /\ RingsInStep /\ EventsKept /\ BulkCounted /\ AllAwaited /\ IntCounted
  /\ EventsAreAnnounced

\* What is counted are natural numbers.
LEMMA CountsAre ==
  ASSUME XhciTyped, EventsKept, NEW ep \in Endpoints
  PROVE  /\ posted[ep] \in Seq(Nat) /\ Len(posted[ep]) \in Nat
         /\ eventTrbs \in Seq(Event)
         /\ Coming(ep, eventTrbs) \in Nat /\ InFlight(ep) \in Nat
         /\ Answered \in {0, 1} /\ Waiting \in {0, 1}
         /\ givenUp \in Nat /\ givenUp <= MaxGivenUp /\ MaxGivenUp \in Nat
<1>1. eventTrbs \in Seq(Event)
  BY DEF EventsKept, EventsRing
<1>2. Coming(ep, eventTrbs) \in Nat
  BY <1>1, ComingIs
<1>3. posted[ep] \in Seq(Nat) /\ Len(posted[ep]) \in Nat
  BY DEF XhciTyped
<1>4. InFlight(ep) \in Nat
  BY <1>2, <1>3 DEF InFlight
<1>5. Answered \in {0, 1} /\ Waiting \in {0, 1}
  BY DEF Answered, Waiting
<1>6. givenUp \in Nat /\ givenUp <= MaxGivenUp /\ MaxGivenUp \in Nat
  BY XhciAssumption DEF XhciTyped
<1> QED BY <1>1, <1>2, <1>3, <1>4, <1>5, <1>6

\* The names of the endpoints.
LEMMA EndpointsAre == "bulk" \in Endpoints /\ "int" \in Endpoints /\ "bulk" # "int"
  BY DEF Endpoints

\* A transfer posted to a ring that has room.
LEMMA PostStep ==
  ASSUME XhciTyped, RingsInStep, NEW ep \in Endpoints, Len(posted[ep]) < LinkAt,
         xhci_post_transfer_trb(ep), xctl' = xctl
  PROVE  /\ xring' \in [Endpoints -> RingState] /\ xdrv' \in [Endpoints -> PlaceState]
         /\ posted' \in [Endpoints -> Seq(Nat)] /\ serial' \in Nat
         /\ RingsInStep'
         /\ posted'[ep] = Append(posted[ep], Buffer(ep))
         /\ Len(posted'[ep]) = Len(posted[ep]) + 1
         /\ xdrv'[ep].idx # 0
         /\ \A o \in Endpoints : o # ep => posted'[o] = posted[o] /\ xdrv'[o] = xdrv[o]
<1> DEFINE s == Buffer(ep)
           p == PostedRing(xring[ep], xdrv[ep], s)
           e == Onward(xdrv[ep])
           t == Append(posted[ep], s)
<1>1. /\ xring \in [Endpoints -> RingState] /\ xdrv \in [Endpoints -> PlaceState]
      /\ posted \in [Endpoints -> Seq(Nat)] /\ serial \in Nat
  BY DEF XhciTyped
<1>2. s \in Nat
  BY <1>1 DEF Buffer
<1>3. xring' = [xring EXCEPT ![ep] = p]
  BY DEF xhci_post_transfer_trb
<1>4. xdrv' = [xdrv EXCEPT ![ep] = e]
  BY DEF xhci_post_transfer_trb, Onward
<1>5. posted' = [posted EXCEPT ![ep] = t]
  BY DEF xhci_post_transfer_trb
<1>6. serial' = IF ep = "bulk" THEN (serial + 1) % Serials ELSE serial
  BY DEF xhci_post_transfer_trb
<1>7. TransferRing(xring[ep], xdrv[ep], xctl[ep], posted[ep])
  BY DEF RingsInStep
<1>8. TransferRing(p, e, xctl[ep], t)
  BY <1>2, <1>7, PostKeeps
<1>9. e.idx # 0 /\ e \in PlaceState
  <2>1. xdrv[ep] \in PlaceState
    BY <1>1
  <2>2. /\ PostPlace(xdrv[ep]) \in [idx : 0 .. LinkAt - 1, cycle : Bit] /\ e \in PlaceState
        /\ e.idx = PostPlace(xdrv[ep]).idx + 1
    BY <2>1, OnwardIs
  <2>3. PostPlace(xdrv[ep]).idx \in 0 .. LinkAt - 1
    BY <2>2
  <2> QED BY <2>2, <2>3, LinkIs
<1>10. t \in Seq(Nat) /\ Len(t) = Len(posted[ep]) + 1
  BY <1>1, <1>2
<1>11. p \in RingState
  BY <1>8 DEF TransferRing
<1>12. serial' \in Nat
  BY <1>1, <1>6, XhciAssumption
<1> HIDE DEF s, p, e, t
<1>13. RingsInStep'
  <2> SUFFICES ASSUME NEW o \in Endpoints
               PROVE  TransferRing(xring'[o], xdrv'[o], xctl'[o], posted'[o])
    BY DEF RingsInStep
  <2>1. CASE o = ep
    BY <1>1, <1>3, <1>4, <1>5, <1>8, <2>1
  <2>2. CASE o # ep
    <3>1. xring'[o] = xring[o] /\ xdrv'[o] = xdrv[o] /\ posted'[o] = posted[o]
      BY <1>1, <1>3, <1>4, <1>5, <2>2
    <3> QED BY <3>1 DEF RingsInStep
  <2> QED BY <2>1, <2>2
<1>14. xring' \in [Endpoints -> RingState] /\ xdrv' \in [Endpoints -> PlaceState]
       /\ posted' \in [Endpoints -> Seq(Nat)]
  BY <1>1, <1>3, <1>4, <1>5, <1>9, <1>10, <1>11
<1>15. posted'[ep] = t /\ xdrv'[ep] = e
       /\ \A o \in Endpoints : o # ep => posted'[o] = posted[o] /\ xdrv'[o] = xdrv[o]
  BY <1>1, <1>4, <1>5
<1> QED BY <1>9, <1>10, <1>12, <1>13, <1>14, <1>15 DEF s, t

\* An event that is ready is the oldest; once taken, it is counted no more.
LEMMA TakeStep ==
  ASSUME EventsKept, xhci_event_ready, TrbTaken, ering' = ering, ectl' = ectl
  PROVE  /\ eventTrbs # <<>> /\ eventTrbs[1] \in Event
         /\ Content(ering[edrv.idx]) = eventTrbs[1]
         /\ EventsKept'
         /\ \A ep \in Endpoints :
              /\ Coming(ep, eventTrbs') \in Nat
              /\ Coming(ep, eventTrbs') + One(ep, eventTrbs[1]) = Coming(ep, eventTrbs)
         /\ \A ep : \A i \in Of(ep, eventTrbs') :
              i + 1 \in Of(ep, eventTrbs) /\ eventTrbs'[i] = eventTrbs[i + 1]
<1>1. EventsRing(ering, edrv, ectl, eventTrbs)
  BY DEF EventsKept
<1>2. eventTrbs # <<>> /\ Content(ering[edrv.idx]) = eventTrbs[1]
  BY <1>1, EventSeen DEF xhci_event_ready
<1>3. edrv' = AdvancedEvent(edrv) /\ eventTrbs' = Tail(eventTrbs)
  BY DEF TrbTaken
<1>4. EventsRing(ering, AdvancedEvent(edrv), ectl, Tail(eventTrbs))
  BY <1>1, <1>2, TakeKeeps
<1>5. EventsKept'
  BY <1>3, <1>4 DEF EventsKept
<1>6. eventTrbs \in Seq(Event) /\ eventTrbs' \in Seq(Event)
  BY <1>1, <1>3, <1>4 DEF EventsRing
<1>7. ASSUME NEW ep \in Endpoints
      PROVE  /\ Coming(ep, eventTrbs') \in Nat
             /\ Coming(ep, eventTrbs') + One(ep, eventTrbs[1]) = Coming(ep, eventTrbs)
  BY <1>2, <1>3, <1>6, TakenCounts, ComingIs
<1>8. ASSUME NEW ep, NEW i \in Of(ep, eventTrbs')
      PROVE  i + 1 \in Of(ep, eventTrbs) /\ eventTrbs'[i] = eventTrbs[i + 1]
  <2>1. i \in 1 .. Len(eventTrbs') /\ Completes(ep, eventTrbs'[i])
    BY <1>8 DEF Of
  <2>2. i + 1 \in 1 .. Len(eventTrbs) /\ eventTrbs'[i] = eventTrbs[i + 1]
    BY <1>2, <1>3, <1>6, <2>1
  <2> QED BY <2>1, <2>2 DEF Of
<1>9. eventTrbs[1] \in Event
  BY <1>2, <1>6
<1> QED BY <1>2, <1>5, <1>7, <1>8, <1>9

\* An event that is written comes last, is counted and is announced.
LEMMA WriteStep ==
  ASSUME EventsKept, NEW type \in {"transfer", "command"}, NEW ep \in Endpoints, NEW s \in Nat,
         WriteTrb(type, ep, s), edrv' = edrv
  PROVE  LET x == [type |-> type, ep |-> ep, serial |-> s] IN
         /\ EventsKept' /\ EventsAreAnnounced'
         /\ \A o \in Endpoints :
              /\ Coming(o, eventTrbs) \in Nat
              /\ Coming(o, eventTrbs') = Coming(o, eventTrbs) + One(o, x)
         /\ \A o : \A i \in Of(o, eventTrbs') :
              \/ i \in Of(o, eventTrbs) /\ eventTrbs'[i] = eventTrbs[i]
              \/ Completes(o, x) /\ eventTrbs'[i] = x
<1> DEFINE x == [type |-> type, ep |-> ep, serial |-> s]
<1>1. EventsRing(ering, edrv, ectl, eventTrbs)
  BY DEF EventsKept
<1>2. /\ AdvancedEvent(ectl).idx # edrv.idx
      /\ ering' = [ering EXCEPT ![ectl.idx] =
                     [type |-> type, cycle |-> ectl.cycle, ep |-> ep, serial |-> s]]
      /\ ectl' = AdvancedEvent(ectl)
      /\ eventTrbs' = Append(eventTrbs, x)
      /\ eint' = TRUE
  BY DEF WriteTrb, EventRoom
<1>3. EventsKept'
  BY <1>1, <1>2, WriteKeeps DEF EventsKept
<1>4. EventsAreAnnounced'
  BY <1>2 DEF EventsAreAnnounced
<1>5. x \in Event
  BY DEF Event
<1>6. eventTrbs \in Seq(Event)
  BY <1>1 DEF EventsRing
<1> HIDE DEF x
<1>7. ASSUME NEW o \in Endpoints
      PROVE  /\ Coming(o, eventTrbs) \in Nat
             /\ Coming(o, eventTrbs') = Coming(o, eventTrbs) + One(o, x)
  BY <1>2, <1>5, <1>6, WrittenCounts, ComingIs
<1>8. ASSUME NEW o, NEW i \in Of(o, eventTrbs')
      PROVE  \/ i \in Of(o, eventTrbs) /\ eventTrbs'[i] = eventTrbs[i]
             \/ Completes(o, x) /\ eventTrbs'[i] = x
  <2>1. i \in 1 .. Len(eventTrbs') /\ Completes(o, eventTrbs'[i])
    BY <1>8 DEF Of
  <2>2. \/ i \in 1 .. Len(eventTrbs) /\ eventTrbs'[i] = eventTrbs[i]
        \/ eventTrbs'[i] = x
    BY <1>2, <1>5, <1>6, <2>1
  <2> QED BY <2>1, <2>2 DEF Of
<1> QED BY <1>3, <1>4, <1>7, <1>8 DEF x

\* The controller starts with empty rings.
LEMMA XhciStarts == XhciInit => XhciInv
<1> SUFFICES ASSUME XhciInit PROVE XhciInv
  OBVIOUS
<1> USE DEF XhciInit
<1> DEFINE r == [i \in 0 .. LinkAt |-> IF i = LinkAt THEN [BlankTrb EXCEPT !.type = "link"] ELSE BlankTrb]
           z == [idx |-> 0, cycle |-> 1]
<1>2. r \in RingState
  <2>1. BlankTrb \in TrbState /\ [BlankTrb EXCEPT !.type = "link"] \in TrbState
    BY DEF BlankTrb, TrbState, Bit
  <2> QED BY <2>1 DEF RingState
<1>3. BitsTold(r, z)
  <2>1. LinkAt \in 0 .. LinkAt /\ \A i \in 0 .. LinkAt - 1 : i \in 0 .. LinkAt /\ i # LinkAt /\ ~ i < 0
    BY LinkIs
  <2>2. \A i \in 0 .. LinkAt - 1 : r[i] = BlankTrb
    BY <2>1
  <2>3. r[LinkAt].type = "link" /\ r[LinkAt].cycle = 0
    BY <2>1 DEF BlankTrb
  <2>4. BlankTrb.type = "normal" /\ BlankTrb.cycle = 0
    BY DEF BlankTrb
  <2>5. z.idx = 0 /\ z.cycle = 1 /\ 1 - z.cycle = 0
    OBVIOUS
  <2> HIDE DEF r, z
  <2> QED BY <2>1, <2>2, <2>3, <2>4, <2>5 DEF BitsTold
<1>4. z \in PlaceState
  BY LinkIs DEF PlaceState, Bit
<1>5. TransferRing(r, z, z, <<>>)
  <2>1. Between(z, z, 0)
    BY DEF Between
  <2>2. Holds(r, z, <<>>)
    BY DEF Holds
  <2> HIDE DEF r, z
  <2> QED BY <1>2, <1>3, <1>4, <2>1, <2>2 DEF TransferRing
<1>6. RingsInStep
  BY <1>5 DEF RingsInStep
<1>7. EventsKept
  <2>1. EventRingSize \in Nat /\ EventRingSize > 1
    BY XhciAssumption
  <2>2. NoEvent \in EventState
    BY EndpointsAre DEF NoEvent, EventState, Bit
  <2>3. ering \in [0 .. EventRingSize - 1 -> EventState]
    BY <2>2
  <2>4. z \in EventPlace
    BY <2>1 DEF EventPlace, Bit
  <2>5. EventBits(ering, z)
    BY <2>1 DEF EventBits, NoEvent
  <2>6. Behind(z, z, 0) /\ Carries(ering, z, <<>>)
    BY DEF Behind, Carries
  <2> QED BY <2>3, <2>4, <2>5, <2>6 DEF EventsKept, EventsRing
<1>8. XhciTyped
  <2>1. xring \in [Endpoints -> RingState] /\ xdrv \in [Endpoints -> PlaceState]
        /\ xctl \in [Endpoints -> PlaceState]
    BY <1>2, <1>4
  <2>2. posted \in [Endpoints -> Seq(Nat)]
    OBVIOUS
  <2>3. has_data \in [Endpoints -> NoOrSerial] /\ waits \in NoOrSerial
    BY DEF NoOrSerial
  <2>4. serial \in Nat /\ givenUp \in 0 .. MaxGivenUp
    BY XhciAssumption
  <2> QED BY <2>1, <2>2, <2>3, <2>4 DEF XhciTyped
<1>9. \A ep \in Endpoints : InFlight(ep) = 0
  <2> TAKE ep \in Endpoints
  <2>1. posted[ep] = <<>> /\ eventTrbs = <<>>
    OBVIOUS
  <2>2. Of(ep, eventTrbs) = {}
    BY <2>1 DEF Of
  <2>3. Len(posted[ep]) = 0
    BY <2>1
  <2>4. Coming(ep, eventTrbs) = 0
    BY <2>2, FS_EmptySet DEF Coming
  <2> HIDE DEF XhciInit
  <2> QED BY <2>3, <2>4 DEF InFlight
<1>10. BulkCounted /\ AllAwaited /\ IntCounted /\ EventsAreAnnounced
  <2>1. InFlight("bulk") = 0 /\ InFlight("int") = 0
    BY <1>9, EndpointsAre
  <2>2. Answered = 0 /\ Waiting = 0 /\ has_data["bulk"] = NoSerial /\ waits = NoSerial
    BY EndpointsAre DEF Answered, Waiting
  <2>3. ~Armed
    BY EndpointsAre DEF Armed
  <2>4. AllAwaited
    <3>1. posted["bulk"] = <<>> /\ eventTrbs = <<>>
      BY EndpointsAre
    <3>2. Of("bulk", eventTrbs) = {} /\ 1 .. Len(posted["bulk"]) = {}
      BY <3>1 DEF Of
    <3> QED BY <2>2, <3>2 DEF AllAwaited
  <2>5. EventsAreAnnounced
    BY DEF EventsAreAnnounced
  <2> QED BY <2>1, <2>2, <2>3, <2>4, <2>5 DEF BulkCounted, IntCounted
<1> QED BY <1>6, <1>7, <1>8, <1>10 DEF XhciInv

\* What leaves the rings alone leaves what is in flight.
LEMMA RingsAlone ==
  ASSUME XhciInv, UNCHANGED <<xring, xdrv, xctl, ering, edrv, ectl, posted, eventTrbs>>
  PROVE  /\ RingsInStep' /\ EventsKept'
         /\ \A ep \in Endpoints : InFlight(ep)' = InFlight(ep)
         /\ Armed' <=> Armed
<1>1. RingsInStep'
  BY DEF XhciInv, RingsInStep
<1>2. EventsKept'
  BY DEF XhciInv, EventsKept
<1>3. ASSUME NEW ep \in Endpoints PROVE InFlight(ep)' = InFlight(ep)
  BY DEF InFlight
<1>4. Armed' <=> Armed
  BY DEF Armed
<1> QED BY <1>1, <1>2, <1>3, <1>4

\* Transfers that are outstanding fit the ring, with one more.
PostsFit == MaxGivenUp + 1 < TrbRingSize

\* A bulk transfer is posted only when nothing waits, and so there is room.
LEMMA BulkPosts ==
  ASSUME PostsFit, XhciInv, xhci_bulk_transfer_packet
  PROVE  XhciInv'
<1> USE EndpointsAre
<1>1. /\ XhciTyped /\ RingsInStep /\ EventsKept /\ BulkCounted /\ AllAwaited /\ IntCounted
      /\ EventsAreAnnounced
  BY DEF XhciInv
<1>2. /\ waits = NoSerial /\ xhci_post_transfer_trb("bulk")
      /\ has_data' = [has_data EXCEPT !["bulk"] = NoSerial] /\ waits' = serial
      /\ xctl' = xctl /\ ering' = ering /\ edrv' = edrv /\ ectl' = ectl /\ eint' = eint
      /\ eventTrbs' = eventTrbs /\ givenUp' = givenUp /\ passedOver' = passedOver
  BY DEF xhci_bulk_transfer_packet
<1>3. /\ posted["bulk"] \in Seq(Nat) /\ Len(posted["bulk"]) \in Nat
      /\ Coming("bulk", eventTrbs) \in Nat /\ InFlight("bulk") \in Nat
      /\ Answered \in {0, 1} /\ Waiting \in {0, 1}
      /\ givenUp \in Nat /\ givenUp <= MaxGivenUp /\ MaxGivenUp \in Nat
  BY <1>1, CountsAre
<1>4. Waiting = 0
  BY <1>2 DEF Waiting
<1>5. InFlight("bulk") + Answered <= givenUp
  BY <1>1, <1>3, <1>4 DEF BulkCounted
<1>6. Len(posted["bulk"]) < LinkAt
  BY <1>3, <1>5, XhciAssumption DEF InFlight, PostsFit, LinkAt
<1>7. /\ xring' \in [Endpoints -> RingState] /\ xdrv' \in [Endpoints -> PlaceState]
      /\ posted' \in [Endpoints -> Seq(Nat)] /\ serial' \in Nat
      /\ RingsInStep'
      /\ posted'["bulk"] = Append(posted["bulk"], Buffer("bulk"))
      /\ Len(posted'["bulk"]) = Len(posted["bulk"]) + 1
      /\ posted'["int"] = posted["int"] /\ xdrv'["int"] = xdrv["int"]
  BY <1>1, <1>2, <1>6, PostStep
<1>8. /\ serial \in Nat /\ has_data \in [Endpoints -> NoOrSerial]
      /\ has_data'["bulk"] = NoSerial /\ has_data' \in [Endpoints -> NoOrSerial]
  <2>1. serial \in Nat /\ has_data \in [Endpoints -> NoOrSerial]
    BY <1>1 DEF XhciTyped
  <2>2. NoSerial \in NoOrSerial
    BY DEF NoOrSerial
  <2> QED BY <1>2, <2>1, <2>2
<1>9. waits' # NoSerial
  BY <1>2, <1>8 DEF NoSerial
<1>10. XhciTyped'
  BY <1>1, <1>2, <1>7, <1>8 DEF XhciTyped, NoOrSerial
<1>11. EventsKept'
  BY <1>1, <1>2 DEF EventsKept
<1>12. InFlight("bulk")' = InFlight("bulk") + 1 /\ InFlight("int")' = InFlight("int")
  BY <1>2, <1>3, <1>7 DEF InFlight
<1>13. BulkCounted'
  <2>1. Answered' = 0 /\ Waiting' = 1
    BY <1>8, <1>9 DEF Answered, Waiting
  <2> QED BY <1>2, <1>3, <1>5, <1>12, <2>1 DEF BulkCounted
<1>14. AllAwaited'
  <2> SUFFICES ASSUME givenUp' = 0
               PROVE  /\ \A j \in 1 .. Len(posted'["bulk"]) : posted'["bulk"][j] = waits'
                      /\ \A i \in Of("bulk", eventTrbs') : eventTrbs'[i].serial = waits'
                      /\ has_data'["bulk"] \in {NoSerial, waits'}
    BY DEF AllAwaited
  <2>1. InFlight("bulk") = 0
    BY <1>2, <1>3, <1>5
  <2>2. Len(posted["bulk"]) = 0 /\ Coming("bulk", eventTrbs) = 0
    BY <1>3, <2>1 DEF InFlight
  <2>3. posted'["bulk"] = <<serial>>
    <3>1. posted["bulk"] = <<>>
      BY <1>3, <2>2
    <3> QED BY <1>7, <1>8, <3>1 DEF Buffer
  <2>4. Of("bulk", eventTrbs') = {}
    BY <1>1, <1>2, <2>2, ComingIs DEF EventsKept, EventsRing
  <2> QED BY <1>2, <1>8, <2>3, <2>4
<1>15. IntCounted'
  <2>1. Armed' <=> Armed
    BY <1>7 DEF Armed
  <2> QED BY <1>1, <1>2, <1>12, <2>1 DEF IntCounted
<1>16. EventsAreAnnounced'
  BY <1>1, <1>2 DEF EventsAreAnnounced
<1> QED BY <1>7, <1>10, <1>11, <1>13, <1>14, <1>15, <1>16 DEF XhciInv

\* The parts of the invariant, with its numbers.
LEMMA XhciParts ==
  ASSUME XhciInv
  PROVE  /\ XhciTyped /\ RingsInStep /\ EventsKept /\ BulkCounted /\ AllAwaited /\ IntCounted
         /\ EventsAreAnnounced
         /\ has_data \in [Endpoints -> NoOrSerial] /\ eventTrbs \in Seq(Event)
         /\ Answered \in {0, 1} /\ Waiting \in {0, 1} /\ givenUp \in Nat
         /\ \A ep \in Endpoints :
              /\ posted[ep] \in Seq(Nat) /\ Len(posted[ep]) \in Nat
              /\ Coming(ep, eventTrbs) \in Nat
              /\ InFlight(ep) = Len(posted[ep]) + Coming(ep, eventTrbs)
<1>1. /\ XhciTyped /\ RingsInStep /\ EventsKept /\ BulkCounted /\ AllAwaited /\ IntCounted
      /\ EventsAreAnnounced
  BY DEF XhciInv
<1>2. has_data \in [Endpoints -> NoOrSerial]
  BY <1>1 DEF XhciTyped
<1>3. ASSUME NEW ep \in Endpoints
      PROVE  /\ posted[ep] \in Seq(Nat) /\ Len(posted[ep]) \in Nat
             /\ Coming(ep, eventTrbs) \in Nat
             /\ InFlight(ep) = Len(posted[ep]) + Coming(ep, eventTrbs)
  BY <1>1, CountsAre DEF InFlight
<1>4. /\ Answered \in {0, 1} /\ Waiting \in {0, 1} /\ givenUp \in Nat
      /\ eventTrbs \in Seq(Event)
  BY <1>1, CountsAre, EndpointsAre
<1> QED BY <1>1, <1>2, <1>3, <1>4

\* Taking answers, giving up and asking for commands leave the rings alone.
LEMMA WaitsStep ==
  ASSUME XhciInv,
         PollNothing \/ BulkReturns \/ BulkTimesOut \/ IntReturns \/ xhci_post_cmd
  PROVE  XhciInv'
<1> USE EndpointsAre
<1>1. /\ XhciTyped /\ BulkCounted /\ AllAwaited /\ IntCounted /\ EventsKept
      /\ EventsAreAnnounced
      /\ has_data \in [Endpoints -> NoOrSerial]
      /\ Answered \in {0, 1} /\ Waiting \in {0, 1} /\ givenUp \in Nat
      /\ \A ep \in Endpoints :
           /\ posted[ep] \in Seq(Nat) /\ Len(posted[ep]) \in Nat
           /\ Coming(ep, eventTrbs) \in Nat
           /\ InFlight(ep) = Len(posted[ep]) + Coming(ep, eventTrbs)
  BY XhciParts
<1>2. UNCHANGED <<xring, xdrv, xctl, ering, edrv, ectl, posted, eventTrbs, serial, passedOver>>
  BY DEF PollNothing, BulkReturns, BulkTimesOut, IntReturns, xhci_post_cmd
<1>3. /\ RingsInStep' /\ EventsKept'
      /\ \A ep \in Endpoints : InFlight(ep)' = InFlight(ep)
      /\ Armed' <=> Armed
  BY <1>2, RingsAlone
<1>4. IntCounted'
  BY <1>1, <1>2, <1>3 DEF IntCounted
<1>5. NoSerial \in NoOrSerial
  BY DEF NoOrSerial
<1>6. EventsAreAnnounced'
  <2>1. CASE PollNothing
    <3>1. eventTrbs = <<>>
      BY <1>1, <2>1, EventSeen DEF PollNothing, xhci_event_ready, EventsKept
    <3> QED BY <1>2, <3>1 DEF EventsAreAnnounced
  <2>2. CASE BulkReturns \/ BulkTimesOut \/ IntReturns \/ xhci_post_cmd
    <3>1. eint' = eint
      BY <2>2 DEF BulkReturns, BulkTimesOut, IntReturns, xhci_post_cmd
    <3> QED BY <1>1, <1>2, <3>1 DEF EventsAreAnnounced
  <2> QED BY <2>1, <2>2
<1>7. XhciTyped' /\ BulkCounted' /\ AllAwaited'
  <2>1. CASE UNCHANGED <<has_data, waits, givenUp>>
    <3>1. Answered' = Answered /\ Waiting' = Waiting
      BY <2>1 DEF Answered, Waiting
    <3>2. XhciTyped'
      BY <1>1, <1>2, <2>1 DEF XhciTyped
    <3>3. BulkCounted'
      BY <1>1, <1>2, <1>3, <2>1, <3>1 DEF BulkCounted
    <3>4. AllAwaited'
      BY <1>1, <1>2, <2>1 DEF AllAwaited, Of
    <3> QED BY <3>2, <3>3, <3>4
  <2>2. CASE IntReturns
    <3>1. /\ has_data' = [has_data EXCEPT !["int"] = NoSerial] /\ waits' = waits
          /\ givenUp' = givenUp
      BY <2>2 DEF IntReturns
    <3>2. has_data' \in [Endpoints -> NoOrSerial] /\ has_data'["bulk"] = has_data["bulk"]
      BY <1>1, <1>5, <3>1
    <3>3. Answered' = Answered /\ Waiting' = Waiting
      BY <3>1, <3>2 DEF Answered, Waiting
    <3>4. XhciTyped'
      BY <1>1, <1>2, <3>1, <3>2 DEF XhciTyped
    <3>5. BulkCounted'
      BY <1>1, <1>2, <1>3, <3>1, <3>3 DEF BulkCounted
    <3>6. AllAwaited'
      BY <1>1, <1>2, <3>1, <3>2 DEF AllAwaited, Of
    <3> QED BY <3>4, <3>5, <3>6
  <2>3. CASE BulkReturns
    <3>1. /\ has_data' = [has_data EXCEPT !["bulk"] = NoSerial] /\ waits' = NoSerial
          /\ givenUp' = givenUp /\ waits # NoSerial /\ has_data["bulk"] # NoSerial
      BY <2>3 DEF BulkReturns
    <3>2. has_data' \in [Endpoints -> NoOrSerial] /\ has_data'["bulk"] = NoSerial
      BY <1>1, <1>5, <3>1
    <3>3. Answered = 1 /\ Waiting = 1 /\ Answered' = 0 /\ Waiting' = 0
      BY <3>1, <3>2 DEF Answered, Waiting
    <3>4. XhciTyped'
      BY <1>1, <1>2, <1>5, <3>1, <3>2 DEF XhciTyped
    <3>5. InFlight("bulk") <= givenUp
      BY <1>1, <3>3 DEF BulkCounted
    <3>6. BulkCounted'
      BY <1>1, <1>3, <3>1, <3>3, <3>5 DEF BulkCounted
    <3>7. AllAwaited'
      <4> SUFFICES ASSUME givenUp = 0
                   PROVE  /\ \A j \in 1 .. Len(posted["bulk"]) : posted["bulk"][j] = waits'
                          /\ \A k \in Of("bulk", eventTrbs) : eventTrbs[k].serial = waits'
        BY <1>2, <3>1, <3>2 DEF AllAwaited
      <4>1. Len(posted["bulk"]) = 0 /\ Coming("bulk", eventTrbs) = 0
        BY <1>1, <3>5
      <4>2. Of("bulk", eventTrbs) = {}
        BY <1>1, <4>1, ComingIs DEF EventsKept, EventsRing
      <4> QED BY <4>1, <4>2
    <3> QED BY <3>4, <3>6, <3>7
  <2>4. CASE BulkTimesOut
    <3>1. /\ waits' = NoSerial /\ givenUp' = givenUp + 1 /\ givenUp < MaxGivenUp
          /\ waits # NoSerial /\ has_data' = has_data
      BY <2>4 DEF BulkTimesOut
    <3>2. Waiting = 1 /\ Waiting' = 0 /\ Answered' = Answered
      BY <3>1 DEF Answered, Waiting
    <3>3. givenUp' \in 0 .. MaxGivenUp
      BY <1>1, <3>1, XhciAssumption
    <3>4. XhciTyped'
      BY <1>1, <1>2, <1>5, <3>1, <3>3 DEF XhciTyped
    <3>5. BulkCounted'
      BY <1>1, <1>3, <3>1, <3>2 DEF BulkCounted
    <3>6. AllAwaited'
      BY <1>1, <3>1 DEF AllAwaited
    <3> QED BY <3>4, <3>5, <3>6
  <2>5. UNCHANGED <<has_data, waits, givenUp>> \/ IntReturns \/ BulkReturns \/ BulkTimesOut
    BY DEF PollNothing, xhci_post_cmd
  <2> QED BY <2>1, <2>2, <2>3, <2>4, <2>5
<1> QED BY <1>3, <1>4, <1>6, <1>7 DEF XhciInv

\* Taking an event announces no other.
LEMMA TakenAnnounced ==
  ASSUME XhciInv, eventTrbs # <<>>, eint' = eint
  PROVE  EventsAreAnnounced'
  BY DEF XhciInv, EventsAreAnnounced

\* What is in flight after a step.
LEMMA FlightAfter ==
  ASSUME NEW ep
  PROVE  InFlight(ep)' = Len(posted'[ep]) + Coming(ep, eventTrbs')
  BY DEF InFlight

\* A poll takes the completion of a transfer, and arms the interrupt endpoint
\* again.
LEMMA PollStep ==
  ASSUME XhciInv, PollTransfer
  PROVE  XhciInv'
<1> USE EndpointsAre
<1> DEFINE x == eventTrbs[1]
<1>1. /\ XhciTyped /\ RingsInStep /\ BulkCounted /\ AllAwaited /\ IntCounted /\ EventsKept
      /\ has_data \in [Endpoints -> NoOrSerial]
      /\ Answered \in {0, 1} /\ Waiting \in {0, 1} /\ givenUp \in Nat
      /\ \A ep \in Endpoints :
           /\ posted[ep] \in Seq(Nat) /\ Len(posted[ep]) \in Nat
           /\ Coming(ep, eventTrbs) \in Nat
           /\ InFlight(ep) = Len(posted[ep]) + Coming(ep, eventTrbs)
  BY XhciParts
<1>2. /\ xhci_event_ready /\ ering[edrv.idx].type = "transfer" /\ TrbTaken
      /\ has_data' = [has_data EXCEPT ![ering[edrv.idx].ep] = ering[edrv.idx].serial]
      /\ IF ering[edrv.idx].ep = "int" THEN xhci_post_transfer_trb("int")
         ELSE UNCHANGED <<xring, xdrv, posted, serial>>
      /\ xctl' = xctl /\ ering' = ering /\ ectl' = ectl /\ eint' = eint /\ waits' = waits
      /\ givenUp' = givenUp /\ passedOver' = passedOver
  BY DEF PollTransfer
<1>3. /\ eventTrbs # <<>> /\ x \in Event /\ Content(ering[edrv.idx]) = x
      /\ EventsKept'
      /\ \A ep \in Endpoints :
           /\ Coming(ep, eventTrbs') \in Nat
           /\ Coming(ep, eventTrbs') + One(ep, x) = Coming(ep, eventTrbs)
      /\ \A ep : \A i \in Of(ep, eventTrbs') :
           i + 1 \in Of(ep, eventTrbs) /\ eventTrbs'[i] = eventTrbs[i + 1]
  BY <1>1, <1>2, TakeStep
<1>4. x.type = "transfer" /\ ering[edrv.idx].ep = x.ep /\ ering[edrv.idx].serial = x.serial
  BY <1>2, <1>3 DEF Content
<1>5. x.ep \in Endpoints /\ x.serial \in Nat
  BY <1>3 DEF Event
<1> HIDE DEF x
<1>6. /\ has_data' = [has_data EXCEPT ![x.ep] = x.serial]
      /\ has_data' \in [Endpoints -> NoOrSerial]
  BY <1>1, <1>2, <1>4, <1>5 DEF NoOrSerial
<1>7. EventsAreAnnounced'
  BY <1>2, <1>3, TakenAnnounced
<1>8. Waiting' = Waiting
  BY <1>2 DEF Waiting
<1>9. CASE x.ep = "int"
  <2>1. xhci_post_transfer_trb("int")
    BY <1>2, <1>4, <1>9
  <2>2. One("int", x) = 1 /\ One("bulk", x) = 0
    BY <1>4, <1>9 DEF One, Completes
  <2>3. /\ Coming("int", eventTrbs') + 1 = Coming("int", eventTrbs)
        /\ Coming("bulk", eventTrbs') = Coming("bulk", eventTrbs)
        /\ Coming("int", eventTrbs') \in Nat
    <3>1. /\ Coming("int", eventTrbs') \in Nat /\ Coming("bulk", eventTrbs') \in Nat
          /\ Coming("int", eventTrbs') + 1 = Coming("int", eventTrbs)
          /\ Coming("bulk", eventTrbs') + 0 = Coming("bulk", eventTrbs)
      BY <1>3, <2>2
    <3> QED BY <3>1
  <2>4. Len(posted["int"]) = 0 /\ InFlight("int") = 1
    BY <1>1, <2>3 DEF IntCounted
  <2>5. Len(posted["int"]) < LinkAt
    BY <2>4, LinkIs
  <2>6. /\ xring' \in [Endpoints -> RingState] /\ xdrv' \in [Endpoints -> PlaceState]
        /\ posted' \in [Endpoints -> Seq(Nat)] /\ serial' \in Nat
        /\ RingsInStep'
        /\ Len(posted'["int"]) = Len(posted["int"]) + 1
        /\ xdrv'["int"].idx # 0
        /\ posted'["bulk"] = posted["bulk"] /\ xdrv'["bulk"] = xdrv["bulk"]
    BY <1>1, <1>2, <2>1, <2>5, PostStep
  <2>7. InFlight("int")' = InFlight("int") /\ InFlight("bulk")' = InFlight("bulk")
    <3>1. /\ InFlight("int")' = (Len(posted["int"]) + 1) + Coming("int", eventTrbs')
          /\ InFlight("bulk")' = Len(posted["bulk"]) + Coming("bulk", eventTrbs')
      BY <2>6, FlightAfter
    <3>2. /\ Len(posted["int"]) \in Nat /\ Len(posted["bulk"]) \in Nat
          /\ InFlight("int") = Len(posted["int"]) + Coming("int", eventTrbs)
          /\ InFlight("bulk") = Len(posted["bulk"]) + Coming("bulk", eventTrbs)
      BY <1>1
    <3> QED BY <2>3, <3>1, <3>2
  <2>8. Armed'
    BY <2>6 DEF Armed
  <2>9. has_data'["bulk"] = has_data["bulk"]
    BY <1>1, <1>6, <1>9
  <2>10. Answered' = Answered
    BY <2>9 DEF Answered
  <2>11. XhciTyped'
    BY <1>1, <1>2, <1>6, <2>6 DEF XhciTyped
  <2>12. BulkCounted'
    BY <1>1, <1>2, <1>8, <2>7, <2>10 DEF BulkCounted
  <2>13. AllAwaited'
    <3> SUFFICES ASSUME givenUp = 0
                 PROVE  /\ \A j \in 1 .. Len(posted["bulk"]) : posted["bulk"][j] = waits
                        /\ \A i \in Of("bulk", eventTrbs') : eventTrbs'[i].serial = waits
                        /\ has_data["bulk"] \in {NoSerial, waits}
      BY <1>2, <2>6, <2>9 DEF AllAwaited
    <3>1. /\ \A j \in 1 .. Len(posted["bulk"]) : posted["bulk"][j] = waits
          /\ \A i \in Of("bulk", eventTrbs) : eventTrbs[i].serial = waits
          /\ has_data["bulk"] \in {NoSerial, waits}
      BY <1>1 DEF AllAwaited
    <3> QED BY <1>3, <3>1
  <2>14. IntCounted'
    BY <2>4, <2>7, <2>8 DEF IntCounted
  <2> QED BY <1>3, <1>7, <2>6, <2>11, <2>12, <2>13, <2>14 DEF XhciInv
<1>10. CASE x.ep = "bulk"
  <2>1. UNCHANGED <<xring, xdrv, posted, serial>>
    BY <1>2, <1>4, <1>10
  <2>2. One("int", x) = 0 /\ One("bulk", x) = 1
    BY <1>4, <1>10 DEF One, Completes
  <2>3. /\ Coming("bulk", eventTrbs') + 1 = Coming("bulk", eventTrbs)
        /\ Coming("int", eventTrbs') = Coming("int", eventTrbs)
        /\ Coming("bulk", eventTrbs') \in Nat
    <3>1. /\ Coming("int", eventTrbs') \in Nat /\ Coming("bulk", eventTrbs') \in Nat
          /\ Coming("int", eventTrbs') + 0 = Coming("int", eventTrbs)
          /\ Coming("bulk", eventTrbs') + 1 = Coming("bulk", eventTrbs)
      BY <1>3, <2>2
    <3> QED BY <3>1
  <2>4. /\ InFlight("int")' = InFlight("int") /\ InFlight("bulk")' + 1 = InFlight("bulk")
        /\ InFlight("bulk")' \in Nat /\ InFlight("bulk") \in Nat
    <3>1. /\ InFlight("int")' = Len(posted["int"]) + Coming("int", eventTrbs')
          /\ InFlight("bulk")' = Len(posted["bulk"]) + Coming("bulk", eventTrbs')
      BY <2>1, FlightAfter
    <3>2. /\ Len(posted["int"]) \in Nat /\ Len(posted["bulk"]) \in Nat
          /\ InFlight("int") = Len(posted["int"]) + Coming("int", eventTrbs)
          /\ InFlight("bulk") = Len(posted["bulk"]) + Coming("bulk", eventTrbs)
      BY <1>1
    <3>3. InFlight("int")' = InFlight("int")
      BY <2>3, <3>1, <3>2
    <3>4. Coming("bulk", eventTrbs') \in Nat /\ Coming("bulk", eventTrbs) \in Nat
          /\ Coming("bulk", eventTrbs') + 1 = Coming("bulk", eventTrbs)
      BY <2>3
    <3>5. InFlight("bulk")' + 1 = InFlight("bulk")
      BY <3>1, <3>2, <3>4
    <3>6. InFlight("bulk")' \in Nat /\ InFlight("bulk") \in Nat
      BY <3>1, <3>2, <3>4
    <3> QED BY <3>3, <3>5, <3>6
  <2>5. Armed' <=> Armed
    BY <2>1 DEF Armed
  <2>6. has_data'["bulk"] = x.serial
    BY <1>1, <1>6, <1>10
  <2>7. Answered' = 1
    BY <1>5, <2>6 DEF Answered, NoSerial
  <2>8. XhciTyped'
    BY <1>1, <1>2, <1>6, <2>1 DEF XhciTyped
  <2>9. BulkCounted'
    BY <1>1, <1>2, <1>8, <2>4, <2>7 DEF BulkCounted
  <2>10. AllAwaited'
    <3> SUFFICES ASSUME givenUp = 0
                 PROVE  /\ \A j \in 1 .. Len(posted["bulk"]) : posted["bulk"][j] = waits
                        /\ \A i \in Of("bulk", eventTrbs') : eventTrbs'[i].serial = waits
                        /\ x.serial = waits
      BY <1>2, <2>1, <2>6 DEF AllAwaited
    <3>1. 1 \in Of("bulk", eventTrbs)
      <4>1. 1 \in 1 .. Len(eventTrbs)
        BY <1>3, XhciParts
      <4> QED BY <1>4, <1>10, <4>1 DEF Of, Completes, x
    <3>2. /\ \A j \in 1 .. Len(posted["bulk"]) : posted["bulk"][j] = waits
          /\ \A i \in Of("bulk", eventTrbs) : eventTrbs[i].serial = waits
      BY <1>1 DEF AllAwaited
    <3> QED BY <1>3, <3>1, <3>2 DEF x
  <2>11. IntCounted'
    BY <1>1, <1>2, <2>4, <2>5 DEF IntCounted
  <2>12. RingsInStep'
    BY <1>1, <1>2, <2>1 DEF RingsInStep
  <2> QED BY <1>3, <1>7, <2>8, <2>9, <2>10, <2>11, <2>12 DEF XhciInv
<1> QED BY <1>5, <1>9, <1>10 DEF Endpoints

\* The wait for the answer to a command passes another event over.
LEMMA PassStep ==
  ASSUME XhciInv, xhci_wait_cmd_resp
  PROVE  XhciInv'
<1> USE EndpointsAre
<1> DEFINE x == eventTrbs[1]
<1>1. /\ XhciTyped /\ RingsInStep /\ BulkCounted /\ AllAwaited /\ IntCounted /\ EventsKept
      /\ Answered \in {0, 1} /\ Waiting \in {0, 1} /\ givenUp \in Nat
      /\ \A ep \in Endpoints :
           /\ posted[ep] \in Seq(Nat) /\ Len(posted[ep]) \in Nat
           /\ Coming(ep, eventTrbs) \in Nat
           /\ InFlight(ep) = Len(posted[ep]) + Coming(ep, eventTrbs)
  BY XhciParts
<1>2. /\ xhci_event_ready /\ TrbTaken /\ passedOver' = TRUE
      /\ UNCHANGED <<xring, xdrv, xctl, ering, ectl, eint, has_data, waits, posted, serial, givenUp>>
  BY DEF xhci_wait_cmd_resp
<1>3. /\ eventTrbs # <<>> /\ EventsKept'
      /\ \A ep \in Endpoints :
           /\ Coming(ep, eventTrbs') \in Nat
           /\ Coming(ep, eventTrbs') + One(ep, x) = Coming(ep, eventTrbs)
      /\ \A ep : \A i \in Of(ep, eventTrbs') :
           i + 1 \in Of(ep, eventTrbs) /\ eventTrbs'[i] = eventTrbs[i + 1]
  BY <1>1, <1>2, TakeStep
<1>4. ASSUME NEW ep \in Endpoints
      PROVE  InFlight(ep)' \in Nat /\ InFlight(ep)' <= InFlight(ep) /\ InFlight(ep) \in Nat
  <2>1. InFlight(ep)' = Len(posted[ep]) + Coming(ep, eventTrbs')
    BY <1>2, FlightAfter
  <2>2. /\ Coming(ep, eventTrbs') \in Nat /\ One(ep, x) \in {0, 1}
        /\ Coming(ep, eventTrbs') + One(ep, x) = Coming(ep, eventTrbs)
        /\ Len(posted[ep]) \in Nat /\ Coming(ep, eventTrbs) \in Nat
        /\ InFlight(ep) = Len(posted[ep]) + Coming(ep, eventTrbs)
    BY <1>1, <1>3 DEF One
  <2> QED BY <2>1, <2>2
<1>5. Answered' = Answered /\ Waiting' = Waiting /\ (Armed' <=> Armed)
  BY <1>2 DEF Answered, Waiting, Armed
<1>6. XhciTyped' /\ RingsInStep'
  BY <1>1, <1>2 DEF XhciTyped, RingsInStep
<1>7. BulkCounted'
  <2>1. InFlight("bulk")' \in Nat /\ InFlight("bulk")' <= InFlight("bulk") /\ InFlight("bulk") \in Nat
    BY <1>4
  <2>2. InFlight("bulk") + Answered <= givenUp + Waiting
    BY <1>1 DEF BulkCounted
  <2>3. InFlight("bulk")' + Answered <= givenUp + Waiting
    BY <1>1, <2>1, <2>2
  <2> QED BY <1>2, <1>5, <2>3 DEF BulkCounted
<1>8. AllAwaited'
  <2> SUFFICES ASSUME givenUp = 0
               PROVE  /\ \A j \in 1 .. Len(posted["bulk"]) : posted["bulk"][j] = waits
                      /\ \A i \in Of("bulk", eventTrbs') : eventTrbs'[i].serial = waits
                      /\ has_data["bulk"] \in {NoSerial, waits}
    BY <1>2 DEF AllAwaited
  <2>1. /\ \A j \in 1 .. Len(posted["bulk"]) : posted["bulk"][j] = waits
        /\ \A i \in Of("bulk", eventTrbs) : eventTrbs[i].serial = waits
        /\ has_data["bulk"] \in {NoSerial, waits}
    BY <1>1 DEF AllAwaited
  <2> QED BY <1>3, <2>1
<1>9. IntCounted'
  <2>1. InFlight("int")' \in Nat /\ InFlight("int")' <= InFlight("int") /\ InFlight("int") \in Nat
    BY <1>4
  <2> QED BY <1>1, <1>2, <1>5, <2>1 DEF IntCounted
<1>10. EventsAreAnnounced'
  BY <1>2, <1>3, TakenAnnounced
<1> QED BY <1>3, <1>6, <1>7, <1>8, <1>9, <1>10 DEF XhciInv

\* The answer to a command is no completion; the first read of the interrupt
\* endpoint then arms it.
LEMMA AnswerStep ==
  ASSUME XhciInv, xhci_send_cmd
  PROVE  XhciInv'
<1> USE EndpointsAre
<1> DEFINE x == eventTrbs[1]
<1>1. /\ XhciTyped /\ RingsInStep /\ BulkCounted /\ AllAwaited /\ IntCounted /\ EventsKept
      /\ Answered \in {0, 1} /\ Waiting \in {0, 1} /\ givenUp \in Nat
      /\ \A ep \in Endpoints :
           /\ posted[ep] \in Seq(Nat) /\ Len(posted[ep]) \in Nat
           /\ Coming(ep, eventTrbs) \in Nat
           /\ InFlight(ep) = Len(posted[ep]) + Coming(ep, eventTrbs)
  BY XhciParts
<1>2. /\ xhci_event_ready /\ ering[edrv.idx].type = "command" /\ TrbTaken
      /\ \/ UNCHANGED <<xring, xdrv, posted, serial>>
         \/ ~Armed /\ xhci_post_transfer_trb("int")
      /\ UNCHANGED <<xctl, ering, ectl, eint, has_data, waits, givenUp, passedOver>>
  BY DEF xhci_send_cmd
<1>3. /\ eventTrbs # <<>> /\ Content(ering[edrv.idx]) = x /\ EventsKept'
      /\ \A ep \in Endpoints :
           /\ Coming(ep, eventTrbs') \in Nat
           /\ Coming(ep, eventTrbs') + One(ep, x) = Coming(ep, eventTrbs)
      /\ \A ep : \A i \in Of(ep, eventTrbs') :
           i + 1 \in Of(ep, eventTrbs) /\ eventTrbs'[i] = eventTrbs[i + 1]
  BY <1>1, <1>2, TakeStep
<1>4. x.type = "command"
  BY <1>2, <1>3 DEF Content
<1>5. ASSUME NEW ep \in Endpoints PROVE Coming(ep, eventTrbs') = Coming(ep, eventTrbs)
  <2>1. One(ep, x) = 0
    BY <1>4 DEF One, Completes
  <2>2. Coming(ep, eventTrbs') \in Nat /\ Coming(ep, eventTrbs') + 0 = Coming(ep, eventTrbs)
    BY <1>3, <2>1
  <2> QED BY <2>2
<1>6. Answered' = Answered /\ Waiting' = Waiting
  BY <1>2 DEF Answered, Waiting
<1>7. EventsAreAnnounced'
  BY <1>2, <1>3, TakenAnnounced
<1>8. ASSUME posted'["bulk"] = posted["bulk"]
      PROVE  BulkCounted' /\ AllAwaited'
  <2>1. InFlight("bulk")' = InFlight("bulk")
    BY <1>1, <1>5, <1>8, FlightAfter
  <2>2. BulkCounted'
    BY <1>1, <1>2, <1>6, <2>1 DEF BulkCounted
  <2>3. AllAwaited'
    <3> SUFFICES ASSUME givenUp = 0
                 PROVE  /\ \A j \in 1 .. Len(posted["bulk"]) : posted["bulk"][j] = waits
                        /\ \A i \in Of("bulk", eventTrbs') : eventTrbs'[i].serial = waits
                        /\ has_data["bulk"] \in {NoSerial, waits}
      BY <1>2, <1>8 DEF AllAwaited
    <3>1. /\ \A j \in 1 .. Len(posted["bulk"]) : posted["bulk"][j] = waits
          /\ \A i \in Of("bulk", eventTrbs) : eventTrbs[i].serial = waits
          /\ has_data["bulk"] \in {NoSerial, waits}
      BY <1>1 DEF AllAwaited
    <3> QED BY <1>3, <3>1
  <2> QED BY <2>2, <2>3
<1>9. CASE UNCHANGED <<xring, xdrv, posted, serial>>
  <2>1. InFlight("int")' = InFlight("int")
    BY <1>1, <1>5, <1>9, FlightAfter
  <2>2. Armed' <=> Armed
    BY <1>9 DEF Armed
  <2>3. IntCounted'
    BY <1>1, <1>2, <2>1, <2>2 DEF IntCounted
  <2>4. XhciTyped' /\ RingsInStep'
    BY <1>1, <1>2, <1>9 DEF XhciTyped, RingsInStep
  <2> QED BY <1>3, <1>7, <1>8, <1>9, <2>3, <2>4 DEF XhciInv
<1>10. CASE ~Armed /\ xhci_post_transfer_trb("int")
  <2>1. InFlight("int") = 0
    BY <1>1, <1>10 DEF IntCounted
  <2>2. Len(posted["int"]) = 0 /\ Coming("int", eventTrbs) = 0
    BY <1>1, <2>1
  <2>3. Len(posted["int"]) < LinkAt
    BY <2>2, LinkIs
  <2>4. /\ xring' \in [Endpoints -> RingState] /\ xdrv' \in [Endpoints -> PlaceState]
        /\ posted' \in [Endpoints -> Seq(Nat)] /\ serial' \in Nat
        /\ RingsInStep'
        /\ Len(posted'["int"]) = Len(posted["int"]) + 1
        /\ xdrv'["int"].idx # 0
        /\ posted'["bulk"] = posted["bulk"]
    BY <1>1, <1>2, <1>10, <2>3, PostStep
  <2>5. InFlight("int")' = 1
    <3>1. InFlight("int")' = Len(posted'["int"]) + Coming("int", eventTrbs')
      BY FlightAfter
    <3>2. Coming("int", eventTrbs') = 0 /\ Len(posted'["int"]) = 1
      BY <1>5, <2>2, <2>4
    <3> QED BY <3>1, <3>2
  <2>6. Armed'
    BY <2>4 DEF Armed
  <2>7. IntCounted'
    BY <2>5, <2>6 DEF IntCounted
  <2>8. XhciTyped'
    BY <1>1, <1>2, <2>4 DEF XhciTyped
  <2> QED BY <1>3, <1>7, <1>8, <2>4, <2>7, <2>8 DEF XhciInv
<1> QED BY <1>2, <1>9, <1>10

\* The controller follows a link.
LEMMA LinkStep ==
  ASSUME XhciInv, NEW ep \in Endpoints, FollowLink(ep)
  PROVE  XhciInv'
<1>1. /\ XhciTyped /\ RingsInStep /\ BulkCounted /\ AllAwaited /\ IntCounted /\ EventsKept
      /\ EventsAreAnnounced
  BY XhciParts
<1>2. /\ xring[ep][xctl[ep].idx].cycle = xctl[ep].cycle
      /\ xring[ep][xctl[ep].idx].type = "link"
      /\ xctl' = [xctl EXCEPT ![ep] = PastLink(xctl[ep])]
      /\ UNCHANGED <<xring, xdrv, ering, edrv, ectl, eint, has_data, waits, posted, eventTrbs,
                     serial, givenUp, passedOver>>
  BY DEF FollowLink, Owned, Here
<1>3. TransferRing(xring[ep], xdrv[ep], xctl[ep], posted[ep])
  BY <1>1 DEF RingsInStep
<1>4. TransferRing(xring[ep], xdrv[ep], PastLink(xctl[ep]), posted[ep])
  BY <1>2, <1>3, FollowKeeps
<1>5. PastLink(xctl[ep]) \in PlaceState
  BY <1>4, RingParts
<1>6. xctl \in [Endpoints -> PlaceState]
  BY <1>1 DEF XhciTyped
<1> DEFINE e == PastLink(xctl[ep])
<1> HIDE DEF e
<1>7. xctl' \in [Endpoints -> PlaceState] /\ xctl'[ep] = e
      /\ \A o \in Endpoints : o # ep => xctl'[o] = xctl[o]
  BY <1>2, <1>5, <1>6 DEF e
<1>8. RingsInStep'
  BY <1>1, <1>2, <1>4, <1>7 DEF RingsInStep, e
<1>9. XhciTyped'
  BY <1>1, <1>2, <1>7 DEF XhciTyped
<1>10. EventsKept' /\ EventsAreAnnounced' /\ AllAwaited'
  BY <1>1, <1>2 DEF EventsKept, EventsAreAnnounced, AllAwaited, Of
<1>11. \A o \in Endpoints : InFlight(o)' = InFlight(o)
  BY <1>2 DEF InFlight
<1>12. Answered' = Answered /\ Waiting' = Waiting /\ (Armed' <=> Armed)
  BY <1>2 DEF Answered, Waiting, Armed
<1>13. InFlight("bulk")' = InFlight("bulk") /\ InFlight("int")' = InFlight("int")
  BY <1>11, EndpointsAre
<1>14. BulkCounted' /\ IntCounted'
  BY <1>1, <1>2, <1>12, <1>13 DEF BulkCounted, IntCounted
<1> QED BY <1>8, <1>9, <1>10, <1>14 DEF XhciInv

\* The controller answers a command.
LEMMA CommandStep ==
  ASSUME XhciInv, AnswerCommand
  PROVE  XhciInv'
<1> USE EndpointsAre
<1> DEFINE x == [type |-> "command", ep |-> "bulk", serial |-> 0]
<1>1. /\ XhciTyped /\ RingsInStep /\ BulkCounted /\ AllAwaited /\ IntCounted /\ EventsKept
      /\ \A ep \in Endpoints :
           /\ posted[ep] \in Seq(Nat) /\ Len(posted[ep]) \in Nat
           /\ Coming(ep, eventTrbs) \in Nat
           /\ InFlight(ep) = Len(posted[ep]) + Coming(ep, eventTrbs)
  BY XhciParts
<1>2. /\ WriteTrb("command", "bulk", 0)
      /\ UNCHANGED <<xring, xdrv, xctl, edrv, has_data, waits, posted, serial, givenUp, passedOver>>
  BY DEF AnswerCommand
<1>3. /\ EventsKept' /\ EventsAreAnnounced'
      /\ \A o \in Endpoints :
           /\ Coming(o, eventTrbs) \in Nat
           /\ Coming(o, eventTrbs') = Coming(o, eventTrbs) + One(o, x)
      /\ \A o : \A i \in Of(o, eventTrbs') :
           \/ i \in Of(o, eventTrbs) /\ eventTrbs'[i] = eventTrbs[i]
           \/ Completes(o, x) /\ eventTrbs'[i] = x
  BY <1>1, <1>2, WriteStep
<1>4. ~Completes("bulk", x) /\ \A o \in Endpoints : One(o, x) = 0
  BY DEF Completes, One
<1>5. ASSUME NEW o \in Endpoints PROVE InFlight(o)' = InFlight(o)
  <2>1. Coming(o, eventTrbs') = Coming(o, eventTrbs) + 0 /\ Coming(o, eventTrbs) \in Nat
    BY <1>3, <1>4
  <2> QED BY <1>1, <1>2, <2>1, FlightAfter
<1>6. InFlight("bulk")' = InFlight("bulk") /\ InFlight("int")' = InFlight("int")
  BY <1>5
<1>7. Answered' = Answered /\ Waiting' = Waiting /\ (Armed' <=> Armed)
  BY <1>2 DEF Answered, Waiting, Armed
<1>8. BulkCounted' /\ IntCounted'
  BY <1>1, <1>2, <1>6, <1>7 DEF BulkCounted, IntCounted
<1>9. AllAwaited'
  <2> SUFFICES ASSUME givenUp = 0
               PROVE  /\ \A j \in 1 .. Len(posted["bulk"]) : posted["bulk"][j] = waits
                      /\ \A i \in Of("bulk", eventTrbs') : eventTrbs'[i].serial = waits
                      /\ has_data["bulk"] \in {NoSerial, waits}
    BY <1>2 DEF AllAwaited
  <2>1. /\ \A j \in 1 .. Len(posted["bulk"]) : posted["bulk"][j] = waits
        /\ \A i \in Of("bulk", eventTrbs) : eventTrbs[i].serial = waits
        /\ has_data["bulk"] \in {NoSerial, waits}
    BY <1>1 DEF AllAwaited
  <2> QED BY <1>3, <1>4, <2>1
<1>10. XhciTyped' /\ RingsInStep'
  BY <1>1, <1>2 DEF XhciTyped, RingsInStep
<1> QED BY <1>3, <1>8, <1>9, <1>10 DEF XhciInv

\* The controller carries a transfer out and writes its event.
LEMMA CarryStep ==
  ASSUME XhciInv, NEW ep \in Endpoints, CarryOut(ep)
  PROVE  XhciInv'
<1> USE EndpointsAre
<1> DEFINE s == xring[ep][xctl[ep].idx].serial
           x == [type |-> "transfer", ep |-> ep, serial |-> s]
           e == [xctl[ep] EXCEPT !.idx = @ + 1]
<1>1. /\ XhciTyped /\ RingsInStep /\ BulkCounted /\ AllAwaited /\ IntCounted /\ EventsKept
      /\ \A o \in Endpoints :
           /\ posted[o] \in Seq(Nat) /\ Len(posted[o]) \in Nat
           /\ Coming(o, eventTrbs) \in Nat
           /\ InFlight(o) = Len(posted[o]) + Coming(o, eventTrbs)
  BY XhciParts
<1>2. /\ xring[ep][xctl[ep].idx].cycle = xctl[ep].cycle
      /\ xring[ep][xctl[ep].idx].type = "normal"
      /\ WriteTrb("transfer", ep, s)
      /\ xctl' = [xctl EXCEPT ![ep] = e]
      /\ posted' = [posted EXCEPT ![ep] = IF posted[ep] = <<>> THEN posted[ep] ELSE Tail(posted[ep])]
      /\ UNCHANGED <<xring, xdrv, edrv, has_data, waits, serial, givenUp, passedOver>>
  BY DEF CarryOut, Owned, Here
<1>3. TransferRing(xring[ep], xdrv[ep], xctl[ep], posted[ep])
  BY <1>1 DEF RingsInStep
<1>4. /\ posted[ep] # <<>> /\ s = posted[ep][1]
      /\ TransferRing(xring[ep], xdrv[ep], e, Tail(posted[ep]))
  BY <1>2, <1>3, CarryKeeps
<1>5. s \in Nat /\ e \in PlaceState
  <2>1. s \in Nat
    BY <1>1, <1>4
  <2>2. e \in PlaceState
    BY <1>4, RingParts
  <2> QED BY <2>1, <2>2
<1> HIDE DEF s, e
<1>6. /\ EventsKept' /\ EventsAreAnnounced'
      /\ \A o \in Endpoints :
           /\ Coming(o, eventTrbs) \in Nat
           /\ Coming(o, eventTrbs') = Coming(o, eventTrbs) + One(o, x)
      /\ \A o : \A i \in Of(o, eventTrbs') :
           \/ i \in Of(o, eventTrbs) /\ eventTrbs'[i] = eventTrbs[i]
           \/ Completes(o, x) /\ eventTrbs'[i] = x
  BY <1>1, <1>2, <1>5, WriteStep
<1>7. /\ xctl' \in [Endpoints -> PlaceState] /\ xctl'[ep] = e
      /\ posted'[ep] = Tail(posted[ep]) /\ posted' \in [Endpoints -> Seq(Nat)]
      /\ \A o \in Endpoints : o # ep => xctl'[o] = xctl[o] /\ posted'[o] = posted[o]
  <2>1. xctl \in [Endpoints -> PlaceState] /\ posted \in [Endpoints -> Seq(Nat)]
    BY <1>1 DEF XhciTyped
  <2>2. Tail(posted[ep]) \in Seq(Nat)
    BY <1>1, <1>4
  <2> QED BY <1>2, <1>4, <1>5, <2>1, <2>2
<1>8. RingsInStep'
  <2> SUFFICES ASSUME NEW o \in Endpoints
               PROVE  TransferRing(xring[o], xdrv[o], xctl'[o], posted'[o])
    BY <1>2 DEF RingsInStep
  <2>1. CASE o = ep
    BY <1>4, <1>7, <2>1
  <2>2. CASE o # ep
    BY <1>1, <1>7, <2>2 DEF RingsInStep
  <2> QED BY <2>1, <2>2
<1>9. XhciTyped'
  BY <1>1, <1>2, <1>7 DEF XhciTyped
<1>10. One(ep, x) = 1 /\ \A o \in Endpoints : o # ep => One(o, x) = 0
  BY DEF One, Completes
<1>11. ASSUME NEW o \in Endpoints PROVE InFlight(o)' = InFlight(o)
  <2>1. InFlight(o)' = Len(posted'[o]) + Coming(o, eventTrbs')
    BY FlightAfter
  <2>2. /\ InFlight(o) = Len(posted[o]) + Coming(o, eventTrbs) /\ Len(posted[o]) \in Nat
        /\ Coming(o, eventTrbs) \in Nat
        /\ Coming(o, eventTrbs') = Coming(o, eventTrbs) + One(o, x)
    BY <1>1, <1>6
  <2>3. CASE o = ep
    <3>1. Len(posted'[o]) = Len(posted[o]) - 1
      BY <1>1, <1>4, <1>7, <2>3
    <3>2. Coming(o, eventTrbs') = Coming(o, eventTrbs) + 1
      BY <1>10, <2>2, <2>3
    <3> QED BY <2>1, <2>2, <3>1, <3>2
  <2>4. CASE o # ep
    <3>1. posted'[o] = posted[o] /\ Coming(o, eventTrbs') = Coming(o, eventTrbs) + 0
      BY <1>7, <1>10, <2>2, <2>4
    <3> QED BY <2>1, <2>2, <3>1
  <2> QED BY <2>3, <2>4
<1>12. InFlight("bulk")' = InFlight("bulk") /\ InFlight("int")' = InFlight("int")
  BY <1>11
<1>13. Answered' = Answered /\ Waiting' = Waiting /\ (Armed' <=> Armed)
  BY <1>2 DEF Answered, Waiting, Armed
<1>14. BulkCounted' /\ IntCounted'
  BY <1>1, <1>2, <1>12, <1>13 DEF BulkCounted, IntCounted
<1>15. AllAwaited'
  <2> SUFFICES ASSUME givenUp = 0
               PROVE  /\ \A j \in 1 .. Len(posted'["bulk"]) : posted'["bulk"][j] = waits
                      /\ \A i \in Of("bulk", eventTrbs') : eventTrbs'[i].serial = waits
                      /\ has_data["bulk"] \in {NoSerial, waits}
    BY <1>2 DEF AllAwaited
  <2>1. /\ \A j \in 1 .. Len(posted["bulk"]) : posted["bulk"][j] = waits
        /\ \A i \in Of("bulk", eventTrbs) : eventTrbs[i].serial = waits
        /\ has_data["bulk"] \in {NoSerial, waits}
    BY <1>1 DEF AllAwaited
  <2>2. CASE ep = "bulk"
    <3>1. /\ Len(posted'["bulk"]) = Len(posted["bulk"]) - 1
          /\ \A j \in 1 .. Len(posted'["bulk"]) :
               posted'["bulk"][j] = posted["bulk"][j + 1] /\ j + 1 \in 1 .. Len(posted["bulk"])
      <4> DEFINE q == posted["bulk"]
      <4>1. q \in Seq(Nat) /\ q # <<>> /\ posted'["bulk"] = Tail(q)
        BY <1>1, <1>4, <1>7, <2>2
      <4> HIDE DEF q
      <4>2. Len(Tail(q)) = Len(q) - 1 /\ Len(q) \in Nat
            /\ \A j \in 1 .. Len(q) - 1 : Tail(q)[j] = q[j + 1] /\ j + 1 \in 1 .. Len(q)
        BY <4>1
      <4> QED BY <4>1, <4>2 DEF q
    <3>2. s = waits
      <4>1. 1 \in 1 .. Len(posted["bulk"])
        BY <1>1, <1>4, <2>2
      <4> QED BY <1>4, <2>1, <2>2, <4>1
    <3>3. x.serial = waits
      BY <3>2
    <3> HIDE DEF x
    <3> QED BY <1>6, <2>1, <3>1, <3>3
  <2>3. CASE ep = "int"
    <3>1. posted'["bulk"] = posted["bulk"] /\ ~Completes("bulk", x)
      BY <1>7, <2>3 DEF Completes
    <3> HIDE DEF x
    <3> QED BY <1>6, <2>1, <3>1
  <2> QED BY <2>2, <2>3 DEF Endpoints
<1> QED BY <1>6, <1>8, <1>9, <1>14, <1>15 DEF XhciInv

\* Every step of the driver and the controller keeps the invariant.
LEMMA XhciNextKeeps ==
  ASSUME PostsFit, XhciInv, [XhciNext]_xhciVars
  PROVE  XhciInv'
<1>1. CASE xhci_bulk_transfer_packet
  BY <1>1, BulkPosts
<1>2. CASE PollTransfer
  BY <1>2, PollStep
<1>3. CASE PollNothing \/ BulkReturns \/ BulkTimesOut \/ IntReturns \/ xhci_post_cmd
  BY <1>3, WaitsStep
<1>4. CASE xhci_wait_cmd_resp
  BY <1>4, PassStep
<1>5. CASE xhci_send_cmd
  BY <1>5, AnswerStep
<1>6. CASE AnswerCommand
  BY <1>6, CommandStep
<1>7. ASSUME NEW ep \in Endpoints, FollowLink(ep) \/ CarryOut(ep) PROVE XhciInv'
  BY <1>7, LinkStep, CarryStep
<1>8. CASE UNCHANGED xhciVars
  <2>1. XhciTyped' /\ RingsInStep' /\ EventsKept' /\ AllAwaited' /\ EventsAreAnnounced'
    BY <1>8 DEF XhciInv, xhciVars, XhciTyped, RingsInStep, EventsKept, AllAwaited, Of,
                EventsAreAnnounced
  <2>2. BulkCounted' /\ IntCounted'
    BY <1>8 DEF XhciInv, xhciVars, BulkCounted, IntCounted, InFlight, Answered, Waiting, Armed
  <2> QED BY <2>1, <2>2 DEF XhciInv
<1> QED BY <1>1, <1>2, <1>3, <1>4, <1>5, <1>6, <1>7, <1>8 DEF XhciNext

\* The invariant says that the rings are in step and that completions are kept.
LEMMA XhciInvSafe == XhciInv => XhciSafe
<1> SUFFICES ASSUME XhciInv PROVE XhciSafe
  OBVIOUS
<1> USE EndpointsAre
<1>1. /\ XhciTyped /\ RingsInStep /\ BulkCounted /\ AllAwaited /\ IntCounted /\ EventsKept
      /\ EventsAreAnnounced /\ eventTrbs \in Seq(Event)
      /\ Answered \in {0, 1} /\ Waiting \in {0, 1} /\ givenUp \in Nat
      /\ \A ep \in Endpoints :
           /\ posted[ep] \in Seq(Nat) /\ Len(posted[ep]) \in Nat
           /\ Coming(ep, eventTrbs) \in Nat
           /\ InFlight(ep) = Len(posted[ep]) + Coming(ep, eventTrbs)
  BY XhciParts
<1>2. XhciTypeOK
  <2>1. \A ep \in Endpoints : xdrv[ep].idx \in 0 .. LinkAt /\ xctl[ep].idx \in 0 .. LinkAt
    BY <1>1 DEF XhciTyped, PlaceState
  <2>2. edrv.idx \in 0 .. EventRingSize - 1 /\ ectl.idx \in 0 .. EventRingSize - 1
    BY <1>1, EventParts DEF EventsKept
  <2> QED BY <2>1, <2>2 DEF XhciTypeOK
<1>3. EventsInStep
  <2>1. /\ xhci_event_ready <=> eventTrbs # <<>>
        /\ eventTrbs # <<>> => Content(ering[edrv.idx]) = eventTrbs[1]
    BY <1>1, EventSeen DEF EventsKept, xhci_event_ready
  <2>2. eventTrbs # <<>> => eventTrbs[1] = Head(eventTrbs)
    BY <1>1
  <2> QED BY <2>1, <2>2 DEF EventsInStep, Content
<1>4. TransfersInStep
  <2> SUFFICES ASSUME NEW ep \in Endpoints
               PROVE  /\ posted[ep] # <<>> => After(ep) = <<Head(posted[ep])>>
                      /\ posted[ep] = <<>> => After(ep) = <<>>
    BY DEF TransfersInStep
  <2>1. TransferRing(xring[ep], xdrv[ep], xctl[ep], posted[ep])
    BY <1>1 DEF RingsInStep
  <2>2. /\ posted[ep] # <<>> =>
             /\ Owned(ep)
             /\ \/ Here(ep).type = "normal" /\ Here(ep).serial = posted[ep][1]
                \/ /\ Here(ep).type = "link"
                   /\ xring[ep][0].cycle = 1 - xctl[ep].cycle /\ xring[ep][0].serial = posted[ep][1]
        /\ posted[ep] = <<>> =>
             \/ ~Owned(ep)
             \/ Here(ep).type = "link" /\ xring[ep][0].cycle # 1 - xctl[ep].cycle
    BY <2>1, RingFinds DEF Owned, Here
  <2>3. posted[ep] # <<>> => Head(posted[ep]) = posted[ep][1]
    BY <1>1
  <2>4. ASSUME posted[ep] # <<>> PROVE After(ep) = <<posted[ep][1]>>
    BY <2>2, <2>4 DEF After
  <2>5. ASSUME posted[ep] = <<>> PROVE After(ep) = <<>>
    BY <2>2, <2>5 DEF After
  <2> QED BY <2>3, <2>4, <2>5
<1>5. AnswersAreOwn
  BY <1>1 DEF AllAwaited, AnswersAreOwn
<1>6. ASSUME NEW ep \in Endpoints, InFlight(ep) > 0
      PROVE  posted[ep] # <<>> \/ OnItsWay(ep)
  <2>1. Len(posted[ep]) # 0 \/ Coming(ep, eventTrbs) # 0
    BY <1>1, <1>6
  <2>2. CASE Coming(ep, eventTrbs) # 0
    <3>1. Of(ep, eventTrbs) # {}
      BY <1>1, <2>2, ComingIs
    <3>2. PICK i \in Of(ep, eventTrbs) : TRUE
      BY <3>1
    <3>3. i \in DOMAIN eventTrbs
      BY <1>1, <3>2 DEF Of
    <3> QED BY <3>2, <3>3 DEF Of, Completes, OnItsWay
  <2>3. CASE Len(posted[ep]) # 0
    BY <1>1, <2>3
  <2> QED BY <2>1, <2>2, <2>3
<1>7. StaysArmed
  <2> SUFFICES ASSUME Armed, ~passedOver PROVE posted["int"] # <<>> \/ OnItsWay("int")
    BY DEF StaysArmed
  <2>1. InFlight("int") > 0
    BY <1>1 DEF IntCounted
  <2> QED BY <1>6, <2>1
<1>8. WaitIsAnswered
  <2> SUFFICES ASSUME waits # NoSerial, ~passedOver, has_data["bulk"] = NoSerial
               PROVE  posted["bulk"] # <<>> \/ OnItsWay("bulk")
    BY DEF WaitIsAnswered
  <2>1. InFlight("bulk") > 0
    BY <1>1 DEF BulkCounted, Answered
  <2> QED BY <1>6, <2>1
<1> QED BY <1>1, <1>2, <1>3, <1>4, <1>5, <1>7, <1>8 DEF XhciSafe

\* For rings of any size that hold the transfers given up and one more, the
\* driver and the controller agree on every entry; a task takes its own
\* completion while none was given up; and no completion is lost, unless the
\* wait for a command passed it over.
THEOREM XhciIsSafe ==
  ASSUME PostsFit
  PROVE  XhciSpec => []XhciSafe
<1>1. XhciInit => XhciInv
  BY XhciStarts
<1>2. XhciInv /\ [XhciNext]_xhciVars => XhciInv'
  BY XhciNextKeeps
<1>3. XhciInv => XhciSafe
  BY XhciInvSafe
<1> QED BY <1>1, <1>2, <1>3, PTL DEF XhciSpec

-----------------------------------------------------------------------------
(* One task and the stick.  A command in step goes through eight stages; a   *)
(* transfer given up leaves the two out of step, and then no command ever    *)
(* succeeds.                                                                 *)

Kinds == {"cbw", "sector", "csw"}
Lengths == {CbwLength, CswLength, SectorLength}
Ops == {"read", "write"}
Commands == [op : Ops, lba : Lbas, tag : Nat]
Packets == [kind : Kinds, len : Lengths, body : Commands \cup Data \cup {Garbage, 0}]
Posted(t) == [of : {t, Nobody}, packet : Packets]
Outs == bulkPipes["out"]
Ins == bulkPipes["in"]
IsCommand(x) == x.packet.kind = "cbw"

StickState ==
  [phase : {"command", "out", "in", "status", "stalled"}, op : Ops, lba : Lbas,
   tag : Nat, status : {0, 1}, residue : Nat]
StoringState(t) ==
  [pc : {"rest", "cbw", "data", "csw"}, op : Ops \cup {"none"}, lba : Lbas \cup {"none"},
   value : Data \cup {Garbage}, tag : Nat,
   got : {storing[t].got}]
DoneState == [set : BOOLEAN, ok : BOOLEAN, residue : Nat]

StorageTyped(t) ==
  /\ bulkPipes \in [Pipes -> Seq(Posted(t))]
  /\ done \in [Pipes -> DoneState]
  /\ stick \in StickState
  /\ DOMAIN storing = {t} /\ DOMAIN inbuf = {t}
  /\ storing[t] \in StoringState(t)
  /\ storing[t].pc # "rest" =>
       storing[t].op \in Ops /\ storing[t].lba \in Lbas /\ storing[t].tag = tag
  /\ tag \in 0 .. MaxCommands /\ abandoned \in 0 .. MaxTimeouts
  /\ DOMAIN medium = Lbas /\ DOMAIN expected = Lbas

\* The packets in the queues: what is sent are commands and sectors, and a
\* command's tag is no later than the driver's.
QueuesTold ==
  /\ \A n \in DOMAIN Outs :
       IF IsCommand(Outs[n])
         THEN /\ Outs[n].packet.body \in Commands
              /\ Outs[n].packet.body.tag <= tag
         ELSE Outs[n].packet.kind = "sector"
  /\ \A n \in DOMAIN Ins : ~IsCommand(Ins[n])
  /\ stick.tag <= tag
  /\ stick.phase # "stalled" /\ done["out"].set => done["out"].ok /\ done["out"].residue = 0

\* A sector that a command may still write is not known.
WritesUnknown ==
  /\ \A n \in DOMAIN Outs :
       IsCommand(Outs[n]) /\ Outs[n].packet.body.op = "write" =>
         expected[Outs[n].packet.body.lba] = Unknown
  /\ stick.phase = "out" => expected[stick.lba] = Unknown

Quiet == Len(Outs) = 0 /\ Len(Ins) = 0
Through(e) == done[e].set /\ done[e].ok /\ done[e].residue = 0

\* The stick works on the task's command.
Serves(t) ==
  /\ stick.op = storing[t].op /\ stick.lba = storing[t].lba /\ stick.tag = storing[t].tag
  /\ stick.residue = 0

\* What a command was to do is done: the packet p was read, or the data written.
IsDone(t, p) ==
  IF storing[t].op = "read" THEN p = Sector(medium[storing[t].lba])
  ELSE medium[storing[t].lba] = storing[t].value
Kept(t, p) == stick.status = 0 => IsDone(t, p)

\* The stages of a command.
Resting0(t) == storing[t].pc = "rest" /\ Quiet /\ stick.phase = "command"
Command0(t) ==
  /\ storing[t].pc = "cbw" /\ Len(Outs) = 1 /\ Len(Ins) = 0 /\ stick.phase = "command"
  /\ Outs[1] = [of |-> t,
                packet |-> Packet("cbw", CbwLength, [op |-> storing[t].op, lba |-> storing[t].lba,
                                                     tag |-> storing[t].tag])]
  /\ ~done["out"].set
Command1(t) ==
  /\ storing[t].pc = "cbw" /\ Quiet /\ Through("out") /\ Serves(t) /\ stick.status = 0
  /\ stick.phase = IF storing[t].op = "read" THEN "in" ELSE "out"
Data0(t) ==
  /\ storing[t].pc = "data" /\ Serves(t) /\ ~done[DataPipe(storing[t])].set /\ stick.status = 0
  /\ IF storing[t].op = "read"
       THEN /\ Len(Outs) = 0 /\ Len(Ins) = 1 /\ Ins[1].of = t /\ Ins[1].packet.len = SectorLength
            /\ stick.phase = "in"
       ELSE /\ Len(Outs) = 1 /\ Len(Ins) = 0
            /\ Outs[1] = [of |-> t, packet |-> Sector(storing[t].value)]
            /\ stick.phase = "out"
Data1(t) ==
  /\ storing[t].pc = "data" /\ Serves(t) /\ Through(DataPipe(storing[t])) /\ Quiet
  /\ stick.phase = "status" /\ Kept(t, inbuf[t])
Status0(t) ==
  /\ storing[t].pc = "csw" /\ Serves(t) /\ ~done["in"].set
  /\ storing[t].got.bytes = SectorLength /\ Kept(t, storing[t].got.packet)
  /\ Len(Outs) = 0 /\ Len(Ins) = 1 /\ Ins[1].of = t /\ Ins[1].packet.len = CswLength
  /\ stick.phase = "status"
Status1(t) ==
  /\ storing[t].pc = "csw" /\ Quiet /\ stick.phase = "command"
  /\ storing[t].got.bytes = SectorLength
  /\ inbuf[t].kind = "csw"
  /\ inbuf[t].body.status = 0 => IsDone(t, storing[t].got.packet)

\* A status that is given after its transfer was given up.
Late(t) ==
  /\ Len(Ins) = 1 /\ stick.phase = "status" /\ Ins[1].of = Nobody
  /\ \/ storing[t].pc = "rest" /\ Len(Outs) = 0
     \/ /\ storing[t].pc = "cbw" /\ ~done["out"].set /\ Len(Outs) = 1
        /\ Outs[1] = [of |-> t,
                      packet |-> Packet("cbw", CbwLength, [op |-> storing[t].op,
                                          lba |-> storing[t].lba, tag |-> storing[t].tag])]

InStep(t) ==
  \/ Resting0(t) \/ Command0(t) \/ Command1(t) \/ Data0(t) \/ Data1(t) \/ Status0(t) \/ Status1(t)
  \/ Late(t) /\ abandoned = MaxTimeouts

\* The stick is at a command before the task's, or has not taken it.
Behind1(t) == stick.tag # storing[t].tag
\* What the task received is not the status of its command.
NotOurs(t) == ~(inbuf[t].kind = "csw" /\ inbuf[t].body.tag = storing[t].tag)
Lacks(t) == storing[t].got.bytes # SectorLength
Own(t, n) == IsCommand(Outs[n]) /\ Outs[n].packet.body.tag = storing[t].tag
Elsewhere == stick.phase \in {"in", "out", "status"}

LostResting(t) ==
  /\ storing[t].pc = "rest"
  /\ \/ Len(Outs) = 1 /\ Len(Ins) = 0 /\ IsCommand(Outs[1]) /\ stick.phase = "command"
     \/ Len(Outs) = 0 /\ Len(Ins) = 1 /\ Ins[1].packet.len = SectorLength /\ stick.phase = "in"
     \/ Len(Outs) = 1 /\ Len(Ins) = 0 /\ ~IsCommand(Outs[1]) /\ stick.phase \in {"out", "command"}
     \/ Quiet /\ Elsewhere
LostCommand(t) ==
  /\ storing[t].pc = "cbw" /\ Behind1(t)
  /\ \/ /\ Len(Outs) = 2 /\ Len(Ins) = 0 /\ Own(t, 2) /\ ~done["out"].set
        /\ \/ stick.phase = "command" /\ IsCommand(Outs[1]) /\ Outs[1].packet.body.tag # storing[t].tag
           \/ stick.phase \in {"out", "command"} /\ ~IsCommand(Outs[1])
     \/ /\ Len(Outs) = 1 /\ Len(Ins) = 1 /\ Own(t, 1) /\ Ins[1].packet.len = SectorLength
        /\ stick.phase = "in" /\ ~done["out"].set
     \/ Len(Outs) = 1 /\ Len(Ins) = 0 /\ Own(t, 1) /\ Elsewhere
     \/ Quiet /\ stick.phase = "status"
LostRead(t) ==
  /\ storing[t].pc = "data" /\ storing[t].op = "read"
  /\ \/ /\ Len(Ins) = 1 /\ Ins[1].packet.len = SectorLength /\ Behind1(t) /\ ~done["in"].set
        /\ \/ Len(Outs) = 1 /\ IsCommand(Outs[1]) /\ Elsewhere
           \/ Len(Outs) = 0 /\ stick.phase = "status"
     \/ /\ Len(Outs) = 1 /\ IsCommand(Outs[1]) /\ Len(Ins) = 0 /\ Behind1(t)
        /\ stick.phase = "status" /\ Through("in")
     \/ /\ Len(Ins) = 0 /\ done["in"].set /\ done["in"].ok
        /\ done["in"].residue = SectorLength - CswLength
        /\ \/ Len(Outs) = 1 /\ IsCommand(Outs[1]) /\ stick.phase = "command"
           \/ Len(Outs) = 0 /\ stick.phase \in {"command", "in", "out"}
LostWrite(t) ==
  /\ storing[t].pc = "data" /\ storing[t].op = "write" /\ Len(Ins) = 0 /\ Behind1(t)
  /\ \/ Len(Outs) = 2 /\ ~IsCommand(Outs[2]) /\ Elsewhere /\ ~done["out"].set
     \/ Len(Outs) = 1 /\ ~IsCommand(Outs[1]) /\ stick.phase = "status"
LostStatus(t) ==
  /\ storing[t].pc = "csw"
  /\ \/ /\ Len(Outs) = 1 /\ Len(Ins) = 1 /\ stick.phase = "status" /\ Behind1(t) /\ ~done["in"].set
        /\ NotOurs(t)
     \/ Len(Outs) = 1 /\ Len(Ins) = 0 /\ stick.phase = "command" /\ NotOurs(t)
     \/ Quiet /\ stick.phase \in {"in", "out"} /\ NotOurs(t)
     \/ /\ Len(Ins) = 1 /\ Ins[1].packet.len = CswLength /\ Lacks(t) /\ ~done["in"].set
        /\ \/ Len(Outs) = 1 /\ IsCommand(Outs[1]) /\ stick.phase = "command"
           \/ Len(Outs) = 0 /\ stick.phase \in {"command", "in", "out"}
     \/ Quiet /\ stick.phase = "status" /\ Lacks(t)
Stalled(t) ==
  /\ stick.phase = "stalled"
  /\ storing[t].pc = "csw" => ~done["in"].set \/ NotOurs(t) \/ Lacks(t)

OutOfStep(t) ==
  /\ abandoned = MaxTimeouts
  /\ LostResting(t) \/ LostCommand(t) \/ LostRead(t) \/ LostWrite(t) \/ LostStatus(t) \/ Stalled(t)

StorageInv(t) ==
  /\ StorageTyped(t) /\ QueuesTold /\ WritesUnknown /\ MediumHoldsData /\ SuccessIsTrue
  /\ InStep(t) \/ OutOfStep(t)

-----------------------------------------------------------------------------
\* Appending to a queue, and taking its head, of transfers.
LEMMA QueueGrows ==
  ASSUME NEW S, NEW q \in Seq(S), NEW x \in S
  PROVE  /\ Append(q, x) \in Seq(S) /\ Len(Append(q, x)) = Len(q) + 1 /\ Len(q) \in Nat
         /\ \A n \in 1 .. Len(q) : Append(q, x)[n] = q[n]
         /\ Append(q, x)[Len(q) + 1] = x
  BY AppendProperties

LEMMA QueueShrinks ==
  ASSUME NEW S, NEW q \in Seq(S), q # <<>>
  PROVE  /\ Tail(q) \in Seq(S) /\ Len(q) \in Nat \ {0} /\ Len(Tail(q)) = Len(q) - 1
         /\ \A n \in 1 .. (Len(q) - 1) : Tail(q)[n] = q[n + 1]
         /\ Head(q) = q[1] /\ q[1] \in S
  BY HeadTailProperties, EmptySeq

\* When a wait ends its transfers stay in their queues, over freed buffers.
LEMMA FreedShape ==
  ASSUME NEW t, StorageTyped(t), NEW e \in Pipes
  PROVE  /\ DOMAIN Freed(t) = Pipes
         /\ Freed(t)[e] \in Seq(Posted(t)) /\ Len(Freed(t)[e]) = Len(bulkPipes[e])
         /\ Len(bulkPipes[e]) \in Nat
         /\ \A n \in 1 .. Len(bulkPipes[e]) :
              /\ Freed(t)[e][n].packet = bulkPipes[e][n].packet
              /\ Freed(t)[e][n].of = Nobody
<1> DEFINE q == bulkPipes[e]
           f == Freed(t)[e]
<1>1. q \in Seq(Posted(t)) /\ DOMAIN Freed(t) = Pipes
  BY DEF StorageTyped, Freed
<1>2. Len(q) \in Nat /\ DOMAIN q = 1 .. Len(q) /\ \A n \in 1 .. Len(q) : q[n] \in Posted(t)
  BY <1>1
<1>3. f = [n \in 1 .. Len(q) |-> Disowned(t, q[n])]
  BY <1>2 DEF Freed
<1>4. ASSUME NEW x \in Posted(t)
      PROVE  Disowned(t, x) \in Posted(t) /\ Disowned(t, x).packet = x.packet
             /\ Disowned(t, x).of = Nobody
  BY DEF Posted, Disowned
<1> HIDE DEF q, f
<1>5. f \in Seq(Posted(t)) /\ Len(f) = Len(q)
  <2>1. \A n \in 1 .. Len(q) : f[n] \in Posted(t)
    BY <1>2, <1>3, <1>4
  <2> QED  BY <1>2, <1>3, <2>1
<1>6. \A n \in 1 .. Len(q) : f[n].packet = q[n].packet /\ f[n].of = Nobody
  BY <1>2, <1>3, <1>4
<1> QED  BY <1>1, <1>2, <1>5, <1>6 DEF q, f

\* A wait ends and nothing is posted.
LEMMA Freeing ==
  ASSUME NEW t, StorageTyped(t), bulkPipes' = Freed(t)
  PROVE  /\ bulkPipes' \in [Pipes -> Seq(Posted(t))]
         /\ \A e \in Pipes :
              /\ Len(bulkPipes[e]) \in Nat /\ Len(bulkPipes'[e]) = Len(bulkPipes[e])
              /\ \A n \in 1 .. Len(bulkPipes[e]) :
                   /\ bulkPipes'[e][n].packet = bulkPipes[e][n].packet
                   /\ bulkPipes'[e][n].of = Nobody
<1>1. DOMAIN bulkPipes' = Pipes /\ \A e \in Pipes : bulkPipes'[e] \in Seq(Posted(t))
  BY FreedShape DEF Pipes
<1>2. bulkPipes' = [e \in Pipes |-> bulkPipes'[e]]
  BY DEF Freed
<1> QED  BY <1>1, <1>2, FreedShape

\* A wait ends and a packet is posted.
LEMMA Posting ==
  ASSUME NEW t, StorageTyped(t), NEW last \in Pipes, NEW e \in Pipes, NEW p \in Packets,
         PostTransfer(t, last, e, p)
  PROVE  /\ bulkPipes' \in [Pipes -> Seq(Posted(t))]
         /\ \A i \in Pipes :
              /\ Len(bulkPipes[i]) \in Nat
              /\ i # e => Len(bulkPipes'[i]) = Len(bulkPipes[i])
              /\ \A n \in 1 .. Len(bulkPipes[i]) :
                   /\ bulkPipes'[i][n].packet = bulkPipes[i][n].packet
                   /\ bulkPipes'[i][n].of = Nobody
         /\ Len(bulkPipes'[e]) = Len(bulkPipes[e]) + 1
         /\ bulkPipes'[e][Len(bulkPipes[e]) + 1] = [of |-> t, packet |-> p]
<1> DEFINE f == Freed(t)
           x == [of |-> t, packet |-> p]
<1>1. x \in Posted(t)
  BY DEF Posted
<1>2. DOMAIN f = Pipes /\ \A i \in Pipes : /\ f[i] \in Seq(Posted(t)) /\ Len(f[i]) = Len(bulkPipes[i])
                     /\ Len(bulkPipes[i]) \in Nat
                     /\ \A n \in 1 .. Len(bulkPipes[i]) :
                          f[i][n].packet = bulkPipes[i][n].packet /\ f[i][n].of = Nobody
  BY FreedShape
<1>3. bulkPipes' = [f EXCEPT ![e] = Append(f[e], x)]
  BY DEF PostTransfer
<1>a. f = [i \in Pipes |-> f[i]]
  BY DEF Freed
<1> HIDE DEF f, x
<1>4. /\ Append(f[e], x) \in Seq(Posted(t)) /\ Len(Append(f[e], x)) = Len(f[e]) + 1
      /\ \A n \in 1 .. Len(f[e]) : Append(f[e], x)[n] = f[e][n]
      /\ Append(f[e], x)[Len(f[e]) + 1] = x
  BY <1>1, <1>2, QueueGrows
<1>5. f \in [Pipes -> Seq(Posted(t))]
  BY <1>2, <1>a
<1>6. bulkPipes' \in [Pipes -> Seq(Posted(t))]
  BY <1>3, <1>4, <1>5
<1>7. bulkPipes'[e] = Append(f[e], x) /\ \A i \in Pipes : i # e => bulkPipes'[i] = f[i]
  BY <1>2, <1>3
<1>8. ASSUME NEW i \in Pipes
      PROVE  /\ Len(bulkPipes[i]) \in Nat
             /\ i # e => Len(bulkPipes'[i]) = Len(bulkPipes[i])
             /\ \A n \in 1 .. Len(bulkPipes[i]) :
                  /\ bulkPipes'[i][n].packet = bulkPipes[i][n].packet
                  /\ bulkPipes'[i][n].of = Nobody
  <2>1. CASE i = e
    <3>1. Len(bulkPipes[e]) \in Nat /\ Len(f[e]) = Len(bulkPipes[e])
      BY <1>2
    <3>2. ASSUME NEW n \in 1 .. Len(bulkPipes[e])
          PROVE  bulkPipes'[e][n].packet = bulkPipes[e][n].packet /\ bulkPipes'[e][n].of = Nobody
      <4>1. bulkPipes'[e][n] = f[e][n]
        BY <1>4, <1>7, <3>1
      <4>2. f[e][n].packet = bulkPipes[e][n].packet /\ f[e][n].of = Nobody
        BY <1>2
      <4> QED  BY <4>1, <4>2
    <3> QED  BY <2>1, <3>1, <3>2
  <2>2. CASE i # e
    BY <1>2, <1>7, <2>2
  <2> QED  BY <2>1, <2>2
<1>9. Len(bulkPipes'[e]) = Len(bulkPipes[e]) + 1 /\ bulkPipes'[e][Len(bulkPipes[e]) + 1] = x
  BY <1>2, <1>4, <1>7
<1> QED  BY <1>6, <1>8, <1>9 DEF x

\* The stick takes a transfer from a queue, the other one stays.
LEMMA Taking ==
  ASSUME NEW t, StorageTyped(t), NEW e \in Pipes, bulkPipes[e] # <<>>,
         bulkPipes' = [bulkPipes EXCEPT ![e] = Tail(@)]
  PROVE  /\ bulkPipes' \in [Pipes -> Seq(Posted(t))]
         /\ \A i \in Pipes : i # e => bulkPipes'[i] = bulkPipes[i]
         /\ Len(bulkPipes[e]) \in Nat \ {0} /\ Len(bulkPipes'[e]) = Len(bulkPipes[e]) - 1
         /\ \A n \in 1 .. (Len(bulkPipes[e]) - 1) : bulkPipes'[e][n] = bulkPipes[e][n + 1]
         /\ Head(bulkPipes[e]) = bulkPipes[e][1] /\ bulkPipes[e][1] \in Posted(t)
<1> DEFINE q == bulkPipes[e]
<1>1. q \in Seq(Posted(t)) /\ bulkPipes \in [Pipes -> Seq(Posted(t))]
  BY DEF StorageTyped
<1>2. bulkPipes'[e] = Tail(q) /\ bulkPipes' = [bulkPipes EXCEPT ![e] = Tail(q)]
  BY <1>1
<1> HIDE DEF q
<1>3. /\ Tail(q) \in Seq(Posted(t)) /\ Len(q) \in Nat \ {0} /\ Len(Tail(q)) = Len(q) - 1
      /\ \A n \in 1 .. (Len(q) - 1) : Tail(q)[n] = q[n + 1]
      /\ Head(q) = q[1] /\ q[1] \in Posted(t)
  BY <1>1, QueueShrinks DEF q
<1> QED  BY <1>1, <1>2, <1>3 DEF q

\* A command begins.
LEMMA CommandKeeps ==
  ASSUME NEW t, StorageInv(t), NEW op \in Ops, NEW l \in Lbas, NEW v \in Data \cup {Garbage},
         msc_do_command(t, op, l, v)
  PROVE  StorageInv(t)'
<1> DEFINE p == Packet("cbw", CbwLength, [op |-> op, lba |-> l, tag |-> tag + 1])
           s == [pc |-> "cbw", op |-> op, lba |-> l, value |-> v, tag |-> tag + 1, got |-> Garbage]
<1>1. /\ storing[t].pc = "rest" /\ tag < MaxCommands /\ tag' = tag + 1
      /\ PostTransfer(t, "out", "out", p) /\ storing' = [storing EXCEPT ![t] = s]
      /\ expected' = IF op = "write" THEN [expected EXCEPT ![l] = Unknown] ELSE expected
      /\ succeeded' = NoAnswer /\ UNCHANGED <<stick, medium, abandoned>>
  BY DEF msc_do_command
<1>2. StorageTyped(t) /\ tag \in Nat /\ tag + 1 \in Nat /\ QueuesTold /\ WritesUnknown
  BY UsbStorageAssumption DEF StorageInv, StorageTyped
<1>3. p \in Packets /\ p.kind = "cbw" /\ p.body = [op |-> op, lba |-> l, tag |-> tag + 1]
      /\ p.body \in Commands
  <2>1. [op |-> op, lba |-> l, tag |-> tag + 1] \in Commands
    BY <1>2 DEF Commands
  <2> QED  BY <2>1 DEF Packets, Packet, Kinds, Lengths
<1>4. s \in [pc : {"rest", "cbw", "data", "csw"}, op : Ops \cup {"none"}, lba : Lbas \cup {"none"},
             value : Data \cup {Garbage}, tag : Nat, got : {s.got}]
  BY <1>2
<1>5. storing'[t] = s /\ DOMAIN storing' = {t}
  BY <1>1, <1>2 DEF StorageTyped
<1>6. /\ bulkPipes' \in [Pipes -> Seq(Posted(t))]
      /\ Len(bulkPipes["out"]) \in Nat /\ Len(bulkPipes["in"]) \in Nat
      /\ Len(bulkPipes'["in"]) = Len(bulkPipes["in"])
      /\ Len(bulkPipes'["out"]) = Len(bulkPipes["out"]) + 1
      /\ \A i \in Pipes : \A n \in 1 .. Len(bulkPipes[i]) :
           bulkPipes'[i][n].packet = bulkPipes[i][n].packet /\ bulkPipes'[i][n].of = Nobody
      /\ bulkPipes'["out"][Len(bulkPipes["out"]) + 1] = [of |-> t, packet |-> p]
  <2> HIDE DEF p
  <2> QED  BY <1>1, <1>2, <1>3, Posting DEF Pipes
<1>7. done' = [done EXCEPT !["out"] = NotDone] /\ inbuf' = inbuf /\ done'["out"] = NotDone
      /\ done' \in [Pipes -> DoneState]
  <2>1. done \in [Pipes -> DoneState] /\ NotDone \in DoneState
    BY <1>2 DEF StorageTyped, DoneState, NotDone
  <2> QED  BY <1>1, <2>1 DEF PostTransfer, Pipes
<1>a. DOMAIN bulkPipes["out"] = 1 .. Len(bulkPipes["out"]) /\ DOMAIN bulkPipes["in"] = 1 .. Len(bulkPipes["in"])
      /\ DOMAIN bulkPipes'["out"] = 1 .. Len(bulkPipes'["out"])
      /\ DOMAIN bulkPipes'["in"] = 1 .. Len(bulkPipes'["in"])
  BY <1>2, <1>6 DEF StorageTyped, Pipes
<1> HIDE DEF p
<1>8. StorageTyped(t)'
  <2>1. storing'[t] \in StoringState(t)' /\ storing'[t].tag = tag'
        /\ storing'[t].op \in Ops /\ storing'[t].lba \in Lbas
    BY <1>1, <1>4, <1>5 DEF StoringState
  <2>2. tag' \in 0 .. MaxCommands
    BY <1>1, <1>2, UsbStorageAssumption
  <2>3. DOMAIN expected' = Lbas /\ DOMAIN inbuf' = {t}
    BY <1>1, <1>2, <1>7 DEF StorageTyped
  <2> HIDE DEF s
  <2> QED  BY <1>1, <1>2, <1>5, <1>6, <1>7, <2>1, <2>2, <2>3 DEF StorageTyped
<1>9. QueuesTold'
  <2>1. ASSUME NEW n \in DOMAIN Outs'
        PROVE  IF IsCommand(Outs[n])'
                 THEN Outs'[n].packet.body \in Commands /\ Outs'[n].packet.body.tag <= tag'
                 ELSE Outs'[n].packet.kind = "sector"
    <3>1. CASE n = Len(bulkPipes["out"]) + 1
      BY <1>1, <1>2, <1>3, <1>6, <3>1 DEF Outs, IsCommand
    <3>2. CASE n \in 1 .. Len(bulkPipes["out"])
      <4>1. Outs'[n].packet = Outs[n].packet
        BY <1>6, <3>2 DEF Outs, Pipes
      <4>2. Outs[n].packet.body \in Commands => Outs[n].packet.body.tag \in Nat
        BY DEF Commands
      <4> QED  BY <1>1, <1>2, <1>a, <3>2, <4>1, <4>2 DEF QueuesTold, Outs, IsCommand
    <3> QED  BY <1>6, <1>a, <3>1, <3>2 DEF Outs
  <2>2. \A n \in DOMAIN Ins' : ~IsCommand(Ins[n])'
    BY <1>2, <1>6, <1>a DEF QueuesTold, Ins, IsCommand, Pipes
  <2>3. stick'.tag <= tag'
    BY <1>1, <1>2 DEF QueuesTold, StorageTyped, StickState
  <2>4. done'["out"].set = FALSE
    BY <1>7 DEF NotDone
  <2> QED  BY <2>1, <2>2, <2>3, <2>4 DEF QueuesTold
<1>b. \A m \in Lbas : expected'[m] = IF op = "write" /\ m = l THEN Unknown ELSE expected[m]
  BY <1>1, <1>2 DEF StorageTyped
<1>c. WritesUnknown'
  <2>1. ASSUME NEW n \in DOMAIN Outs', IsCommand(Outs[n])', Outs'[n].packet.body.op = "write"
        PROVE  expected'[Outs'[n].packet.body.lba] = Unknown
    <3>1. CASE n = Len(bulkPipes["out"]) + 1
      BY <1>3, <1>6, <1>b, <2>1, <3>1 DEF Outs, IsCommand
    <3>2. CASE n \in 1 .. Len(bulkPipes["out"])
      <4>1. Outs'[n].packet = Outs[n].packet
        BY <1>6, <3>2 DEF Outs, Pipes
      <4>2. Outs[n].packet.body.lba \in Lbas
        BY <1>2, <1>a, <2>1, <3>2, <4>1 DEF QueuesTold, Commands, Outs, IsCommand
      <4> QED  BY <1>2, <1>a, <1>b, <2>1, <3>2, <4>1, <4>2 DEF WritesUnknown, Outs, IsCommand
    <3> QED  BY <1>6, <1>a, <3>1, <3>2 DEF Outs
  <2>2. stick'.phase = "out" => expected'[stick'.lba] = Unknown
    BY <1>1, <1>2, <1>b DEF WritesUnknown, StorageTyped, StickState
  <2> QED  BY <2>1, <2>2 DEF WritesUnknown
<1>d. MediumHoldsData' /\ SuccessIsTrue'
  BY <1>1, <1>b DEF MediumHoldsData, SuccessIsTrue, StorageInv
<1>e. InStep(t)' \/ OutOfStep(t)'
  <2>1. CASE Resting0(t)
    <3>1. Command0(t)'
      BY <1>1, <1>3, <1>5, <1>6, <1>7, <2>1 DEF Resting0, Command0, Quiet, Outs, Ins, NotDone, p, Packet
    <3> QED  BY <3>1 DEF InStep
  <2>2. CASE Late(t) /\ abandoned = MaxTimeouts
    <3>1. Late(t)'
      BY <1>1, <1>3, <1>5, <1>6, <1>7, <2>2 DEF Late, Outs, Ins, NotDone, p, Packet, Pipes
    <3> QED  BY <1>1, <2>2, <3>1 DEF InStep
  <2>3. CASE OutOfStep(t) /\ ~Stalled(t)
    <3>1. LostResting(t)
      BY <1>1, <2>3 DEF OutOfStep, LostCommand, LostRead, LostWrite, LostStatus
    <3>2. Behind1(t)'
      BY <1>1, <1>2, <1>5 DEF Behind1, QueuesTold, StorageTyped, StickState
    <3>3. LostCommand(t)'
      <4>1. storing'[t].pc = "cbw" /\ ~done'["out"].set /\ stick'.phase = stick.phase
            /\ p.body.tag = storing'[t].tag /\ storing'[t].tag = tag + 1
        BY <1>1, <1>3, <1>5, <1>7 DEF NotDone
      <4>3. CASE Len(Outs) = 1
        <5>1. 1 \in 1 .. Len(bulkPipes["out"]) /\ Len(Outs') = 2 /\ Len(Ins') = Len(Ins) /\ Own(t, 2)'
          BY <1>3, <1>6, <4>1, <4>3 DEF Outs, Ins, Own, IsCommand
        <5>2. Outs'[1].packet = Outs[1].packet
          BY <1>6, <5>1 DEF Outs, Pipes
        <5>3. IsCommand(Outs[1]) => Outs[1].packet.body.tag <= tag /\ Outs[1].packet.body.tag \in Nat
          BY <1>2, <1>a, <5>1 DEF QueuesTold, Outs, Commands
        <5>4. IsCommand(Outs[1]) => Outs'[1].packet.body.tag # storing'[t].tag
          BY <1>2, <4>1, <5>2, <5>3
        <5> QED  BY <3>1, <3>2, <4>1, <4>3, <5>1, <5>2, <5>4 DEF LostResting, LostCommand, Quiet, IsCommand
      <4>4. CASE Len(Outs) = 0
        <5>1. Len(Outs') = 1 /\ Len(Ins') = Len(Ins) /\ Own(t, 1)'
          BY <1>3, <1>6, <4>1, <4>4 DEF Outs, Ins, Own, IsCommand
        <5>2. Len(Ins) = 1 => Ins'[1].packet = Ins[1].packet
          BY <1>6 DEF Ins, Pipes
        <5> QED  BY <3>1, <3>2, <4>1, <4>4, <5>1, <5>2 DEF LostResting, LostCommand, Quiet, Elsewhere
      <4> QED  BY <3>1, <4>3, <4>4 DEF LostResting, Quiet
    <3> QED  BY <1>1, <2>3, <3>3 DEF OutOfStep
  <2>4. CASE OutOfStep(t) /\ Stalled(t)
    BY <1>1, <1>5, <2>4 DEF OutOfStep, Stalled
  <2>5. CASE InStep(t) /\ ~Resting0(t) /\ ~(Late(t) /\ abandoned = MaxTimeouts)
    BY <1>1, <2>5 DEF InStep, Command0, Command1, Data0, Data1, Status0, Status1
  <2> QED  BY <2>1, <2>2, <2>3, <2>4, <2>5 DEF StorageInv, InStep
<1> QED  BY <1>8, <1>9, <1>c, <1>d, <1>e DEF StorageInv

\* What a driver that posts something else than a command leaves as it was.
LEMMA PostTells ==
  ASSUME NEW t, StorageInv(t), NEW last \in Pipes, NEW e \in Pipes, NEW p \in Packets,
         p.kind # "cbw", e = "out" => p.kind = "sector", PostTransfer(t, last, e, p),
         DOMAIN storing' = {t}, storing'[t] \in StoringState(t)',
         storing'[t].op \in Ops /\ storing'[t].lba \in Lbas /\ storing'[t].tag = tag,
         succeeded' = NoAnswer, UNCHANGED <<tag, stick, medium, expected, abandoned>>
  PROVE  (StorageTyped(t) /\ QueuesTold /\ WritesUnknown /\ MediumHoldsData /\ SuccessIsTrue)'
<1>1. StorageTyped(t) /\ QueuesTold /\ WritesUnknown /\ MediumHoldsData
  BY DEF StorageInv
<1>2. /\ bulkPipes' \in [Pipes -> Seq(Posted(t))]
      /\ \A i \in Pipes :
           /\ Len(bulkPipes[i]) \in Nat
           /\ i # e => Len(bulkPipes'[i]) = Len(bulkPipes[i])
           /\ \A n \in 1 .. Len(bulkPipes[i]) :
                /\ bulkPipes'[i][n].packet = bulkPipes[i][n].packet
                /\ bulkPipes'[i][n].of = Nobody
      /\ Len(bulkPipes'[e]) = Len(bulkPipes[e]) + 1
      /\ bulkPipes'[e][Len(bulkPipes[e]) + 1] = [of |-> t, packet |-> p]
  BY <1>1, Posting
<1>3. \A i \in Pipes : DOMAIN bulkPipes[i] = 1 .. Len(bulkPipes[i]) /\ DOMAIN bulkPipes'[i] = 1 .. Len(bulkPipes'[i])
  BY <1>1, <1>2 DEF StorageTyped
<1>4. /\ done' \in [Pipes -> DoneState] /\ (done'["out"] = done["out"] \/ done'["out"] = NotDone)
      /\ DOMAIN inbuf' = {t}
  <2>1. done \in [Pipes -> DoneState] /\ NotDone \in DoneState /\ DOMAIN inbuf = {t}
    BY <1>1 DEF StorageTyped, DoneState, NotDone
  <2>2. done' = [done EXCEPT ![last] = NotDone, ![e] = NotDone]
        /\ inbuf' = IF e = "in" THEN [inbuf EXCEPT ![t] = Zeroes] ELSE inbuf
    BY DEF PostTransfer
  <2> QED  BY <2>1, <2>2 DEF Pipes
<1>5. StorageTyped(t)'
  BY <1>1, <1>2, <1>4 DEF StorageTyped
<1>6. ASSUME NEW i \in Pipes, NEW n \in DOMAIN bulkPipes'[i]
      PROVE  \/ n \in DOMAIN bulkPipes[i] /\ bulkPipes'[i][n].packet = bulkPipes[i][n].packet
             \/ i = e /\ bulkPipes'[i][n].packet = p
  <2>1. CASE n \in 1 .. Len(bulkPipes[i])
    BY <1>2, <1>3, <2>1
  <2>2. CASE i = e /\ n = Len(bulkPipes[e]) + 1
    BY <1>2, <2>2
  <2>3. n \in 1 .. Len(bulkPipes'[i]) /\ Len(bulkPipes[i]) \in Nat
        /\ Len(bulkPipes'[i]) = IF i = e THEN Len(bulkPipes[i]) + 1 ELSE Len(bulkPipes[i])
    BY <1>2, <1>3
  <2> QED  BY <2>1, <2>2, <2>3
<1>7. QueuesTold'
  <2>1. ASSUME NEW n \in DOMAIN Outs'
        PROVE  IF IsCommand(Outs[n])'
                 THEN Outs'[n].packet.body \in Commands /\ Outs'[n].packet.body.tag <= tag'
                 ELSE Outs'[n].packet.kind = "sector"
    BY <1>1, <1>6 DEF Outs, QueuesTold, IsCommand, Pipes
  <2>2. \A n \in DOMAIN Ins' : ~IsCommand(Ins[n])'
    BY <1>1, <1>6 DEF Ins, QueuesTold, IsCommand, Pipes
  <2>3. stick'.tag <= tag' /\ (stick'.phase # "stalled" /\ done'["out"].set => done'["out"].ok /\ done'["out"].residue = 0)
    BY <1>1, <1>4 DEF QueuesTold, NotDone
  <2> QED  BY <2>1, <2>2, <2>3 DEF QueuesTold
<1>8. WritesUnknown'
  <2>1. ASSUME NEW n \in DOMAIN Outs', IsCommand(Outs[n])', Outs'[n].packet.body.op = "write"
        PROVE  expected'[Outs'[n].packet.body.lba] = Unknown
    BY <1>1, <1>6, <2>1 DEF Outs, WritesUnknown, IsCommand, Pipes
  <2> QED  BY <1>1, <2>1 DEF WritesUnknown
<1>9. MediumHoldsData' /\ SuccessIsTrue'
  BY <1>1 DEF MediumHoldsData, SuccessIsTrue
<1> QED  BY <1>5, <1>7, <1>8, <1>9

\* What the end of a command leaves as it was.
LEMMA EndTells ==
  ASSUME NEW t, StorageInv(t), storing' = [storing EXCEPT ![t] = Resting], bulkPipes' = Freed(t),
         done' \in [Pipes -> DoneState], done'["out"].set => done'["out"] = done["out"],
         abandoned' \in 0 .. MaxTimeouts, UNCHANGED <<inbuf, tag, stick, medium>>,
         DOMAIN expected' = Lbas
  PROVE  /\ StorageTyped(t)' /\ QueuesTold' /\ storing'[t] = Resting
         /\ expected' = expected => WritesUnknown'
<1>1. StorageTyped(t) /\ QueuesTold /\ WritesUnknown
  BY DEF StorageInv
<1>2. /\ bulkPipes' \in [Pipes -> Seq(Posted(t))]
      /\ \A e \in Pipes :
           /\ Len(bulkPipes[e]) \in Nat /\ Len(bulkPipes'[e]) = Len(bulkPipes[e])
           /\ \A n \in 1 .. Len(bulkPipes[e]) :
                bulkPipes'[e][n].packet = bulkPipes[e][n].packet
  BY <1>1, Freeing
<1>3. \A i \in Pipes : DOMAIN bulkPipes[i] = 1 .. Len(bulkPipes[i]) /\ DOMAIN bulkPipes'[i] = 1 .. Len(bulkPipes'[i])
  BY <1>1, <1>2 DEF StorageTyped
<1>4. storing'[t] = Resting /\ DOMAIN storing' = {t}
  BY <1>1 DEF StorageTyped
<1>5. storing'[t] \in StoringState(t)' /\ storing'[t].pc = "rest"
  BY <1>4 DEF StoringState, Resting
<1>6. StorageTyped(t)'
  BY <1>1, <1>2, <1>4, <1>5 DEF StorageTyped
<1>7. ASSUME NEW i \in Pipes, NEW n \in DOMAIN bulkPipes'[i]
      PROVE  n \in DOMAIN bulkPipes[i] /\ bulkPipes'[i][n].packet = bulkPipes[i][n].packet
  BY <1>2, <1>3
<1>8. QueuesTold'
  <2>1. ASSUME NEW n \in DOMAIN Outs'
        PROVE  IF IsCommand(Outs[n])'
                 THEN Outs'[n].packet.body \in Commands /\ Outs'[n].packet.body.tag <= tag'
                 ELSE Outs'[n].packet.kind = "sector"
    BY <1>1, <1>7 DEF Outs, QueuesTold, IsCommand, Pipes
  <2>2. \A n \in DOMAIN Ins' : ~IsCommand(Ins[n])'
    BY <1>1, <1>7 DEF Ins, QueuesTold, IsCommand, Pipes
  <2>3. stick'.tag <= tag' /\ (stick'.phase # "stalled" /\ done'["out"].set => done'["out"].ok /\ done'["out"].residue = 0)
    BY <1>1 DEF QueuesTold
  <2> QED  BY <2>1, <2>2, <2>3 DEF QueuesTold
<1>9. ASSUME expected' = expected PROVE WritesUnknown'
  <2>1. ASSUME NEW n \in DOMAIN Outs', IsCommand(Outs[n])', Outs'[n].packet.body.op = "write"
        PROVE  expected'[Outs'[n].packet.body.lba] = Unknown
    BY <1>1, <1>7, <1>9, <2>1 DEF Outs, WritesUnknown, IsCommand, Pipes
  <2> QED  BY <1>1, <1>9, <2>1 DEF WritesUnknown
<1> QED  BY <1>4, <1>6, <1>8, <1>9

\* The wrapper is out: the data.
LEMMA SendDataKeeps ==
  ASSUME NEW t, StorageInv(t), SendData(t)
  PROVE  StorageInv(t)'
<1>1. /\ storing[t].pc = "cbw" /\ done["out"].set
      /\ UNCHANGED <<tag, stick, medium, expected, abandoned>>
  BY DEF SendData
<1>2. StorageTyped(t) /\ QueuesTold /\ WritesUnknown /\ MediumHoldsData
      /\ (InStep(t) \/ OutOfStep(t))
  BY DEF StorageInv
<1>3. CASE DataMoved("out", CbwLength) # CbwLength
  <2>1. EndCommand(t, NoAnswer) /\ done' = [done EXCEPT !["out"] = NotDone] /\ UNCHANGED inbuf
    BY <1>3 DEF SendData
  <2>2. stick.phase = "stalled"
    BY <1>1, <1>2, <1>3 DEF QueuesTold, DataMoved, CbwLength
  <2>3. done' \in [Pipes -> DoneState] /\ ~done'["out"].set
    BY <1>2, <2>1 DEF StorageTyped, Pipes, DoneState, NotDone
  <2>4. /\ StorageTyped(t)' /\ QueuesTold' /\ storing'[t] = Resting
        /\ expected' = expected => WritesUnknown'
    <3>1. storing' = [storing EXCEPT ![t] = Resting] /\ bulkPipes' = Freed(t)
      BY <2>1 DEF EndCommand
    <3>2. abandoned' \in 0 .. MaxTimeouts /\ DOMAIN expected' = Lbas
      BY <1>1, <1>2 DEF StorageTyped
    <3> QED  BY <1>1, <2>1, <2>3, <3>1, <3>2, EndTells
  <2>5. OutOfStep(t)'
    <3>1. Stalled(t)' /\ OutOfStep(t)
      BY <1>1, <1>2, <2>2, <2>4
         DEF Stalled, Resting, InStep, Resting0, Command0, Command1, Data0, Data1, Status0, Status1, Late
    <3> QED  BY <1>1, <3>1 DEF OutOfStep
  <2>6. MediumHoldsData' /\ SuccessIsTrue'
    BY <1>1, <1>2, <2>1 DEF EndCommand, MediumHoldsData, SuccessIsTrue
  <2> QED  BY <1>1, <2>4, <2>5, <2>6 DEF StorageInv
<1>4. CASE DataMoved("out", CbwLength) = CbwLength
  <2> DEFINE e == DataPipe(storing[t])
             p == Sector(IF storing[t].op = "read" THEN Garbage ELSE storing[t].value)
  <2>1. PostTransfer(t, "out", e, p) /\ storing' = [storing EXCEPT ![t].pc = "data"]
        /\ succeeded' = NoAnswer
    BY <1>4 DEF SendData
  <2>2. storing[t] \in StoringState(t) /\ storing[t].op \in Ops /\ storing[t].lba \in Lbas
        /\ storing[t].tag = tag
    BY <1>1, <1>2 DEF StorageTyped
  <2>3. /\ e \in Pipes /\ e = (IF storing[t].op = "read" THEN "in" ELSE "out")
        /\ p \in Packets /\ p.kind = "sector" /\ p.len = SectorLength
        /\ storing[t].op # "read" => p = Sector(storing[t].value)
    BY <2>2 DEF DataPipe, Pipes, Sector, Packet, Packets, Kinds, Lengths, StoringState
  <2>4. /\ DOMAIN storing' = {t} /\ storing'[t] = [storing[t] EXCEPT !.pc = "data"]
    BY <1>2, <2>1 DEF StorageTyped
  <2>5. /\ storing'[t].pc = "data" /\ storing'[t].op = storing[t].op /\ storing'[t].lba = storing[t].lba
        /\ storing'[t].tag = storing[t].tag /\ storing'[t].value = storing[t].value
        /\ storing'[t] \in StoringState(t)'
    BY <2>2, <2>4 DEF StoringState
  <2> HIDE DEF e, p
  <2>6. (StorageTyped(t) /\ QueuesTold /\ WritesUnknown /\ MediumHoldsData /\ SuccessIsTrue)'
    BY <1>1, <2>1, <2>2, <2>3, <2>4, <2>5, PostTells DEF Pipes
  <2>7. /\ \A i \in Pipes :
              /\ Len(bulkPipes[i]) \in Nat
              /\ i # e => Len(bulkPipes'[i]) = Len(bulkPipes[i])
              /\ \A n \in 1 .. Len(bulkPipes[i]) :
                   /\ bulkPipes'[i][n].packet = bulkPipes[i][n].packet
                   /\ bulkPipes'[i][n].of = Nobody
        /\ Len(bulkPipes'[e]) = Len(bulkPipes[e]) + 1
        /\ bulkPipes'[e][Len(bulkPipes[e]) + 1] = [of |-> t, packet |-> p]
    BY <1>2, <2>1, <2>3, Posting DEF Pipes
  <2>8. /\ ~done'[e].set
        /\ inbuf' = IF e = "in" THEN [inbuf EXCEPT ![t] = Zeroes] ELSE inbuf
    BY <1>2, <2>1, <2>3 DEF PostTransfer, StorageTyped, Pipes, NotDone
  <2>9. DataPipe(storing[t])' = e /\ (Serves(t) => Serves(t)') /\ (Behind1(t) => Behind1(t)')
    BY <1>1, <2>3, <2>5 DEF DataPipe, Serves, Behind1
  <2>r. ASSUME storing[t].op = "read"
        PROVE  /\ e = "in" /\ Len(Outs') = Len(Outs) /\ Len(Ins') = Len(Ins) + 1
               /\ Ins'[Len(Ins) + 1] = [of |-> t, packet |-> p]
               /\ Len(Outs) = 1 => Outs'[1].packet = Outs[1].packet
    BY <2>3, <2>7, <2>r DEF Outs, Ins, Pipes
  <2>w. ASSUME storing[t].op = "write"
        PROVE  /\ e = "out" /\ Len(Outs') = Len(Outs) + 1 /\ Len(Ins') = Len(Ins)
               /\ Outs'[Len(Outs) + 1] = [of |-> t, packet |-> p]
               /\ Len(Outs) = 1 => Outs'[1].packet = Outs[1].packet
    BY <2>3, <2>7, <2>w DEF Outs, Ins, Pipes
  <2>10. ASSUME Command1(t)
        PROVE  InStep(t)' \/ OutOfStep(t)'
    <3>1. Len(Outs) = 0 /\ Len(Ins) = 0 /\ Serves(t) /\ stick.status = 0
          /\ stick.phase = IF storing[t].op = "read" THEN "in" ELSE "out"
      BY <2>10 DEF Command1, Quiet
    <3>2. Data0(t)'
      <4>1. CASE storing[t].op = "read"
        <5>1. /\ Len(Outs') = 0 /\ Len(Ins') = 1 /\ Ins'[1] = [of |-> t, packet |-> p]
              /\ ~done'["in"].set /\ DataPipe(storing[t])' = "in"
          BY <2>r, <2>8, <2>9, <3>1, <4>1
        <5> QED  BY <1>1, <2>3, <2>5, <2>9, <3>1, <4>1, <5>1 DEF Data0
      <4>2. CASE storing[t].op = "write"
        <5>1. /\ Len(Outs') = 1 /\ Len(Ins') = 0 /\ Outs'[1] = [of |-> t, packet |-> p]
              /\ ~done'["out"].set /\ DataPipe(storing[t])' = "out"
          BY <2>w, <2>8, <2>9, <3>1, <4>2
        <5>2. p = Sector(storing'[t].value)
          BY <2>3, <2>5, <4>2
        <5> QED  BY <1>1, <2>5, <2>9, <3>1, <4>2, <5>1, <5>2 DEF Data0
      <4> QED  BY <2>2, <4>1, <4>2 DEF Ops
    <3> QED  BY <3>2 DEF InStep
  <2>11. ASSUME OutOfStep(t) /\ LostCommand(t) /\ ~Stalled(t)
        PROVE  InStep(t)' \/ OutOfStep(t)'
    <3>1. Behind1(t)'
      BY <2>9, <2>11 DEF LostCommand
    <3>2. CASE Len(Outs) = 1 /\ Len(Ins) = 0 /\ Own(t, 1) /\ Elsewhere
      <4>1. CASE storing[t].op = "read"
        <5>1. LostRead(t)'
          BY <1>1, <2>3, <2>5, <2>8, <2>r, <3>1, <3>2, <4>1
             DEF LostRead, Own, IsCommand, Elsewhere
        <5> QED  BY <1>1, <2>11, <5>1 DEF OutOfStep
      <4>2. CASE storing[t].op = "write"
        <5>1. LostWrite(t)'
          BY <1>1, <2>3, <2>5, <2>8, <2>w, <3>1, <3>2, <4>2
             DEF LostWrite, Own, IsCommand, Elsewhere
        <5> QED  BY <1>1, <2>11, <5>1 DEF OutOfStep
      <4> QED  BY <2>2, <4>1, <4>2 DEF Ops
    <3>3. CASE Quiet /\ stick.phase = "status"
      <4>1. CASE storing[t].op = "read"
        <5>1. LostRead(t)'
          BY <1>1, <2>3, <2>5, <2>8, <2>r, <3>1, <3>3, <4>1
             DEF LostRead, Quiet
        <5> QED  BY <1>1, <2>11, <5>1 DEF OutOfStep
      <4>2. CASE storing[t].op = "write"
        <5>1. LostWrite(t)'
          BY <1>1, <2>3, <2>5, <2>8, <2>w, <3>1, <3>3, <4>2
             DEF LostWrite, IsCommand, Quiet
        <5> QED  BY <1>1, <2>11, <5>1 DEF OutOfStep
      <4> QED  BY <2>2, <4>1, <4>2 DEF Ops
    <3> QED  BY <1>1, <2>11, <3>2, <3>3 DEF LostCommand
  <2>12. ASSUME OutOfStep(t) /\ Stalled(t)
        PROVE  InStep(t)' \/ OutOfStep(t)'
    BY <1>1, <2>5, <2>12 DEF OutOfStep, Stalled
  <2>13. InStep(t)' \/ OutOfStep(t)'
    <3>1. CASE InStep(t)
      BY <1>1, <2>10, <3>1 DEF InStep, Resting0, Command0, Command1, Data0, Data1, Status0, Status1, Late
    <3>2. CASE OutOfStep(t)
      <4>1. LostCommand(t) \/ Stalled(t)
        BY <1>1, <3>2 DEF OutOfStep, LostResting, LostRead, LostWrite, LostStatus
      <4> QED  BY <2>11, <2>12, <3>2, <4>1
    <3> QED  BY <1>2, <3>1, <3>2
  <2> QED  BY <2>6, <2>13 DEF StorageInv
<1> QED  BY <1>3, <1>4

\* The data are through: the status.
LEMMA AskStatusKeeps ==
  ASSUME NEW t, StorageInv(t), AskStatus(t)
  PROVE  StorageInv(t)'
<1> DEFINE e == DataPipe(storing[t])
<1>1. /\ storing[t].pc = "data" /\ done[e].set
      /\ UNCHANGED <<tag, stick, medium, expected, abandoned>>
  BY DEF AskStatus
<1>2. /\ StorageTyped(t) /\ QueuesTold /\ WritesUnknown /\ MediumHoldsData
      /\ (InStep(t) \/ OutOfStep(t))
  BY DEF StorageInv
<1>a. /\ storing[t] \in StoringState(t) /\ storing[t].op \in Ops /\ storing[t].lba \in Lbas
      /\ storing[t].tag = tag /\ e = (IF storing[t].op = "read" THEN "in" ELSE "out") /\ e \in Pipes
      /\ done[e] \in DoneState
  BY <1>1, <1>2 DEF StorageTyped, DataPipe, Pipes
<1>b. InStep(t) => Data1(t)
  BY <1>1 DEF InStep, Resting0, Command0, Command1, Data0, Status0, Status1, Late
<1>c. OutOfStep(t) => LostRead(t) \/ LostWrite(t) \/ Stalled(t)
  BY <1>1 DEF OutOfStep, LostResting, LostCommand, LostStatus
<1> HIDE DEF e
<1>3. CASE DataMoved(e, SectorLength) < 0
  <2>1. EndCommand(t, NoAnswer) /\ done' = [done EXCEPT ![e] = NotDone] /\ UNCHANGED inbuf
    BY <1>3 DEF AskStatus, e
  <2>2. ~done[e].ok
    <3>1. SUFFICES ASSUME done[e].ok PROVE FALSE
      OBVIOUS
    <3>2. DataMoved(e, SectorLength) =
            IF done[e].residue <= SectorLength THEN SectorLength - done[e].residue ELSE 0
      BY <3>1 DEF DataMoved
    <3>3. done[e].residue \in Nat
      BY <1>a DEF DoneState
    <3> QED  BY <1>3, <3>2, <3>3 DEF SectorLength
  <2>3. stick.phase = "stalled" /\ OutOfStep(t)
    <3>1. ~Data1(t)
      BY <2>2 DEF Data1, Through, e
    <3>2. LostWrite(t) => stick.phase \in {"in", "out", "status"} /\ e = "out"
      BY <1>a DEF LostWrite, Elsewhere
    <3>3. ~LostRead(t)
      <4>1. LostRead(t) => e = "in"
        BY <1>a DEF LostRead
      <4> QED  BY <1>1, <2>2, <4>1 DEF LostRead, Through, e
    <3>4. e = "out" => stick.phase = "stalled"
      BY <1>1, <1>2, <2>2 DEF QueuesTold, e
    <3> QED  BY <1>2, <1>b, <1>c, <3>1, <3>2, <3>3, <3>4 DEF Stalled
  <2>4. done' \in [Pipes -> DoneState] /\ (done'["out"].set => done'["out"] = done["out"])
    BY <1>2, <1>a, <2>1 DEF StorageTyped, Pipes, DoneState, NotDone
  <2>5. /\ StorageTyped(t)' /\ QueuesTold' /\ storing'[t] = Resting
        /\ expected' = expected => WritesUnknown'
    <3>1. storing' = [storing EXCEPT ![t] = Resting] /\ bulkPipes' = Freed(t)
      BY <2>1 DEF EndCommand
    <3>2. abandoned' \in 0 .. MaxTimeouts /\ DOMAIN expected' = Lbas
      BY <1>1, <1>2 DEF StorageTyped
    <3> QED  BY <1>1, <2>1, <2>4, <3>1, <3>2, EndTells
  <2>6. OutOfStep(t)'
    BY <1>1, <2>3, <2>5 DEF OutOfStep, Stalled, Resting
  <2>7. MediumHoldsData' /\ SuccessIsTrue'
    BY <1>1, <1>2, <2>1 DEF EndCommand, MediumHoldsData, SuccessIsTrue
  <2> QED  BY <1>1, <2>5, <2>6, <2>7 DEF StorageInv
<1>4. CASE ~(DataMoved(e, SectorLength) < 0)
  <2> DEFINE p == Packet("csw", CswLength, 0)
             g == [bytes |-> DataMoved(e, SectorLength), packet |-> inbuf[t]]
  <2>1. PostTransfer(t, e, "in", p) /\ storing' = [storing EXCEPT ![t] = [storing[t] EXCEPT !.pc = "csw", !.got = g]]
        /\ succeeded' = NoAnswer
    BY <1>2, <1>4 DEF AskStatus, StorageTyped, e
  <2>3. p \in Packets /\ p.kind = "csw" /\ p.len = CswLength
    BY DEF Packet, Packets, Kinds, Lengths
  <2> HIDE DEF p, g
  <2>4. /\ DOMAIN storing' = {t} /\ storing'[t] = [storing[t] EXCEPT !.pc = "csw", !.got = g]
    BY <1>2, <2>1 DEF StorageTyped
  <2>5. /\ storing'[t].pc = "csw" /\ storing'[t].op = storing[t].op /\ storing'[t].lba = storing[t].lba
        /\ storing'[t].tag = storing[t].tag /\ storing'[t].value = storing[t].value
        /\ storing'[t].got = g /\ storing'[t] \in StoringState(t)'
    BY <1>a, <2>4 DEF StoringState
  <2>6. (StorageTyped(t) /\ QueuesTold /\ WritesUnknown /\ MediumHoldsData /\ SuccessIsTrue)'
    <3>1. p.kind # "cbw" /\ "in" \in Pipes /\ (("in" = "out") => p.kind = "sector")
      BY <2>3 DEF Pipes
    <3> QED  BY <1>1, <1>a, <2>1, <2>3, <2>4, <2>5, <3>1, PostTells
  <2>7. /\ \A i \in Pipes :
              /\ Len(bulkPipes[i]) \in Nat
              /\ i # "in" => Len(bulkPipes'[i]) = Len(bulkPipes[i])
              /\ \A n \in 1 .. Len(bulkPipes[i]) :
                   /\ bulkPipes'[i][n].packet = bulkPipes[i][n].packet
                   /\ bulkPipes'[i][n].of = Nobody
        /\ Len(bulkPipes'["in"]) = Len(bulkPipes["in"]) + 1
        /\ bulkPipes'["in"][Len(bulkPipes["in"]) + 1] = [of |-> t, packet |-> p]
    <3>1. "in" \in Pipes
      BY DEF Pipes
    <3> QED  BY <1>2, <1>a, <2>1, <2>3, <3>1, Posting
  <2>8. /\ ~done'["in"].set /\ inbuf'[t] = Zeroes
    BY <1>2, <1>a, <2>1 DEF PostTransfer, StorageTyped, Pipes, NotDone
  <2>9. (Serves(t) => Serves(t)') /\ (Behind1(t) => Behind1(t)') /\ NotOurs(t)'
    BY <1>1, <2>5, <2>8 DEF Serves, Behind1, NotOurs, Zeroes
  <2>r. /\ Len(Outs') = Len(Outs) /\ Len(Ins') = Len(Ins) + 1
        /\ Ins'[Len(Ins) + 1] = [of |-> t, packet |-> p]
        /\ Len(Outs) = 1 => Outs'[1].packet = Outs[1].packet
    BY <2>7 DEF Outs, Ins, Pipes
  <2>10. ASSUME Data1(t)
         PROVE  Status0(t)'
    <3>1. g.bytes = SectorLength /\ g.packet = inbuf[t]
      BY <2>10 DEF Data1, Through, g, DataMoved, e, SectorLength
    <3>2. Kept(t, inbuf[t]) => Kept(t, storing[t].got.packet)'
      BY <1>1, <2>5, <3>1 DEF Kept, IsDone
    <3> QED  BY <1>1, <2>3, <2>5, <2>8, <2>9, <2>10, <2>r, <3>1, <3>2 DEF Data1, Status0, Quiet
  <2>11. ASSUME LostRead(t)
         PROVE  LostStatus(t)'
    <3>1. e = "in" /\ done["in"].set
      BY <1>1, <1>a, <2>11 DEF LostRead
    <3>2. CASE /\ Len(Outs) = 1 /\ IsCommand(Outs[1]) /\ Len(Ins) = 0 /\ Behind1(t)
               /\ stick.phase = "status" /\ Through("in")
      BY <1>1, <2>3, <2>5, <2>8, <2>9, <2>r, <3>2 DEF LostStatus
    <3>3. CASE /\ Len(Ins) = 0 /\ done["in"].set /\ done["in"].ok
               /\ done["in"].residue = SectorLength - CswLength
               /\ \/ Len(Outs) = 1 /\ IsCommand(Outs[1]) /\ stick.phase = "command"
                  \/ Len(Outs) = 0 /\ stick.phase \in {"command", "in", "out"}
      <4>1. g.bytes = CswLength
        BY <3>1, <3>3 DEF g, DataMoved, SectorLength, CswLength
      <4>2. Lacks(t)'
        BY <2>5, <4>1 DEF Lacks, SectorLength, CswLength
      <4> QED  BY <1>1, <2>3, <2>5, <2>8, <2>r, <3>3, <4>2 DEF LostStatus, IsCommand
    <3> QED  BY <2>11, <3>1, <3>2, <3>3 DEF LostRead
  <2>12. ASSUME LostWrite(t)
         PROVE  LostStatus(t)'
    <3>1. e = "out" /\ done["out"].set
      BY <1>1, <1>a, <2>12 DEF LostWrite
    <3> QED  BY <1>1, <2>5, <2>8, <2>9, <2>12, <2>r, <3>1 DEF LostStatus, LostWrite
  <2>13. ASSUME Stalled(t)
         PROVE  Stalled(t)'
    BY <1>1, <2>8, <2>13 DEF Stalled
  <2>14. InStep(t)' \/ OutOfStep(t)'
    <3>1. OutOfStep(t) => abandoned' = MaxTimeouts
      BY <1>1 DEF OutOfStep
    <3> QED  BY <1>2, <1>b, <1>c, <2>10, <2>11, <2>12, <2>13, <3>1 DEF InStep, OutOfStep
  <2> QED  BY <2>6, <2>14 DEF StorageInv
<1> QED  BY <1>3, <1>4

\* What a command out of step answers is a failure: what it received is not the
\* status of its command, or its data were not a sector.
LEMMA GetStatusKeeps ==
  ASSUME NEW t, StorageInv(t), GetStatus(t)
  PROVE  StorageInv(t)'
<1> DEFINE good == DataMoved("in", CswLength) = CswLength /\ StatusIsGood(t)
                   /\ storing[t].got.bytes = SectorLength
           value == IF storing[t].op = "write" THEN storing[t].value
                    ELSE IF storing[t].got.packet.kind = "sector" THEN storing[t].got.packet.body
                    ELSE Garbage
           answer == [op |-> storing[t].op, lba |-> storing[t].lba, value |-> value]
<1>1. /\ storing[t].pc = "csw" /\ done["in"].set /\ done' = [done EXCEPT !["in"] = NotDone]
      /\ UNCHANGED <<inbuf, tag, stick, medium, abandoned>>
  BY DEF GetStatus
<1>2. /\ StorageTyped(t) /\ QueuesTold /\ WritesUnknown /\ MediumHoldsData
      /\ (InStep(t) \/ OutOfStep(t))
  BY DEF StorageInv
<1>a. /\ storing[t] \in StoringState(t) /\ storing[t].op \in Ops /\ storing[t].lba \in Lbas
      /\ storing[t].tag = tag
  BY <1>1, <1>2 DEF StorageTyped
<1>3. IF good
        THEN /\ EndCommand(t, answer)
             /\ expected' = IF storing[t].op = "write" THEN [expected EXCEPT ![storing[t].lba] = storing[t].value]
                            ELSE expected
        ELSE EndCommand(t, NoAnswer) /\ UNCHANGED expected
  BY DEF GetStatus
<1>b. InStep(t) => Status1(t)
  BY <1>1 DEF InStep, Resting0, Command0, Command1, Data0, Data1, Status0, Late
<1>c. OutOfStep(t) => LostStatus(t) \/ Stalled(t)
  BY <1>1 DEF OutOfStep, LostResting, LostCommand, LostRead, LostWrite
<1> HIDE DEF good, value, answer
<1>4. storing' = [storing EXCEPT ![t] = Resting] /\ bulkPipes' = Freed(t) /\ DOMAIN expected' = Lbas
      /\ done' \in [Pipes -> DoneState] /\ done'["out"] = done["out"] /\ ~done'["in"].set
  <2>1. storing' = [storing EXCEPT ![t] = Resting] /\ bulkPipes' = Freed(t)
    BY <1>3 DEF EndCommand
  <2>2. DOMAIN expected' = Lbas
    BY <1>2, <1>3 DEF StorageTyped
  <2>3. done \in [Pipes -> DoneState] /\ NotDone \in DoneState
    BY <1>2 DEF StorageTyped, DoneState, NotDone
  <2> QED  BY <1>1, <2>1, <2>2, <2>3 DEF Pipes, NotDone
<1>5. /\ StorageTyped(t)' /\ QueuesTold' /\ storing'[t] = Resting
      /\ expected' = expected => WritesUnknown'
  <2>1. abandoned' \in 0 .. MaxTimeouts
    BY <1>1, <1>2 DEF StorageTyped
  <2> QED  BY <1>1, <1>4, <2>1, EndTells
<1>6. /\ \A e \in Pipes :
           /\ Len(bulkPipes[e]) \in Nat /\ Len(bulkPipes'[e]) = Len(bulkPipes[e])
           /\ \A n \in 1 .. Len(bulkPipes[e]) :
                /\ bulkPipes'[e][n].packet = bulkPipes[e][n].packet
                /\ bulkPipes'[e][n].of = Nobody
  BY <1>2, <1>4, Freeing
<1>7. /\ Len(Outs') = Len(Outs) /\ Len(Ins') = Len(Ins)
      /\ Len(Outs) = 1 => Outs'[1].packet = Outs[1].packet
  BY <1>6 DEF Outs, Ins, Pipes
<1>8. CASE Status1(t)
  <2>1. Len(Outs') = 0 /\ Len(Ins') = 0 /\ stick'.phase = "command"
    BY <1>1, <1>7, <1>8 DEF Status1, Quiet
  <2>2. InStep(t)'
    BY <1>5, <2>1 DEF InStep, Resting0, Quiet, Resting
  <2>3. WritesUnknown'
    BY <2>1, <1>5 DEF WritesUnknown, StorageTyped, Outs, Pipes
  <2>4. good => IsDone(t, storing[t].got.packet)
    BY <1>8 DEF Status1, good, StatusIsGood
  <2>5. good => medium[storing[t].lba] = value
    BY <1>a, <2>4 DEF IsDone, Sector, Packet, value, Ops
  <2>6. MediumHoldsData'
    <3>1. ASSUME NEW m \in Lbas, expected'[m] # Unknown PROVE medium'[m] = expected'[m]
      <4>1. CASE good /\ storing[t].op = "write" /\ m = storing[t].lba
        BY <1>1, <1>2, <1>3, <2>5, <4>1 DEF value, StorageTyped
      <4>2. CASE ~(good /\ storing[t].op = "write" /\ m = storing[t].lba)
        <5>1. expected'[m] = expected[m]
          BY <1>2, <1>3, <4>2 DEF StorageTyped
        <5> QED  BY <1>1, <1>2, <3>1, <5>1 DEF MediumHoldsData
      <4> QED  BY <4>1, <4>2
    <3> QED  BY <3>1 DEF MediumHoldsData
  <2>7. SuccessIsTrue'
    <3>1. CASE good
      BY <1>1, <1>3, <2>5, <3>1 DEF SuccessIsTrue, EndCommand, answer
    <3>2. CASE ~good
      BY <1>3, <3>2 DEF SuccessIsTrue, EndCommand
    <3> QED  BY <3>1, <3>2
  <2> QED  BY <1>5, <2>2, <2>3, <2>6, <2>7 DEF StorageInv
<1>9. CASE OutOfStep(t)
  <2>1. ~good
    <3>1. NotOurs(t) \/ Lacks(t)
      BY <1>1, <1>9, <1>c DEF LostStatus, Stalled
    <3> QED  BY <3>1 DEF good, StatusIsGood, TagIsOurs, NotOurs, Lacks
  <2>2. expected' = expected /\ succeeded' = NoAnswer
    BY <1>3, <2>1 DEF EndCommand
  <2>3. CASE Stalled(t)
    <3>1. OutOfStep(t)'
      BY <1>1, <1>5, <1>9, <2>3 DEF OutOfStep, Stalled, Resting
    <3> QED  BY <1>1, <1>2, <1>5, <2>2, <3>1 DEF StorageInv, MediumHoldsData, SuccessIsTrue
  <2>4. CASE LostStatus(t)
    <3>1. LostResting(t)'
      BY <1>1, <1>5, <1>7, <2>4 DEF LostStatus, LostResting, Resting, Quiet, Elsewhere, IsCommand
    <3>2. OutOfStep(t)'
      BY <1>1, <1>9, <3>1 DEF OutOfStep
    <3> QED  BY <1>1, <1>2, <1>5, <2>2, <3>2 DEF StorageInv, MediumHoldsData, SuccessIsTrue
  <2> QED  BY <1>9, <1>c, <2>3, <2>4
<1> QED  BY <1>2, <1>b, <1>8, <1>9

\* A transfer is given up: it may be any of the three of a command.
LEMMA GiveUpKeeps ==
  ASSUME NEW t, MaxTimeouts <= 1, StorageInv(t), GiveUp(t)
  PROVE  StorageInv(t)'
<1> DEFINE e == IF storing[t].pc = "cbw" THEN "out"
                ELSE IF storing[t].pc = "csw" THEN "in" ELSE DataPipe(storing[t])
<1>1. /\ storing[t].pc # "rest" /\ abandoned < MaxTimeouts /\ ~done[e].set
      /\ abandoned' = abandoned + 1 /\ EndCommand(t, NoAnswer)
      /\ UNCHANGED <<done, inbuf, tag, stick, medium, expected>>
  BY DEF GiveUp
<1>2. /\ StorageTyped(t) /\ QueuesTold /\ WritesUnknown /\ MediumHoldsData
      /\ (InStep(t) \/ OutOfStep(t))
  BY DEF StorageInv
<1>3. abandoned' = MaxTimeouts /\ abandoned # MaxTimeouts /\ abandoned' \in 0 .. MaxTimeouts
  BY <1>1, <1>2, UsbStorageAssumption DEF StorageTyped
<1>4. InStep(t) /\ ~(Late(t) /\ abandoned = MaxTimeouts)
  BY <1>2, <1>3 DEF OutOfStep
<1>5. /\ StorageTyped(t)' /\ QueuesTold' /\ storing'[t] = Resting
      /\ expected' = expected => WritesUnknown'
  <2>1. storing' = [storing EXCEPT ![t] = Resting] /\ bulkPipes' = Freed(t)
        /\ DOMAIN expected' = Lbas /\ done' \in [Pipes -> DoneState]
    BY <1>1, <1>2 DEF EndCommand, StorageTyped
  <2> QED  BY <1>1, <1>3, <2>1, EndTells
<1>6. /\ \A i \in Pipes :
           /\ Len(bulkPipes[i]) \in Nat /\ Len(bulkPipes'[i]) = Len(bulkPipes[i])
           /\ \A n \in 1 .. Len(bulkPipes[i]) :
                /\ bulkPipes'[i][n].packet = bulkPipes[i][n].packet
                /\ bulkPipes'[i][n].of = Nobody
  BY <1>1, <1>2, Freeing DEF EndCommand
<1>7. /\ Len(Outs') = Len(Outs) /\ Len(Ins') = Len(Ins)
      /\ Len(Outs) = 1 => Outs'[1].packet = Outs[1].packet
      /\ Len(Ins) = 1 => Ins'[1].packet = Ins[1].packet /\ Ins'[1].of = Nobody
  BY <1>6 DEF Outs, Ins, Pipes
<1>8. MediumHoldsData' /\ SuccessIsTrue'
  BY <1>1, <1>2 DEF EndCommand, MediumHoldsData, SuccessIsTrue
<1>9. InStep(t)' \/ OutOfStep(t)'
  <2>1. ASSUME Command0(t) PROVE LostResting(t)'
    BY <1>1, <1>5, <1>7, <2>1 DEF Command0, LostResting, IsCommand, Packet, Resting
  <2>2. ASSUME Data0(t) PROVE LostResting(t)'
    <3>1. CASE storing[t].op = "read"
      <4>1. Len(Outs') = 0 /\ Len(Ins') = 1 /\ stick'.phase = "in" /\ storing'[t].pc = "rest"
            /\ Ins'[1].packet.len = SectorLength
        <5>1. Len(Outs) = 0 /\ Len(Ins) = 1 /\ stick.phase = "in" /\ Ins[1].packet.len = SectorLength
          BY <2>2, <3>1 DEF Data0
        <5> QED  BY <1>1, <1>5, <1>7, <5>1 DEF Resting
      <4> QED  BY <4>1 DEF LostResting
    <3>2. CASE storing[t].op # "read"
      <4>1. Len(Outs') = 1 /\ Len(Ins') = 0 /\ stick'.phase = "out" /\ storing'[t].pc = "rest"
            /\ Outs'[1].packet = Sector(storing[t].value)
        <5>1. Len(Outs) = 1 /\ Len(Ins) = 0 /\ stick.phase = "out"
              /\ Outs[1] = [of |-> t, packet |-> Sector(storing[t].value)]
          BY <2>2, <3>2 DEF Data0
        <5> QED  BY <1>1, <1>5, <1>7, <5>1 DEF Resting
      <4> QED  BY <4>1 DEF LostResting, IsCommand, Sector, Packet
    <3> QED  BY <3>1, <3>2
  <2>3. ASSUME Status0(t) PROVE Late(t)'
    BY <1>1, <1>5, <1>7, <2>3 DEF Status0, Late, Resting
  <2>4. ~Resting0(t) /\ ~Command1(t) /\ ~Data1(t)
    BY <1>1 DEF Resting0, Command1, Data1, Through
  <2>5. ASSUME Status1(t) PROVE Resting0(t)'
    BY <1>1, <1>5, <1>7, <2>5 DEF Status1, Resting0, Resting, Quiet
  <2> QED  BY <1>3, <1>4, <2>1, <2>2, <2>3, <2>4, <2>5 DEF InStep, OutOfStep
<1> QED  BY <1>1, <1>5, <1>8, <1>9 DEF StorageInv

\* What a transfer the stick takes from the driver is: what was posted, or
\* garbage if its buffer was freed.
LEMMA FetchedIs ==
  ASSUME NEW t, t # Nobody, NEW x \in Posted(t), NEW p \in Fetched(x)
  PROVE  /\ p.len = x.packet.len /\ p.len \in {CbwLength, CswLength, SectorLength}
         /\ p.body = x.packet.body /\ (p.kind = x.packet.kind \/ p.kind = Garbage)
         /\ p = x.packet \/ p.kind = Garbage
         /\ x.of = t => p = x.packet
  BY DEF Posted, Packets, Fetched, Kinds, Lengths

\* What a transfer the stick takes leaves as it was.
LEMMA TakeTells ==
  ASSUME NEW t, StorageInv(t), NEW ok \in BOOLEAN, bulkPipes["out"] # <<>>, TakeOut(ok),
         ok \/ stick'.phase = "stalled",
         stick' \in StickState, stick'.tag <= tag, DOMAIN medium' = Lbas,
         succeeded' = NoAnswer, UNCHANGED <<storing, inbuf, tag, expected, abandoned>>
  PROVE  /\ StorageTyped(t)' /\ QueuesTold' /\ SuccessIsTrue'
         /\ (stick'.phase = "out" => expected'[stick'.lba] = Unknown) => WritesUnknown'
         /\ Len(Outs) \in Nat \ {0} /\ Len(Outs') = Len(Outs) - 1 /\ Ins' = Ins
         /\ Len(Outs) = 2 => Outs'[1] = Outs[2]
         /\ Head(bulkPipes["out"]) = Outs[1] /\ Outs[1] \in Posted(t)
         /\ 1 \in DOMAIN Outs
         /\ done'["out"] = [set |-> TRUE, ok |-> ok, residue |-> 0] /\ done'["in"] = done["in"]
<1>1. StorageTyped(t) /\ QueuesTold /\ WritesUnknown
  BY DEF StorageInv
<1>2. /\ bulkPipes' \in [Pipes -> Seq(Posted(t))] /\ bulkPipes'["in"] = bulkPipes["in"]
      /\ Len(Outs) \in Nat \ {0} /\ Len(Outs') = Len(Outs) - 1
      /\ \A n \in 1 .. (Len(Outs) - 1) : Outs'[n] = Outs[n + 1]
      /\ Head(Outs) = Outs[1] /\ Outs[1] \in Posted(t)
  BY <1>1, Taking DEF Pipes, Outs, TakeOut
<1>3. DOMAIN Outs = 1 .. Len(Outs) /\ DOMAIN Outs' = 1 .. Len(Outs')
  BY <1>1, <1>2 DEF StorageTyped, Pipes, Outs
<1>4. /\ done' \in [Pipes -> DoneState] /\ done'["in"] = done["in"]
      /\ done'["out"] = [set |-> TRUE, ok |-> ok, residue |-> 0]
  <2>1. done \in [Pipes -> DoneState] /\ [set |-> TRUE, ok |-> ok, residue |-> 0] \in DoneState
    BY <1>1 DEF StorageTyped, DoneState
  <2>2. done' = [done EXCEPT !["out"] = [set |-> TRUE, ok |-> ok, residue |-> 0]]
    BY DEF TakeOut
  <2> QED  BY <2>1, <2>2 DEF Pipes
<1>5. StorageTyped(t)'
  BY <1>1, <1>2, <1>4 DEF StorageTyped, StoringState
<1>6. ASSUME NEW n \in DOMAIN Outs' PROVE n + 1 \in DOMAIN Outs /\ Outs'[n] = Outs[n + 1]
  BY <1>2, <1>3
<1>7. QueuesTold'
  <2>1. ASSUME NEW n \in DOMAIN Outs'
        PROVE  IF IsCommand(Outs[n])'
                 THEN Outs'[n].packet.body \in Commands /\ Outs'[n].packet.body.tag <= tag'
                 ELSE Outs'[n].packet.kind = "sector"
    BY <1>1, <1>6 DEF QueuesTold, IsCommand
  <2>2. \A n \in DOMAIN Ins' : ~IsCommand(Ins[n])'
    BY <1>1, <1>2 DEF Ins, QueuesTold, IsCommand
  <2>3. stick'.phase # "stalled" /\ done'["out"].set => done'["out"].ok /\ done'["out"].residue = 0
    BY <1>4
  <2> QED  BY <2>1, <2>2, <2>3 DEF QueuesTold
<1>8. ASSUME stick'.phase = "out" => expected'[stick'.lba] = Unknown PROVE WritesUnknown'
  <2>1. ASSUME NEW n \in DOMAIN Outs', IsCommand(Outs[n])', Outs'[n].packet.body.op = "write"
        PROVE  expected'[Outs'[n].packet.body.lba] = Unknown
    BY <1>1, <1>6, <2>1 DEF WritesUnknown, IsCommand
  <2> QED  BY <1>8, <2>1 DEF WritesUnknown
<1>9. SuccessIsTrue'
  BY DEF SuccessIsTrue
<1>10. (Len(Outs) = 2 => Outs'[1] = Outs[2]) /\ 1 \in DOMAIN Outs
  BY <1>2, <1>3
<1> QED  BY <1>2, <1>4, <1>5, <1>7, <1>8, <1>9, <1>10 DEF Ins, Outs

\* The stick takes a packet for a command.
LEMMA TakesCommandKeeps ==
  ASSUME NEW t, t # Nobody, StorageInv(t), StickTakesCommand
  PROVE  StorageInv(t)'
<1>1. /\ stick.phase = "command" /\ bulkPipes["out"] # <<>>
      /\ succeeded' = NoAnswer /\ UNCHANGED <<storing, inbuf, tag, medium, expected, abandoned>>
  BY DEF StickTakesCommand
<1>2. /\ StorageTyped(t) /\ QueuesTold /\ WritesUnknown /\ MediumHoldsData
      /\ (InStep(t) \/ OutOfStep(t))
  BY DEF StorageInv
<1>3. PICK p \in Fetched(Head(bulkPipes["out"])) :
        IF p.kind = "cbw"
         THEN /\ TakeOut(TRUE)
              /\ stick' = [phase |-> IF p.body.op = "read" THEN "in" ELSE "out", op |-> p.body.op,
                           lba |-> p.body.lba, tag |-> p.body.tag, status |-> 0, residue |-> 0]
         ELSE TakeOut(FALSE) /\ stick' = [stick EXCEPT !.phase = "stalled"]
  BY DEF StickTakesCommand
<1>4. /\ Head(bulkPipes["out"]) = Outs[1] /\ Outs[1] \in Posted(t) /\ 1 \in DOMAIN Outs
  <2>1. Outs \in Seq(Posted(t)) /\ Outs # <<>>
    BY <1>1, <1>2 DEF StorageTyped, Outs, Pipes
  <2>2. Len(Outs) \in Nat \ {0} /\ Head(Outs) = Outs[1] /\ Outs[1] \in Posted(t)
    BY <2>1, QueueShrinks
  <2> QED  BY <2>1, <2>2 DEF Outs
<1>5. /\ p = Outs[1].packet \/ p.kind = Garbage
      /\ p.body = Outs[1].packet.body /\ (Outs[1].of = t => p = Outs[1].packet)
  BY <1>3, <1>4, FetchedIs
<1>6. p.kind = "cbw" => /\ IsCommand(Outs[1]) /\ p = Outs[1].packet /\ p.body \in Commands /\ p.body.tag <= tag
                        /\ p.body.op = "write" => expected[p.body.lba] = Unknown
  BY <1>2, <1>4, <1>5 DEF QueuesTold, WritesUnknown, IsCommand, Garbage
<1>7. stick' \in StickState /\ stick'.tag <= tag
  <2>1. CASE p.kind = "cbw"
    BY <1>3, <1>6, <2>1 DEF StickState, Commands, Ops
  <2>2. CASE p.kind # "cbw"
    <3>1. stick \in StickState /\ stick' = [stick EXCEPT !.phase = "stalled"] /\ stick.tag <= tag
      BY <1>2, <1>3, <2>2 DEF StorageTyped, QueuesTold
    <3> QED  BY <3>1 DEF StickState
  <2> QED  BY <2>1, <2>2
<1>8. p.kind # "cbw" => stick'.phase = "stalled"
  BY <1>2, <1>3 DEF StorageTyped, StickState
<1>9. /\ StorageTyped(t)' /\ QueuesTold' /\ SuccessIsTrue'
      /\ (stick'.phase = "out" => expected'[stick'.lba] = Unknown) => WritesUnknown'
      /\ Len(Outs) \in Nat \ {0} /\ Len(Outs') = Len(Outs) - 1 /\ Ins' = Ins
      /\ Len(Outs) = 2 => Outs'[1] = Outs[2]
      /\ done'["out"] = [set |-> TRUE, ok |-> (p.kind = "cbw"), residue |-> 0] /\ done'["in"] = done["in"]
  <2>1. DOMAIN medium' = Lbas
    BY <1>1, <1>2 DEF StorageTyped
  <2>2. TakeOut(p.kind = "cbw")
    <3>1. CASE p.kind = "cbw"
      BY <1>3, <3>1 DEF TakeOut
    <3>2. CASE p.kind # "cbw"
      BY <1>3, <3>2 DEF TakeOut
    <3> QED  BY <3>1, <3>2
  <2> DEFINE ok == p.kind = "cbw"
  <2>3. ok \in BOOLEAN /\ TakeOut(ok) /\ (ok \/ stick'.phase = "stalled")
    BY <1>8, <2>2
  <2> HIDE DEF ok
  <2>4. /\ StorageTyped(t)' /\ QueuesTold' /\ SuccessIsTrue'
        /\ (stick'.phase = "out" => expected'[stick'.lba] = Unknown) => WritesUnknown'
        /\ Len(Outs) \in Nat \ {0} /\ Len(Outs') = Len(Outs) - 1 /\ Ins' = Ins
        /\ Len(Outs) = 2 => Outs'[1] = Outs[2]
        /\ done'["out"] = [set |-> TRUE, ok |-> ok, residue |-> 0] /\ done'["in"] = done["in"]
    BY <1>1, <1>7, <2>1, <2>3, TakeTells
  <2> QED  BY <2>4 DEF ok
<1>10. WritesUnknown' /\ MediumHoldsData'
  <2>1. stick'.phase = "out" => expected'[stick'.lba] = Unknown
    <3>1. CASE p.kind = "cbw"
      BY <1>1, <1>3, <1>6, <3>1 DEF Commands, Ops
    <3>2. CASE p.kind # "cbw"
      BY <1>8, <3>2
    <3> QED  BY <3>1, <3>2
  <2> QED  BY <1>1, <1>2, <1>9, <2>1 DEF MediumHoldsData
<1>11. ASSUME InStep(t) PROVE InStep(t)' \/ OutOfStep(t)'
  <2>1. Command0(t)
    BY <1>1, <1>9, <1>11
       DEF InStep, Resting0, Command1, Data0, Data1, Status0, Status1, Late, Quiet
  <2>2. p = Outs[1].packet /\ p.kind = "cbw" /\ p.body = [op |-> storing[t].op, lba |-> storing[t].lba, tag |-> storing[t].tag]
    BY <1>5, <2>1 DEF Command0, Packet
  <2>3. Command1(t)'
    <3>1. storing[t].pc = "cbw" /\ Len(Outs') = 0 /\ Len(Ins') = 0 /\ Through("out")'
      <4>1. storing[t].pc = "cbw" /\ Len(Outs) = 1 /\ Len(Ins) = 0
        BY <2>1 DEF Command0
      <4>2. Through("out")'
        <5>1. (p.kind = "cbw") = TRUE
          BY <2>2
        <5>2. done'["out"] = [set |-> TRUE, ok |-> TRUE, residue |-> 0]
          BY <1>9, <5>1, Zenon
        <5> QED  BY <5>2 DEF Through
      <4> QED  BY <1>9, <4>1, <4>2
    <3>2. stick' = [phase |-> IF storing[t].op = "read" THEN "in" ELSE "out", op |-> storing[t].op,
                    lba |-> storing[t].lba, tag |-> storing[t].tag, status |-> 0, residue |-> 0]
      BY <1>3, <2>2
    <3> QED  BY <1>1, <3>1, <3>2 DEF Command1, Quiet, Serves
  <2> QED  BY <2>3 DEF InStep
<1>12. ASSUME OutOfStep(t), p.kind # "cbw" PROVE OutOfStep(t)'
  <2>1. storing[t].pc = "csw" => ~done["in"].set \/ NotOurs(t) \/ Lacks(t)
    BY <1>12 DEF OutOfStep, LostResting, LostCommand, LostRead, LostWrite, LostStatus, Stalled
  <2>2. Stalled(t)'
    BY <1>1, <1>8, <1>9, <1>12, <2>1 DEF Stalled, NotOurs, Lacks
  <2> QED  BY <1>1, <1>12, <2>2 DEF OutOfStep
<1>13. ASSUME OutOfStep(t), p.kind = "cbw" PROVE OutOfStep(t)'
  <2>1. stick'.phase \in {"in", "out"} /\ stick'.tag = p.body.tag /\ p = Outs[1].packet /\ IsCommand(Outs[1])
    BY <1>3, <1>6, <1>13
  <2>2. ASSUME LostResting(t) PROVE LostResting(t)'
    <3>1. storing[t].pc = "rest" /\ Len(Outs) = 1 /\ Len(Ins) = 0
      BY <1>1, <1>9, <2>1, <2>2 DEF LostResting, Quiet
    <3>2. Len(Outs') = 0 /\ Len(Ins') = 0
      BY <1>9, <3>1
    <3> QED  BY <1>1, <2>1, <3>1, <3>2 DEF LostResting, Quiet, Elsewhere
  <2>3. ASSUME LostCommand(t) PROVE LostCommand(t)'
    <3>1. /\ storing[t].pc = "cbw" /\ Len(Outs) = 2 /\ Len(Ins) = 0 /\ Own(t, 2)
          /\ Outs[1].packet.body.tag # storing[t].tag
      BY <1>1, <1>9, <2>1, <2>3 DEF LostCommand, Quiet, Elsewhere
    <3>2. Len(Outs') = 1 /\ Len(Ins') = 0 /\ Own(t, 1)' /\ Behind1(t)'
      BY <1>1, <1>9, <2>1, <3>1 DEF Own, IsCommand, Behind1
    <3> QED  BY <1>1, <2>1, <3>1, <3>2 DEF LostCommand, Elsewhere
  <2>4. ASSUME LostRead(t) PROVE LostRead(t)'
    BY <1>1, <1>9, <2>1, <2>4 DEF LostRead, Quiet, Elsewhere
  <2>5. ~LostWrite(t) /\ ~Stalled(t)
    BY <1>1 DEF LostWrite, Stalled, Elsewhere
  <2>6. ASSUME LostStatus(t) PROVE LostStatus(t)'
    BY <1>1, <1>9, <2>1, <2>6 DEF LostStatus, Quiet, NotOurs, Lacks
  <2> QED  BY <1>1, <1>13, <2>2, <2>3, <2>4, <2>5, <2>6 DEF OutOfStep
<1> QED  BY <1>2, <1>9, <1>10, <1>11, <1>12, <1>13 DEF StorageInv

\* The stick takes a packet for the data of a write.
LEMMA TakesDataKeeps ==
  ASSUME NEW t, t # Nobody, StorageInv(t), StickTakesData
  PROVE  StorageInv(t)'
<1>1. /\ stick.phase = "out" /\ bulkPipes["out"] # <<>> /\ TakeOut(TRUE)
      /\ succeeded' = NoAnswer /\ UNCHANGED <<storing, inbuf, tag, expected, abandoned>>
  BY DEF StickTakesData
<1>2. /\ StorageTyped(t) /\ QueuesTold /\ WritesUnknown /\ MediumHoldsData
      /\ (InStep(t) \/ OutOfStep(t)) /\ stick \in StickState
  BY DEF StorageInv, StorageTyped
<1>3. PICK p \in Fetched(Head(bulkPipes["out"])), failed \in BOOLEAN :
       /\ stick' = [stick EXCEPT !.phase = "status", !.status = IF failed THEN 1 ELSE 0,
                                 !.residue = SectorLength - p.len]
       /\ medium' = IF failed THEN medium
                    ELSE [medium EXCEPT
                            ![stick.lba] = IF p.kind = "sector" THEN p.body ELSE Garbage]
  BY DEF StickTakesData
<1>4. /\ Head(bulkPipes["out"]) = Outs[1] /\ Outs[1] \in Posted(t) /\ 1 \in DOMAIN Outs
  <2>1. Outs \in Seq(Posted(t)) /\ Outs # <<>>
    BY <1>1, <1>2 DEF StorageTyped, Outs, Pipes
  <2>2. Len(Outs) \in Nat \ {0} /\ Head(Outs) = Outs[1] /\ Outs[1] \in Posted(t)
    BY <2>1, QueueShrinks
  <2> QED  BY <2>1, <2>2 DEF Outs
<1>5. /\ p.len \in {CbwLength, CswLength, SectorLength} /\ (Outs[1].of = t => p = Outs[1].packet)
  BY <1>3, <1>4, FetchedIs
<1>6. /\ stick' \in StickState /\ stick'.tag = stick.tag /\ stick'.op = stick.op /\ stick'.lba = stick.lba
      /\ stick'.phase = "status" /\ stick'.status = (IF failed THEN 1 ELSE 0)
      /\ stick'.residue = SectorLength - p.len
  <2>1. SectorLength - p.len \in Nat
    BY <1>5 DEF SectorLength, CbwLength, CswLength
  <2> QED  BY <1>2, <1>3, <2>1 DEF StickState
<1>7. DOMAIN medium' = Lbas
  BY <1>2, <1>3 DEF StorageTyped
<1>8. stick'.tag <= tag
  BY <1>2, <1>6 DEF QueuesTold
<1>9. /\ StorageTyped(t)' /\ QueuesTold' /\ SuccessIsTrue'
      /\ (stick'.phase = "out" => expected'[stick'.lba] = Unknown) => WritesUnknown'
      /\ Len(Outs) \in Nat \ {0} /\ Len(Outs') = Len(Outs) - 1 /\ Ins' = Ins
      /\ Len(Outs) = 2 => Outs'[1] = Outs[2]
      /\ done'["out"] = [set |-> TRUE, ok |-> TRUE, residue |-> 0] /\ done'["in"] = done["in"]
  <2> DEFINE ok == TRUE
  <2>1. ok \in BOOLEAN /\ TakeOut(ok) /\ (ok \/ stick'.phase = "stalled")
    BY <1>1
  <2> HIDE DEF ok
  <2>2. /\ StorageTyped(t)' /\ QueuesTold' /\ SuccessIsTrue'
        /\ (stick'.phase = "out" => expected'[stick'.lba] = Unknown) => WritesUnknown'
        /\ Len(Outs) \in Nat \ {0} /\ Len(Outs') = Len(Outs) - 1 /\ Ins' = Ins
        /\ Len(Outs) = 2 => Outs'[1] = Outs[2]
        /\ done'["out"] = [set |-> TRUE, ok |-> ok, residue |-> 0] /\ done'["in"] = done["in"]
    BY <1>1, <1>6, <1>7, <1>8, <2>1, TakeTells
  <2> QED  BY <2>2 DEF ok
<1>10. WritesUnknown'
  BY <1>6, <1>9
<1>11. MediumHoldsData'
  <2>1. expected[stick.lba] = Unknown
    BY <1>1, <1>2 DEF WritesUnknown
  <2>2. ASSUME NEW m \in Lbas, m # stick.lba PROVE medium'[m] = medium[m]
    BY <1>2, <1>3, <2>2 DEF StorageTyped
  <2> QED  BY <1>1, <1>2, <2>1, <2>2 DEF MediumHoldsData
<1>12. ASSUME InStep(t) PROVE Data1(t)'
  <2>1. Data0(t) /\ storing[t].op # "read"
    BY <1>1, <1>9, <1>12
       DEF InStep, Resting0, Command0, Command1, Data0, Data1, Status0, Status1, Late, Quiet
  <2>2. /\ storing[t].pc = "data" /\ Serves(t) /\ Len(Outs) = 1 /\ Len(Ins) = 0
        /\ Outs[1] = [of |-> t, packet |-> Sector(storing[t].value)]
    BY <2>1 DEF Data0
  <2>3. p = Sector(storing[t].value)
    BY <1>5, <2>2
  <2>4. Serves(t)' /\ Quiet'
    BY <1>1, <1>6, <1>9, <2>2, <2>3 DEF Serves, Quiet, Sector, Packet, SectorLength
  <2>5. Through(DataPipe(storing[t]))'
    BY <1>1, <1>9, <2>1 DEF Through, DataPipe
  <2>6. stick.lba \in Lbas /\ stick.lba = storing[t].lba
    BY <1>2, <2>2 DEF StickState, Serves
  <2>7. ~failed => medium'[storing[t].lba] = storing[t].value
    BY <1>2, <1>3, <2>3, <2>6 DEF Sector, Packet, StorageTyped
  <2>8. Kept(t, inbuf[t])'
    BY <1>1, <1>6, <2>1, <2>7 DEF Kept, IsDone
  <2> QED  BY <1>1, <1>6, <2>2, <2>4, <2>5, <2>8 DEF Data1
<1>13. ASSUME OutOfStep(t) PROVE OutOfStep(t)'
  <2>1. Behind1(t) => Behind1(t)'
    BY <1>1, <1>6 DEF Behind1
  <2>2. ASSUME LostResting(t) PROVE LostResting(t)'
    <3>1. storing[t].pc = "rest" /\ Len(Outs) = 1 /\ Len(Ins) = 0
      BY <1>1, <1>9, <2>2 DEF LostResting, Quiet
    <3>2. Len(Outs') = 0 /\ Len(Ins') = 0
      BY <1>9, <3>1
    <3> QED  BY <1>1, <1>6, <3>1, <3>2 DEF LostResting, Quiet, Elsewhere
  <2>3. ASSUME LostCommand(t) PROVE LostCommand(t)'
    <3>1. storing[t].pc = "cbw" /\ Behind1(t) /\ Len(Ins) = 0
          /\ ((Len(Outs) = 2 /\ Own(t, 2)) \/ Len(Outs) = 1)
      BY <1>1, <1>9, <2>3 DEF LostCommand, Quiet
    <3>2. CASE Len(Outs) = 2 /\ Own(t, 2)
      <4>1. Len(Outs') = 1 /\ Own(t, 1)' /\ Len(Ins') = 0
        BY <1>1, <1>9, <3>1, <3>2 DEF Own, IsCommand
      <4> QED  BY <1>1, <1>6, <2>1, <3>1, <4>1 DEF LostCommand, Elsewhere
    <3>3. CASE Len(Outs) = 1
      <4>1. Len(Outs') = 0 /\ Len(Ins') = 0
        BY <1>9, <3>1, <3>3
      <4> QED  BY <1>1, <1>6, <2>1, <3>1, <4>1 DEF LostCommand, Quiet
    <3> QED  BY <3>1, <3>2, <3>3
  <2>4. ASSUME LostRead(t) PROVE LostRead(t)'
    <3>1. /\ storing[t].pc = "data" /\ storing[t].op = "read" /\ Len(Outs) = 1 /\ Len(Ins) = 1
          /\ Ins[1].packet.len = SectorLength /\ Behind1(t) /\ ~done["in"].set
      BY <1>1, <1>9, <2>4 DEF LostRead
    <3>2. Len(Outs') = 0
      BY <1>9, <3>1
    <3> QED  BY <1>1, <1>6, <1>9, <2>1, <3>1, <3>2 DEF LostRead
  <2>5. ASSUME LostWrite(t) PROVE LostWrite(t)'
    <3>1. /\ storing[t].pc = "data" /\ storing[t].op = "write" /\ Len(Outs) = 2 /\ Len(Ins) = 0
          /\ ~IsCommand(Outs[2]) /\ Behind1(t)
      BY <1>1, <1>9, <2>5 DEF LostWrite
    <3>2. Len(Outs') = 1 /\ ~IsCommand(Outs[1])'
      BY <1>9, <3>1 DEF IsCommand
    <3> QED  BY <1>1, <1>6, <1>9, <2>1, <3>1, <3>2 DEF LostWrite
  <2>6. ~LostStatus(t) /\ ~Stalled(t)
    BY <1>1, <1>9 DEF LostStatus, Stalled, Quiet
  <2> QED  BY <1>1, <1>13, <2>2, <2>3, <2>4, <2>5, <2>6 DEF OutOfStep
<1> QED  BY <1>2, <1>9, <1>10, <1>11, <1>12, <1>13 DEF StorageInv, InStep

\* What a packet the stick gives leaves as it was.
LEMMA GiveTells ==
  ASSUME NEW t, StorageInv(t), NEW p, p.len \in {CswLength, SectorLength},
         bulkPipes["in"] # <<>>, GiveIn(p),
         stick' \in StickState, stick'.tag = stick.tag, stick.phase # "stalled", stick'.phase # "out",
         succeeded' = NoAnswer, UNCHANGED <<storing, tag, medium, expected, abandoned>>
  PROVE  /\ (StorageTyped(t) /\ QueuesTold /\ WritesUnknown /\ MediumHoldsData /\ SuccessIsTrue)'
         /\ Len(Ins) \in Nat \ {0} /\ Len(Ins') = Len(Ins) - 1 /\ Outs' = Outs
         /\ Ins[1] \in Posted(t) /\ Ins[1].packet.len \in Lengths
         /\ done'["out"] = done["out"] /\ done'["in"].set
         /\ p.len <= Ins[1].packet.len =>
              done'["in"].ok /\ done'["in"].residue = Ins[1].packet.len - p.len
         /\ (inbuf'[t] = p /\ p.len <= Ins[1].packet.len) \/ inbuf' = inbuf
         /\ Ins[1].of = t /\ t # Nobody /\ p.len <= Ins[1].packet.len => inbuf'[t] = p
<1>1. /\ StorageTyped(t) /\ QueuesTold /\ WritesUnknown /\ MediumHoldsData
  BY DEF StorageInv
<1> DEFINE x == Ins[1]
           fits == p.len <= x.packet.len
           d == [set |-> TRUE, ok |-> p.len <= x.packet.len,
                 residue |-> IF p.len <= x.packet.len THEN x.packet.len - p.len ELSE 0]
<1>2. /\ bulkPipes' \in [Pipes -> Seq(Posted(t))] /\ bulkPipes'["out"] = bulkPipes["out"]
      /\ Len(Ins) \in Nat \ {0} /\ Len(Ins') = Len(Ins) - 1
      /\ \A n \in 1 .. (Len(Ins) - 1) : Ins'[n] = Ins[n + 1]
      /\ Head(Ins) = Ins[1] /\ Ins[1] \in Posted(t)
  BY <1>1, Taking DEF Pipes, Ins, GiveIn
<1>3. DOMAIN Ins = 1 .. Len(Ins) /\ DOMAIN Ins' = 1 .. Len(Ins')
  BY <1>1, <1>2 DEF StorageTyped, Pipes, Ins
<1>4. x.packet.len \in Lengths /\ x.of \in {t, Nobody}
  BY <1>2 DEF Posted, Packets
<1>5. /\ done' = [done EXCEPT !["in"] = d]
      /\ inbuf' = IF x.of # Nobody /\ p.len <= x.packet.len THEN [inbuf EXCEPT ![x.of] = p] ELSE inbuf
  BY <1>2 DEF GiveIn, Ins
<1>6. d \in DoneState
  <2>1. p.len <= x.packet.len => x.packet.len - p.len \in Nat
    BY <1>4 DEF Lengths, CbwLength, CswLength, SectorLength
  <2>2. (p.len <= x.packet.len) \in BOOLEAN
    OBVIOUS
  <2> HIDE DEF x
  <2> QED  BY <2>1, <2>2 DEF DoneState
<1>7. d.set /\ (p.len <= x.packet.len => d.ok /\ d.residue = x.packet.len - p.len)
  OBVIOUS
<1> HIDE DEF x, d
<1>8. /\ done' \in [Pipes -> DoneState] /\ done'["out"] = done["out"] /\ done'["in"] = d
  BY <1>1, <1>5, <1>6 DEF StorageTyped, Pipes
<1>9. DOMAIN inbuf' = {t} /\ ((inbuf'[t] = p /\ p.len <= x.packet.len) \/ inbuf' = inbuf)
      /\ (x.of = t /\ t # Nobody /\ p.len <= x.packet.len => inbuf'[t] = p)
  BY <1>1, <1>4, <1>5 DEF StorageTyped
<1>10. StorageTyped(t)'
  BY <1>1, <1>2, <1>8, <1>9 DEF StorageTyped, StoringState
<1>11. QueuesTold'
  <2>1. ASSUME NEW n \in DOMAIN Ins' PROVE ~IsCommand(Ins[n])'
    <3>1. n + 1 \in DOMAIN Ins /\ Ins'[n] = Ins[n + 1]
      BY <1>2, <1>3
    <3> QED  BY <1>1, <3>1 DEF QueuesTold, IsCommand
  <2>2. Outs' = Outs
    BY <1>2 DEF Outs
  <2> QED  BY <1>1, <1>8, <2>1, <2>2 DEF QueuesTold, IsCommand
<1>12. WritesUnknown' /\ MediumHoldsData' /\ SuccessIsTrue'
  BY <1>1, <1>2 DEF WritesUnknown, MediumHoldsData, SuccessIsTrue, Outs, IsCommand
<1> QED  BY <1>2, <1>4, <1>7, <1>8, <1>9, <1>10, <1>11, <1>12 DEF Outs, x

\* The stick gives the data of a read.
LEMMA GivesDataKeeps ==
  ASSUME NEW t, t # Nobody, StorageInv(t), StickGivesData
  PROVE  StorageInv(t)'
<1>1. /\ stick.phase = "in" /\ bulkPipes["in"] # <<>>
      /\ succeeded' = NoAnswer /\ UNCHANGED <<storing, tag, medium, expected, abandoned>>
  BY DEF StickGivesData
<1>2. /\ StorageTyped(t) /\ stick \in StickState /\ (InStep(t) \/ OutOfStep(t))
  BY DEF StorageInv, StorageTyped
<1>3. PICK failed \in BOOLEAN :
       /\ GiveIn(Sector(IF failed THEN Garbage ELSE medium[stick.lba]))
       /\ stick' = [stick EXCEPT !.phase = "status", !.status = IF failed THEN 1 ELSE 0]
  BY DEF StickGivesData
<1> DEFINE p == Sector(IF failed THEN Garbage ELSE medium[stick.lba])
<1>4. p.len = SectorLength /\ (~failed => p = Sector(medium[stick.lba])) /\ p.kind # "csw"
  BY DEF Sector, Packet
<1>5. GiveIn(p)
  BY <1>3
<1>6. /\ stick' \in StickState /\ stick'.tag = stick.tag /\ stick'.op = stick.op /\ stick'.lba = stick.lba
      /\ stick'.phase = "status" /\ stick'.status = (IF failed THEN 1 ELSE 0)
      /\ stick'.residue = stick.residue
  BY <1>2, <1>3 DEF StickState
<1> HIDE DEF p
<1>7. /\ (StorageTyped(t) /\ QueuesTold /\ WritesUnknown /\ MediumHoldsData /\ SuccessIsTrue)'
      /\ Len(Ins) \in Nat \ {0} /\ Len(Ins') = Len(Ins) - 1 /\ Outs' = Outs
      /\ Ins[1] \in Posted(t) /\ Ins[1].packet.len \in Lengths
      /\ done'["out"] = done["out"] /\ done'["in"].set
      /\ p.len <= Ins[1].packet.len =>
           done'["in"].ok /\ done'["in"].residue = Ins[1].packet.len - p.len
      /\ (inbuf'[t] = p /\ p.len <= Ins[1].packet.len) \/ inbuf' = inbuf
      /\ Ins[1].of = t /\ t # Nobody /\ p.len <= Ins[1].packet.len => inbuf'[t] = p
  BY <1>1, <1>4, <1>5, <1>6, GiveTells
<1>8. Ins[1].packet.len = SectorLength =>
        Through("in")' /\ (Ins[1].of = t => inbuf'[t] = p)
  BY <1>4, <1>7 DEF Through, SectorLength
<1>9. ASSUME InStep(t) PROVE Data1(t)'
  <2>1. Data0(t)
    BY <1>1, <1>7, <1>9
       DEF InStep, Resting0, Command0, Command1, Data1, Status0, Status1, Late, Quiet
  <2>2. /\ storing[t].pc = "data" /\ storing[t].op = "read" /\ Serves(t)
        /\ Len(Outs) = 0 /\ Len(Ins) = 1 /\ Ins[1].of = t /\ Ins[1].packet.len = SectorLength
    BY <1>1, <2>1 DEF Data0
  <2>3. Through("in")' /\ inbuf'[t] = p /\ DataPipe(storing[t])' = "in"
    BY <1>1, <1>8, <2>2 DEF DataPipe
  <2>4. Serves(t)' /\ Quiet'
    BY <1>1, <1>6, <1>7, <2>2 DEF Serves, Quiet
  <2>5. Kept(t, inbuf[t])'
    BY <1>1, <1>4, <1>6, <2>2, <2>3 DEF Kept, IsDone, Serves
  <2> QED  BY <1>1, <1>6, <2>2, <2>3, <2>4, <2>5 DEF Data1
<1>10. ASSUME OutOfStep(t) PROVE OutOfStep(t)'
  <2>1. Behind1(t) => Behind1(t)'
    BY <1>1, <1>6 DEF Behind1
  <2>2. ASSUME LostResting(t) PROVE LostResting(t)'
    <3>1. storing[t].pc = "rest" /\ Len(Outs) = 0 /\ Len(Ins) = 1
      BY <1>1, <1>7, <2>2 DEF LostResting, Quiet
    <3> QED  BY <1>1, <1>6, <1>7, <3>1 DEF LostResting, Quiet, Elsewhere
  <2>3. ASSUME LostCommand(t) PROVE LostCommand(t)'
    <3>1. storing[t].pc = "cbw" /\ Behind1(t) /\ Len(Ins) = 1 /\ Len(Outs) = 1 /\ Own(t, 1)
      BY <1>1, <1>7, <2>3 DEF LostCommand, Quiet
    <3>2. Own(t, 1)'
      BY <1>1, <1>7, <3>1 DEF Own, IsCommand
    <3> QED  BY <1>1, <1>6, <1>7, <2>1, <3>1, <3>2 DEF LostCommand, Elsewhere
  <2>4. ASSUME LostRead(t) PROVE LostRead(t)'
    <3>1. /\ storing[t].pc = "data" /\ storing[t].op = "read" /\ Len(Outs) = 1 /\ Len(Ins) = 1
          /\ Ins[1].packet.len = SectorLength /\ Behind1(t) /\ IsCommand(Outs[1])
      BY <1>1, <1>7, <2>4 DEF LostRead
    <3>2. Through("in")' /\ Len(Ins') = 0
      BY <1>7, <1>8, <3>1
    <3> QED  BY <1>1, <1>6, <1>7, <2>1, <3>1, <3>2 DEF LostRead, IsCommand
  <2>5. ~LostWrite(t) /\ ~Stalled(t)
    BY <1>1, <1>7 DEF LostWrite, Stalled
  <2>6. ASSUME LostStatus(t) PROVE LostStatus(t)'
    <3>1. /\ storing[t].pc = "csw" /\ Len(Outs) = 0 /\ Len(Ins) = 1 /\ Lacks(t)
      BY <1>1, <1>7, <2>6 DEF LostStatus, Quiet
    <3> QED  BY <1>1, <1>6, <1>7, <3>1 DEF LostStatus, Quiet, Lacks
  <2> QED  BY <1>1, <1>10, <2>2, <2>3, <2>4, <2>5, <2>6 DEF OutOfStep
<1> QED  BY <1>2, <1>7, <1>9, <1>10 DEF StorageInv, InStep

\* The stick gives the status of a command.
LEMMA GivesStatusKeeps ==
  ASSUME NEW t, t # Nobody, StorageInv(t), StickGivesStatus
  PROVE  StorageInv(t)'
<1> DEFINE body == [tag |-> stick.tag, status |-> stick.status, residue |-> stick.residue]
           p == Packet("csw", CswLength, body)
<1>1. /\ stick.phase = "status" /\ bulkPipes["in"] # <<>> /\ GiveIn(p)
      /\ stick' = [stick EXCEPT !.phase = "command"]
      /\ succeeded' = NoAnswer /\ UNCHANGED <<storing, tag, medium, expected, abandoned>>
  BY DEF StickGivesStatus
<1>2. /\ StorageTyped(t) /\ stick \in StickState /\ (InStep(t) \/ OutOfStep(t))
  BY DEF StorageInv, StorageTyped
<1>4. p.len = CswLength /\ p.kind = "csw" /\ p.body.tag = stick.tag /\ p.body.status = stick.status
  BY DEF Packet
<1>6. /\ stick' \in StickState /\ stick'.tag = stick.tag /\ stick'.phase = "command"
  BY <1>1, <1>2 DEF StickState
<1> HIDE DEF p
<1>7. /\ (StorageTyped(t) /\ QueuesTold /\ WritesUnknown /\ MediumHoldsData /\ SuccessIsTrue)'
      /\ Len(Ins) \in Nat \ {0} /\ Len(Ins') = Len(Ins) - 1 /\ Outs' = Outs
      /\ Ins[1] \in Posted(t) /\ Ins[1].packet.len \in Lengths
      /\ done'["out"] = done["out"] /\ done'["in"].set
      /\ p.len <= Ins[1].packet.len =>
           done'["in"].ok /\ done'["in"].residue = Ins[1].packet.len - p.len
      /\ (inbuf'[t] = p /\ p.len <= Ins[1].packet.len) \/ inbuf' = inbuf
      /\ Ins[1].of = t /\ t # Nobody /\ p.len <= Ins[1].packet.len => inbuf'[t] = p
  BY <1>1, <1>4, <1>6, GiveTells
<1>8. /\ done'["in"].ok /\ done'["in"].residue = Ins[1].packet.len - CswLength
      /\ Ins[1].of = t => inbuf'[t] = p
  BY <1>4, <1>7 DEF Lengths, SectorLength, CswLength, CbwLength
<1>9. ASSUME InStep(t) PROVE InStep(t)'
  <2>1. Status0(t) \/ (Late(t) /\ abandoned = MaxTimeouts)
    BY <1>1, <1>7, <1>9
       DEF InStep, Resting0, Command0, Command1, Data0, Data1, Status1, Quiet
  <2>2. ASSUME Status0(t) PROVE Status1(t)'
    <3>1. /\ storing[t].pc = "csw" /\ Len(Outs) = 0 /\ Len(Ins) = 1 /\ Ins[1].of = t
          /\ storing[t].got.bytes = SectorLength /\ Kept(t, storing[t].got.packet)
      BY <2>2 DEF Status0
    <3>2. inbuf'[t] = p
      BY <1>8, <3>1
    <3>3. inbuf'[t].body.status = 0 => IsDone(t, storing[t].got.packet)'
      BY <1>1, <1>4, <3>1, <3>2 DEF Kept, IsDone
    <3> QED  BY <1>1, <1>4, <1>6, <1>7, <3>1, <3>2, <3>3 DEF Status1, Quiet
  <2>3. ASSUME Late(t) PROVE Resting0(t)' \/ Command0(t)'
    <3>1. CASE storing[t].pc = "rest"
      BY <1>1, <1>6, <1>7, <2>3, <3>1 DEF Late, Resting0, Quiet
    <3>2. CASE storing[t].pc # "rest"
      <4>1. /\ storing[t].pc = "cbw" /\ ~done["out"].set /\ Len(Outs) = 1 /\ Len(Ins) = 1
            /\ Outs[1] = [of |-> t,
                          packet |-> Packet("cbw", CbwLength, [op |-> storing[t].op,
                                              lba |-> storing[t].lba, tag |-> storing[t].tag])]
        BY <2>3, <3>2 DEF Late
      <4> QED  BY <1>1, <1>6, <1>7, <4>1 DEF Command0
    <3> QED  BY <3>1, <3>2
  <2> QED  BY <2>1, <2>2, <2>3 DEF InStep
<1>10. ASSUME OutOfStep(t) PROVE OutOfStep(t)'
  <2>1. Behind1(t) => Behind1(t)' /\ (p.body.tag # storing[t].tag)
    BY <1>1, <1>4, <1>6 DEF Behind1
  <2>2. ~LostResting(t) /\ ~LostCommand(t) /\ ~LostWrite(t) /\ ~Stalled(t)
    BY <1>1, <1>7 DEF LostResting, LostCommand, LostWrite, Stalled, Quiet
  <2>4. ASSUME LostRead(t) PROVE LostRead(t)'
    <3>1. /\ storing[t].pc = "data" /\ storing[t].op = "read" /\ Len(Ins) = 1
          /\ Ins[1].packet.len = SectorLength
          /\ (Len(Outs) = 1 /\ IsCommand(Outs[1])) \/ Len(Outs) = 0
      BY <1>1, <1>7, <2>4 DEF LostRead
    <3>2. done'["in"].ok /\ done'["in"].residue = SectorLength - CswLength /\ Len(Ins') = 0
      BY <1>7, <1>8, <3>1
    <3> QED  BY <1>1, <1>6, <1>7, <3>1, <3>2 DEF LostRead, IsCommand
  <2>6. ASSUME LostStatus(t) PROVE LostStatus(t)'
    <3>1. /\ storing[t].pc = "csw" /\ Len(Outs) = 1 /\ Len(Ins) = 1 /\ Behind1(t) /\ NotOurs(t)
      BY <1>1, <1>7, <2>6 DEF LostStatus, Quiet
    <3>2. NotOurs(t)'
      BY <1>1, <1>7, <2>1, <3>1 DEF NotOurs
    <3> QED  BY <1>1, <1>6, <1>7, <3>1, <3>2 DEF LostStatus
  <2> QED  BY <1>1, <1>10, <2>2, <2>4, <2>6 DEF OutOfStep
<1> QED  BY <1>2, <1>7, <1>9, <1>10 DEF StorageInv

-----------------------------------------------------------------------------
(* The specification of the storage driver. *)

LEMMA StorageInitOK ==
  ASSUME NEW t, Storers = {t}, StorageInit
  PROVE  StorageInv(t)
<1>1. /\ storing = [x \in {t} |-> Resting] /\ inbuf = [x \in {t} |-> Zeroes] /\ tag = 0 /\ abandoned = 0
      /\ bulkPipes = [e \in Pipes |-> <<>>] /\ done = [e \in Pipes |-> NotDone]
      /\ expected = medium /\ succeeded = NoAnswer
      /\ \E w : medium \in [Lbas -> {w}]
  BY DEF StorageInit
<1>2. PICK l \in Lbas : stick = [phase |-> "command", op |-> "read", lba |-> l, tag |-> 0,
                                 status |-> 0, residue |-> 0]
  <2>1. (CHOOSE l \in Lbas : TRUE) \in Lbas
    BY UsbStorageAssumption
  <2> QED  BY <2>1 DEF StorageInit
<1>3. stick \in StickState
  BY <1>2 DEF StickState, Ops
<1>4. storing[t] = Resting /\ storing[t] \in StoringState(t) /\ storing[t].pc = "rest"
  BY <1>1 DEF StoringState, Resting
<1>5. NotDone \in DoneState /\ <<>> \in Seq(Posted(t)) /\ Len(<<>>) = 0 /\ DOMAIN <<>> = {}
  BY DEF NotDone, DoneState
<1>6. Outs = <<>> /\ Ins = <<>>
  BY <1>1 DEF Outs, Ins, Pipes
<1>7. StorageTyped(t)
  BY <1>1, <1>3, <1>4, <1>5, UsbStorageAssumption DEF StorageTyped
<1>8. QueuesTold
  BY <1>1, <1>2, <1>5, <1>6 DEF QueuesTold, Pipes, NotDone
<1>9. WritesUnknown
  BY <1>2, <1>5, <1>6 DEF WritesUnknown
<1>10. InStep(t)
  BY <1>2, <1>4, <1>5, <1>6 DEF InStep, Resting0, Quiet
<1>11. MediumHoldsData /\ SuccessIsTrue
  BY <1>1 DEF MediumHoldsData, SuccessIsTrue
<1> QED  BY <1>7, <1>8, <1>9, <1>10, <1>11 DEF StorageInv

LEMMA StorageStutters ==
  ASSUME NEW t, StorageInv(t), UNCHANGED storageVars
  PROVE  StorageInv(t)'
<1>1. /\ storing' = storing /\ bulkPipes' = bulkPipes /\ done' = done /\ inbuf' = inbuf /\ tag' = tag
      /\ stick' = stick /\ medium' = medium /\ expected' = expected /\ succeeded' = succeeded
      /\ abandoned' = abandoned
  BY DEF storageVars
<1>2. (StorageTyped(t) /\ QueuesTold /\ WritesUnknown /\ MediumHoldsData /\ SuccessIsTrue)'
  BY <1>1 DEF StorageInv, StorageTyped, StoringState, QueuesTold, WritesUnknown, MediumHoldsData,
              SuccessIsTrue, Outs, Ins, IsCommand
<1>3. /\ Outs' = Outs /\ Ins' = Ins /\ Quiet' = Quiet /\ (\A e : Through(e)' = Through(e))
      /\ Serves(t)' = Serves(t) /\ (\A x : Kept(t, x)' = Kept(t, x) /\ IsDone(t, x)' = IsDone(t, x))
      /\ Behind1(t)' = Behind1(t) /\ NotOurs(t)' = NotOurs(t) /\ Lacks(t)' = Lacks(t)
      /\ (\A n : Own(t, n)' = Own(t, n)) /\ Elsewhere' = Elsewhere
  BY <1>1 DEF Quiet, Through, Serves, IsDone, Kept, Behind1, NotOurs, Lacks, Own, Elsewhere, Outs, Ins
<1>4. InStep(t)' <=> InStep(t)
  <2>1. Resting0(t)' = Resting0(t) /\ Command0(t)' = Command0(t) /\ Command1(t)' = Command1(t)
    BY <1>1, <1>3 DEF Resting0, Command0, Command1
  <2>2. Data0(t)' = Data0(t) /\ Data1(t)' = Data1(t)
    BY <1>1, <1>3 DEF Data0, Data1, DataPipe
  <2>3. Status0(t)' = Status0(t) /\ Status1(t)' = Status1(t) /\ Late(t)' = Late(t)
    BY <1>1, <1>3 DEF Status0, Status1, Late
  <2> QED  BY <1>1, <2>1, <2>2, <2>3 DEF InStep
<1>5. OutOfStep(t)' <=> OutOfStep(t)
  <2>1. LostResting(t)' = LostResting(t) /\ LostCommand(t)' = LostCommand(t)
    BY <1>1, <1>3 DEF LostResting, LostCommand
  <2>2. LostRead(t)' = LostRead(t) /\ LostWrite(t)' = LostWrite(t)
    BY <1>1, <1>3 DEF LostRead, LostWrite
  <2>3. LostStatus(t)' = LostStatus(t) /\ Stalled(t)' = Stalled(t)
    BY <1>1, <1>3 DEF LostStatus, Stalled
  <2> QED  BY <1>1, <2>1, <2>2, <2>3 DEF OutOfStep
<1> QED  BY <1>2, <1>4, <1>5 DEF StorageInv

LEMMA StorageStepKeeps ==
  ASSUME NEW t, Storers = {t}, MaxTimeouts <= 1, StorageInv(t), [StorageNext]_storageVars
  PROVE  StorageInv(t)'
<1>1. t # Nobody
  BY UsbStorageAssumption
<1>2. ASSUME NEW l \in Lbas, msc_do_command(t, "read", l, Garbage) PROVE StorageInv(t)'
  BY <1>2, CommandKeeps DEF Ops
<1>3. ASSUME NEW l \in Lbas, NEW v \in Data, msc_do_command(t, "write", l, v) PROVE StorageInv(t)'
  BY <1>3, CommandKeeps DEF Ops
<1>4. ASSUME SendData(t) \/ AskStatus(t) \/ GetStatus(t) \/ GiveUp(t) PROVE StorageInv(t)'
  BY <1>4, SendDataKeeps, AskStatusKeeps, GetStatusKeeps, GiveUpKeeps
<1>5. ASSUME StickTakesCommand \/ StickTakesData \/ StickGivesData \/ StickGivesStatus
      PROVE  StorageInv(t)'
  BY <1>1, <1>5, TakesCommandKeeps, TakesDataKeeps, GivesDataKeeps, GivesStatusKeeps
<1>6. CASE UNCHANGED storageVars
  BY <1>6, StorageStutters
<1> QED  BY <1>2, <1>3, <1>4, <1>5, <1>6 DEF StorageNext

\* What a storage command answers with success is true, and a sector keeps what
\* was written, when one task uses the stick and at most one transfer is given up.
THEOREM StorageIsSafe ==
  ASSUME NEW t, Storers = {t}, MaxTimeouts <= 1
  PROVE  StorageSpec => []StorageSafe
<1>1. StorageInit => StorageInv(t)
  BY StorageInitOK
<1>2. StorageInv(t) /\ [StorageNext]_storageVars => StorageInv(t)'
  BY StorageStepKeeps
<1>3. StorageInv(t) => StorageSafe
  <2>1. SUFFICES ASSUME StorageInv(t) PROVE StorageSafe
    OBVIOUS
  <2> QED  BY <2>1 DEF StorageInv, StorageTyped, StorageSafe, StorageTypeOK, StickState, StoringState
<1> QED  BY <1>1, <1>2, <1>3, PTL DEF StorageSpec

-----------------------------------------------------------------------------
\* Both drivers are safe, for rings with room for the transfers given up, and
\* for one task on a stick that gives up one transfer at most.
THEOREM DriversAreSafe ==
  ASSUME PostsFit, NEW t, Storers = {t}, MaxTimeouts <= 1
  PROVE  DriversSpec => []DriversSafe
<1>1. XhciSpec => []XhciSafe
  BY XhciIsSafe
<1>2. StorageSpec => []StorageSafe
  BY StorageIsSafe
<1> QED  BY <1>1, <1>2, PTL DEF DriversSpec, DriversSafe

-----------------------------------------------------------------------------
\* A set of natural numbers that is not empty has a least element.
LEMMA LeastExists ==
  ASSUME NEW S \in SUBSET Nat, S # {}
  PROVE  \E n \in S : \A m \in S : n <= m
<1>1. PICK n \in S : \A m \in S : ~ (<<m, n>> \in OpToRel(<, Nat))
  BY NatLessThanWellFounded, WFMin
<1>2. \A m \in S : ~ m < n
  BY <1>1 DEF OpToRel
<1> QED BY <1>2

-----------------------------------------------------------------------------
(* The pointer: what a press begins, its release ends.                     *)

Tellings == {"nothing", "over", "pressed", "left"}
Panes == {FreePane} \cup [used : {TRUE}, min : BOOLEAN, told : Tellings]

PtrTyped ==
  /\ pane \in [PaneSlots -> Panes]
  /\ mouse \in [last : BOOLEAN, capture : PaneSlots \cup {NoPane},
                hover : PaneSlots \cup {NoPane}, drag : PaneSlots \cup {NoPane}]

\* A captured slot stays the one under the pointer though its window is closed
\* and another opens there.
CaptureKept == mouse.capture # NoPane => mouse.hover = mouse.capture /\ mouse.last

PtrInv == PtrTyped /\ PressesAreReleased /\ CaptureKept

\* No slot has the index that stands for none.
LEMMA NoPaneIsNone == NoPane \notin PaneSlots
<1>1. Cardinality(PaneSlots) \in Nat
  BY PaneAssumption, FS_CardinalityType
<1> QED BY <1>1, PaneAssumption DEF NoPane

\* What a pane was last told leaves it a pane.
LEMMA PanesTold ==
  ASSUME NEW p \in Panes, p.used
  PROVE  /\ p \in [used : {TRUE}, min : BOOLEAN, told : Tellings]
         /\ \A w \in Tellings : /\ [p EXCEPT !.told = w] \in Panes
                                /\ [p EXCEPT !.told = w].used
                                /\ [p EXCEPT !.told = w].told = w
         /\ [p EXCEPT !.min = ~@] \in Panes
         /\ [p EXCEPT !.min = ~@].used
         /\ [p EXCEPT !.min = ~@].told = p.told
<1>1. p \in [used : {TRUE}, min : BOOLEAN, told : Tellings]
  <2>1. ~FreePane.used
    BY DEF FreePane
  <2>2. p # FreePane
    BY <2>1
  <2> QED BY <2>2 DEF Panes
<1>2. \A w \in Tellings : [p EXCEPT !.told = w] \in [used : {TRUE}, min : BOOLEAN, told : Tellings]
  BY <1>1
<1>3. [p EXCEPT !.min = ~@] \in [used : {TRUE}, min : BOOLEAN, told : Tellings]
  BY <1>1
<1>4. \A w \in Tellings : [p EXCEPT !.told = w].told = w
  BY <1>1
<1>5. [p EXCEPT !.min = ~@].told = p.told
  BY <1>1
<1> QED BY <1>1, <1>2, <1>3, <1>4, <1>5 DEF Panes

\* What a window hears is what it was told last; the others hear nothing.
OnlyTold(ps, qs, i, w) ==
  /\ qs \in [PaneSlots -> Panes]
  /\ \A j \in PaneSlots : /\ qs[j].used = ps[j].used
                          /\ j # i => qs[j] = ps[j]
                          /\ j = i /\ ps[j].used => qs[j].told = w

\* Telling a pane changes that pane alone, and only what it was told.
LEMMA TellTells ==
  ASSUME NEW ps \in [PaneSlots -> Panes], NEW i \in PaneSlots \cup {NoPane},
         NEW w \in Tellings
  PROVE  OnlyTold(ps, Tell(ps, i, w), i, w)
<1>1. CASE i # NoPane /\ ps[i].used
  <2>1. i \in PaneSlots
    BY <1>1
  <2>2. Tell(ps, i, w) = [ps EXCEPT ![i] = [ps[i] EXCEPT !.told = w]]
    BY <1>1 DEF Tell
  <2>3. ps[i] \in Panes
    BY <2>1
  <2>4. /\ [ps[i] EXCEPT !.told = w] \in Panes
        /\ [ps[i] EXCEPT !.told = w].used
        /\ [ps[i] EXCEPT !.told = w].told = w
    BY <2>3, <1>1, PanesTold
  <2>5. ps[i].used = [ps[i] EXCEPT !.told = w].used
    BY <2>3, <1>1 DEF Panes, FreePane
  <2> QED BY <2>1, <2>2, <2>4, <2>5 DEF OnlyTold
<1>2. CASE ~(i # NoPane /\ ps[i].used)
  BY <1>2, NoPaneIsNone DEF Tell, OnlyTold
<1> QED BY <1>1, <1>2

\* Nothing is pressed, captured or hovered over at the start.
LEMMA PtrInitial == PointerInit => PtrInv
<1> SUFFICES ASSUME PointerInit PROVE PtrInv
  OBVIOUS
<1>1. PtrTyped
  BY DEF PointerInit, PtrTyped, Panes, FreePane, NoPane
<1>2. Live = {}
  BY DEF PointerInit, Live, FreePane
<1> QED BY <1>1, <1>2 DEF PtrInv, PointerInit, PressesAreReleased, CaptureKept

\* A window that comes, goes or is minimised breaks no press and no capture.
LEMMA PaneStep ==
  ASSUME PtrInv, NEW i \in PaneSlots, PaneOpens(i) \/ PaneCloses(i) \/ PaneMinimises(i)
  PROVE  PtrInv'
<1> USE DEF PtrInv
<1>1. /\ mouse' = mouse
      /\ pane' \in [PaneSlots -> Panes]
      /\ \A j \in PaneSlots : pane'[j].used /\ pane'[j].told = "pressed" =>
                              pane[j].used /\ pane[j].told = "pressed"
  <2>1. CASE PaneOpens(i)
    <3>1. Opened \in Panes /\ Opened.told # "pressed"
      BY DEF Opened, Panes, Tellings
    <3> QED BY <2>1, <3>1 DEF PaneOpens, PtrTyped
  <2>2. CASE PaneCloses(i)
    <3>1. FreePane \in Panes /\ ~FreePane.used
      BY DEF FreePane, Panes
    <3> QED BY <2>2, <3>1 DEF PaneCloses, PtrTyped
  <2>3. CASE PaneMinimises(i)
    <3>1. pane[i] \in Panes /\ pane[i].used
      BY <2>3 DEF PaneMinimises, Live, PtrTyped
    <3>2. /\ [pane[i] EXCEPT !.min = ~@] \in Panes
          /\ [pane[i] EXCEPT !.min = ~@].used
          /\ [pane[i] EXCEPT !.min = ~@].told = pane[i].told
      BY <3>1, PanesTold
    <3>3. pane' = [pane EXCEPT ![i] = [pane[i] EXCEPT !.min = ~@]] /\ mouse' = mouse
      BY <2>3 DEF PaneMinimises
    <3> QED BY <3>1, <3>2, <3>3 DEF PtrTyped
  <2> QED BY <2>1, <2>2, <2>3
<1> QED BY <1>1 DEF PtrTyped, PressesAreReleased, CaptureKept, Live

\* Motion keeps to the captured window, and tells the one it leaves.
LEMMA MotionStep ==
  ASSUME PtrInv, NEW down \in BOOLEAN, NEW over \in Shown \cup {NoPane}, Motion(down, over)
  PROVE  PtrInv'
<1> USE DEF PtrInv
<1> DEFINE target == Pointed(over)
           before == IF mouse.hover # target THEN Tell(pane, mouse.hover, "left") ELSE pane
<1>1. target \in PaneSlots \cup {NoPane}
  BY DEF Pointed, CaptureHolds, Live, Shown, PtrTyped
<1>2. pane \in [PaneSlots -> Panes] /\ mouse.hover \in PaneSlots \cup {NoPane}
  BY DEF PtrTyped
<1>3. /\ before \in [PaneSlots -> Panes]
      /\ \A j \in PaneSlots : /\ before[j].used = pane[j].used
                              /\ j # mouse.hover => before[j] = pane[j]
                              /\ j = mouse.hover /\ j # target /\ pane[j].used =>
                                   before[j].told = "left"
  <2>1. "left" \in Tellings
    BY DEF Tellings
  <2> HIDE DEF target
  <2>2. CASE mouse.hover # target
    <3>1. before = Tell(pane, mouse.hover, "left")
      BY <2>2
    <3> HIDE DEF before
    <3> DEFINE h == mouse.hover
    <3>2. h \in PaneSlots \cup {NoPane}
      BY <1>2
    <3> HIDE DEF h
    <3>3. OnlyTold(pane, Tell(pane, h, "left"), h, "left")
      BY <1>2, <2>1, <3>2, TellTells
    <3> QED BY <2>2, <3>1, <3>3 DEF h, OnlyTold
  <2>3. CASE mouse.hover = target
    BY <1>2, <2>3
  <2> QED BY <2>2, <2>3
<1>4. Inside(down) \in Tellings /\ (Inside(down) = "pressed" <=> down)
  BY DEF Inside, Tellings
<1>5. pane' = Tell(before, target, Inside(down))
  BY DEF Motion, Told
<1> HIDE DEF before
<1>6. /\ pane' \in [PaneSlots -> Panes]
      /\ \A j \in PaneSlots :
           /\ pane'[j].used = before[j].used
           /\ j # target => pane'[j] = before[j]
           /\ j = target /\ before[j].used => pane'[j].told = Inside(down)
  <2> DEFINE w == Inside(down)
  <2>1. w \in Tellings
    BY <1>4
  <2> HIDE DEF target, w
  <2>2. OnlyTold(before, Tell(before, target, w), target, w)
    BY <1>1, <1>3, <2>1, TellTells
  <2> QED BY <2>2, <1>5 DEF w, OnlyTold
<1>7. mouse' = [last |-> down, capture |-> KeptCapture(down), hover |-> target,
                drag |-> KeptDrag(down)]
  BY DEF Motion
<1>8. KeptCapture(down) \in PaneSlots \cup {NoPane} /\ KeptDrag(down) \in PaneSlots \cup {NoPane}
  BY DEF KeptCapture, KeptDrag, CaptureHolds, Live
<1>9. PtrTyped'
  <2> HIDE DEF target
  <2> QED BY <1>1, <1>6, <1>7, <1>8 DEF PtrTyped
<1>10. PressesAreReleased'
  <2> SUFFICES ASSUME NEW j \in PaneSlots, pane'[j].used, pane'[j].told = "pressed"
               PROVE  mouse'.last /\ j = mouse'.hover
    BY DEF PressesAreReleased, Live
  <2>1. j = target
    <3> SUFFICES ASSUME j # target PROVE FALSE
      OBVIOUS
    <3>1. pane'[j] = before[j] /\ pane[j].used
      BY <1>3, <1>6
    <3>2. j # mouse.hover
      BY <3>1, <1>3
    <3>3. pane[j].told = "pressed"
      BY <3>1, <3>2, <1>3
    <3> QED BY <3>1, <3>2, <3>3 DEF PressesAreReleased, Live
  <2>2. down
    BY <2>1, <1>4, <1>6
  <2> HIDE DEF target
  <2> QED BY <2>1, <2>2, <1>7
<1>11. CaptureKept'
  <2>1. KeptCapture(down) # NoPane => down /\ target = KeptCapture(down)
    BY DEF KeptCapture, Pointed
  <2> HIDE DEF target
  <2> QED BY <2>1, <1>7 DEF CaptureKept
<1> QED BY <1>9, <1>10, <1>11

\* A press captures the window under the pointer, a release lets it go.
LEMMA PressStep ==
  ASSUME PtrInv, PressElsewhere \/ \E i \in PaneSlots : PressTitle(i) \/ PressContent(i)
  PROVE  PtrInv'
<1> USE DEF PtrInv
<1>1. ~mouse.last
  BY DEF PressElsewhere, PressTitle, PressContent
<1>2. mouse.capture = NoPane /\ \A j \in PaneSlots : pane[j].used => pane[j].told # "pressed"
  BY <1>1 DEF CaptureKept, PressesAreReleased, Live
<1>3. CASE PressElsewhere
  BY <1>2, <1>3 DEF PressElsewhere, PtrTyped, CaptureKept, PressesAreReleased, Live
<1>4. CASE \E i \in PaneSlots : PressTitle(i)
  BY <1>2, <1>4 DEF PressTitle, PtrTyped, CaptureKept, PressesAreReleased, Live
<1>5. CASE \E i \in PaneSlots : PressContent(i)
  <2>1. PICK i \in PaneSlots : PressContent(i)
    BY <1>5
  <2>2. "pressed" \in Tellings /\ pane \in [PaneSlots -> Panes]
    BY DEF Tellings, PtrTyped
  <2>3. pane' = Tell(pane, i, "pressed")
    BY <2>1 DEF PressContent
  <2>4. OnlyTold(pane, Tell(pane, i, "pressed"), i, "pressed")
    BY <2>2, TellTells
  <2>5. mouse' = [mouse EXCEPT !.last = TRUE, !.capture = i, !.hover = i]
    BY <2>1 DEF PressContent
  <2> QED BY <2>3, <2>4, <2>5, <1>2 DEF OnlyTold, PtrTyped, CaptureKept, PressesAreReleased, Live
<1> QED BY <1>3, <1>4, <1>5

THEOREM PointerIsSafe == PointerSpec => []PointerSafe
<1>1. PointerInit => PtrInv
  BY PtrInitial
<1>2. PtrInv /\ [PointerNext]_pointerVars => PtrInv'
  <2> SUFFICES ASSUME PtrInv, [PointerNext]_pointerVars PROVE PtrInv'
    OBVIOUS
  <2>1. CASE PointerNext
    <3>1. CASE \E i \in PaneSlots : PaneOpens(i) \/ PaneCloses(i) \/ PaneMinimises(i)
      BY <3>1, PaneStep
    <3>2. CASE PressElsewhere \/ \E i \in PaneSlots : PressTitle(i) \/ PressContent(i)
      BY <3>2, PressStep
    <3>3. CASE \E down \in BOOLEAN, over \in Shown \cup {NoPane} : Motion(down, over)
      BY <3>3, MotionStep
    <3> QED BY <2>1, <3>1, <3>2, <3>3 DEF PointerNext
  <2>2. CASE UNCHANGED pointerVars
    BY <2>2 DEF pointerVars, PtrInv, PtrTyped, PressesAreReleased, CaptureKept, Live
  <2> QED BY <2>1, <2>2
<1>3. PtrInv => PointerSafe
  <2> SUFFICES ASSUME PtrInv PROVE PointerSafe
    OBVIOUS
  <2>1. PointerTypeOK
    <3>1. \A i \in PaneSlots : pane[i].used => pane[i].told \in Tellings
      BY PanesTold DEF PtrInv, PtrTyped
    <3> QED BY <3>1 DEF PtrInv, PtrTyped, PointerTypeOK, Live, Tellings
  <2>2. CaptureIsHover
    BY NoPaneIsNone DEF PtrInv, CaptureKept, CaptureIsHover, Live
  <2> QED BY <2>1, <2>2 DEF PointerSafe, PtrInv
<1> QED BY <1>1, <1>2, <1>3, PTL DEF PointerSpec

-----------------------------------------------------------------------------
(* The ring of events of a window.                                         *)

\* An index past the end of the ring, but not twice.
Wrap(x) == IF x < RingSize THEN x ELSE x - RingSize

\* Wrapping once is the modulo the code takes.
LEMMA WrapIsMod ==
  ASSUME NEW x \in 0 .. 2 * RingSize - 1
  PROVE  x % RingSize = Wrap(x)
<1> DEFINE n == RingSize
           q == x \div n
           r == x % n
<1>1. n \in Nat /\ n > 1
  BY RingAssumption
<1>2. x \in Int /\ 0 <= x /\ x < 2 * n
  BY <1>1
<1> HIDE DEF n
<1>3. x = n * q + r /\ q \in Int /\ r \in 0 .. n - 1
  BY <1>1, <1>2
<1> HIDE DEF q, r
<1>4. ~ q >= 2
  BY <1>1, <1>2, <1>3
<1>5. ~ q <= -1
  BY <1>1, <1>2, <1>3
<1>6. q = 0 \/ q = 1
  BY <1>3, <1>4, <1>5
<1>7. r = IF x < n THEN x ELSE x - n
  BY <1>1, <1>2, <1>3, <1>6
<1> QED BY <1>7 DEF r, n, Wrap

\* The ring e from h to t holds q.
Queued(e, h, t, q) ==
  /\ t = Wrap(h + Len(q)) /\ Len(q) < RingSize
  /\ \A i \in 1 .. Len(q) : e[Wrap(h + i - 1)] = q[i]

RingTyped ==
  /\ evq \in [Indices -> RingEvents] /\ queue \in Seq(RingEvents)
  /\ head \in Indices /\ tail \in Indices
  /\ pushing \in {NotPushing} \cup [busy : {TRUE}, event : RingEvents, head : Indices,
                                    tail : Indices, merges : BOOLEAN]

\* What the loop has read of the indices is still true when it writes.
ReadIsCurrent ==
  pushing # NotPushing => /\ pushing.head = head /\ pushing.tail = tail
                          /\ pushing.merges = Merges(head, tail, pushing.event)

RingInv == RingTyped /\ Queued(evq, head, tail, queue) /\ ReadIsCurrent

\* The ring has at least two entries.
LEMMA SizeIs == RingSize \in Nat /\ RingSize > 1 /\ 0 \in Indices
  BY RingAssumption DEF Indices

\* An index after one of the ring, modulo its size.
LEMMA IndexWraps ==
  ASSUME NEW h \in Indices, NEW n \in 0 .. RingSize
  PROVE  Wrap(h + n) \in Indices /\ (h + n) % RingSize = Wrap(h + n)
<1>1. h + n \in 0 .. 2 * RingSize - 1
  BY SizeIs DEF Indices
<1>2. (h + n) % RingSize = Wrap(h + n)
  BY <1>1, WrapIsMod
<1>3. Wrap(h + n) \in Indices
  BY SizeIs DEF Indices, Wrap
<1> QED BY <1>2, <1>3

\* The next index.
LEMMA NextWraps == ASSUME NEW h \in Indices PROVE Next1(h) = Wrap(h + 1) /\ Next1(h) \in Indices
<1>1. 1 \in 0 .. RingSize
  BY SizeIs
<1> QED BY <1>1, IndexWraps DEF Next1

\* The entry before the tail.
LEMMA LastWraps ==
  ASSUME NEW h \in Indices, NEW t \in Indices
  PROVE  /\ (t + RingSize - 1) % RingSize = Wrap(t + RingSize - 1)
         /\ Wrap(t + RingSize - 1) \in Indices
         /\ (t - h + RingSize) % RingSize = Wrap(t - h + RingSize)
<1>1. t + RingSize - 1 \in 0 .. 2 * RingSize - 1 /\ t - h + RingSize \in 0 .. 2 * RingSize - 1
  BY SizeIs DEF Indices
<1> QED BY <1>1, SizeIs, WrapIsMod DEF Wrap, Indices

\* An event written at the tail is the last of the queue.
LEMMA AppendHolds ==
  ASSUME NEW e \in [Indices -> RingEvents], NEW h \in Indices, NEW t \in Indices,
         NEW q \in Seq(RingEvents), NEW x \in RingEvents, Queued(e, h, t, q)
  PROVE  LET h2 == IF Next1(t) = h THEN Next1(h) ELSE h
             q2 == Append(IF Len(q) = RingSize - 1 THEN Tail(q) ELSE q, x)
         IN h2 \in Indices /\ q2 \in Seq(RingEvents) /\ Queued([e EXCEPT ![t] = x], h2, Next1(t), q2)
<1> DEFINE e2 == [e EXCEPT ![t] = x]
           h2 == IF Next1(t) = h THEN Next1(h) ELSE h
           q1 == IF Len(q) = RingSize - 1 THEN Tail(q) ELSE q
           q2 == Append(q1, x)
<1>1. Len(q) \in Nat /\ Len(q) < RingSize /\ t = Wrap(h + Len(q))
  BY DEF Queued
<1>2. Next1(t) = Wrap(t + 1) /\ Next1(h) = Wrap(h + 1) /\ Next1(t) \in Indices /\ Next1(h) \in Indices
  BY NextWraps
<1>3. Next1(t) = h <=> Len(q) = RingSize - 1
  BY <1>1, <1>2, SizeIs DEF Wrap, Indices
<1>4. \A i \in 1 .. Len(q) : e[Wrap(h + i - 1)] = q[i]
  BY DEF Queued
<1>5. \A i \in 1 .. Len(q) : Wrap(h + i - 1) \in Indices /\ Wrap(h + i - 1) # t
  BY <1>1, SizeIs DEF Wrap, Indices
<1>6. \A i \in 1 .. Len(q) : e2[Wrap(h + i - 1)] = q[i]
  BY <1>4, <1>5
<1>7. e2[t] = x
  OBVIOUS
<1> HIDE DEF e2
<1>8. CASE Len(q) = RingSize - 1
  <2>1. q # <<>>
    BY <1>8, SizeIs
  <2>2. q1 = Tail(q) /\ q1 \in Seq(RingEvents) /\ Len(q1) = RingSize - 2
    <3>1. q1 = Tail(q)
      BY <1>8
    <3>2. Tail(q) \in Seq(RingEvents) /\ Len(Tail(q)) = Len(q) - 1
      BY <2>1
    <3> QED BY <1>1, <1>8, <3>1, <3>2, SizeIs
  <2>3. \A i \in 1 .. RingSize - 2 : q1[i] = q[i + 1]
    BY <1>8, <2>1, <2>2
  <2>4. q2 \in Seq(RingEvents) /\ Len(q2) = RingSize - 1 /\ q2[RingSize - 1] = x
        /\ \A i \in 1 .. RingSize - 2 : q2[i] = q1[i]
    <3> HIDE DEF q1
    <3> QED BY <2>2, SizeIs
  <2>5. h2 = Wrap(h + 1) /\ h2 \in Indices
    BY <1>2, <1>3, <1>8
  <2> HIDE DEF q1, q2, h2
  <2>6. Next1(t) = Wrap(h2 + Len(q2))
    BY <1>1, <1>2, <1>8, <2>4, <2>5, SizeIs DEF Wrap, Indices
  <2>7. ASSUME NEW i \in 1 .. Len(q2) PROVE e2[Wrap(h2 + i - 1)] = q2[i]
    <3>1. CASE i = RingSize - 1
      <4>1. Wrap(h2 + i - 1) = t
        BY <3>1, <1>1, <1>8, <2>5, SizeIs DEF Wrap, Indices
      <4> QED BY <4>1, <3>1, <1>7, <2>4
    <3>2. CASE i \in 1 .. RingSize - 2
      <4>1. Wrap(h2 + i - 1) = Wrap(h + (i + 1) - 1)
        BY <3>2, <2>5, SizeIs DEF Wrap, Indices
      <4>2. i + 1 \in 1 .. Len(q)
        BY <3>2, <1>8, SizeIs
      <4>3. e2[Wrap(h + (i + 1) - 1)] = q[i + 1]
        BY <4>2, <1>6
      <4> QED BY <4>1, <4>3, <3>2, <2>3, <2>4
    <3> QED BY <3>1, <3>2, <2>4, SizeIs
  <2> QED BY <2>4, <2>5, <2>6, <2>7, SizeIs DEF Queued, e2, h2, q2, q1
<1>9. CASE Len(q) # RingSize - 1
  <2>1. q1 = q /\ h2 = h
    BY <1>9, <1>3
  <2>2. q2 \in Seq(RingEvents) /\ Len(q2) = Len(q) + 1 /\ q2[Len(q) + 1] = x
        /\ \A i \in 1 .. Len(q) : q2[i] = q[i]
    <3> HIDE DEF q1
    <3>1. q1 \in Seq(RingEvents) /\ Len(q1) = Len(q)
      BY <2>1
    <3>2. q2 \in Seq(RingEvents) /\ Len(q2) = Len(q) + 1 /\ q2[Len(q) + 1] = x
          /\ \A i \in 1 .. Len(q) : q2[i] = q1[i]
      BY <3>1
    <3> QED BY <2>1, <3>2
  <2> HIDE DEF q1, q2, h2
  <2>3. Next1(t) = Wrap(h + Len(q2)) /\ Len(q2) < RingSize
    BY <1>1, <1>2, <1>9, <2>2, SizeIs DEF Wrap, Indices
  <2>4. ASSUME NEW i \in 1 .. Len(q2) PROVE e2[Wrap(h + i - 1)] = q2[i]
    <3>1. CASE i = Len(q) + 1
      <4>1. Wrap(h + i - 1) = t
        BY <3>1, <1>1, SizeIs DEF Indices
      <4> QED BY <4>1, <3>1, <1>7, <2>2
    <3>2. CASE i \in 1 .. Len(q)
      BY <3>2, <1>6, <2>2
    <3> QED BY <3>1, <3>2, <2>2, <1>1
  <2> QED BY <2>1, <2>2, <2>3, <2>4 DEF Queued, e2, h2, q2, q1
<1> QED BY <1>8, <1>9

\* An event written over the last one replaces the last of the queue.
LEMMA MergeHolds ==
  ASSUME NEW e \in [Indices -> RingEvents], NEW h \in Indices, NEW t \in Indices,
         NEW q \in Seq(RingEvents), NEW x \in RingEvents, Queued(e, h, t, q), h # t
  PROVE  /\ q # <<>> /\ Len(q) \in Nat \ {0}
         /\ e[Wrap(t + RingSize - 1)] = q[Len(q)]
         /\ [q EXCEPT ![Len(q)] = x] \in Seq(RingEvents)
         /\ Queued([e EXCEPT ![Wrap(t + RingSize - 1)] = x], h, t, [q EXCEPT ![Len(q)] = x])
<1> DEFINE l == Wrap(t + RingSize - 1)
           e2 == [e EXCEPT ![l] = x]
           q2 == [q EXCEPT ![Len(q)] = x]
<1>1. Len(q) \in Nat /\ Len(q) < RingSize /\ t = Wrap(h + Len(q))
  BY DEF Queued
<1>2. Len(q) # 0
  BY <1>1, SizeIs DEF Wrap, Indices
<1>3. l = Wrap(h + Len(q) - 1) /\ l \in Indices
  BY <1>1, <1>2, SizeIs DEF Wrap, Indices
<1>4. \A i \in 1 .. Len(q) : e[Wrap(h + i - 1)] = q[i]
  BY DEF Queued
<1>5. \A i \in 1 .. Len(q) : Wrap(h + i - 1) \in Indices /\ (i # Len(q) => Wrap(h + i - 1) # l)
  BY <1>1, <1>2, <1>3, SizeIs DEF Wrap, Indices
<1> HIDE DEF l
<1>6. q2 \in Seq(RingEvents) /\ Len(q2) = Len(q) /\ q2[Len(q)] = x
      /\ \A i \in 1 .. Len(q) : i # Len(q) => q2[i] = q[i]
  BY <1>1, <1>2
<1>7. \A i \in 1 .. Len(q) : e2[Wrap(h + i - 1)] = q2[i]
  BY <1>3, <1>4, <1>5, <1>6
<1>8. e[l] = q[Len(q)]
  BY <1>1, <1>2, <1>3, <1>4
<1>9. Queued(e2, h, t, q2)
  <2> HIDE DEF e2, q2
  <2> QED BY <1>1, <1>6, <1>7 DEF Queued
<1> QED BY <1>1, <1>2, <1>6, <1>8, <1>9 DEF l

\* A head moved on drops the first of the queue.
LEMMA PopHolds ==
  ASSUME NEW e \in [Indices -> RingEvents], NEW h \in Indices, NEW t \in Indices,
         NEW q \in Seq(RingEvents), Queued(e, h, t, q), h # t
  PROVE  q # <<>> /\ Tail(q) \in Seq(RingEvents) /\ Queued(e, Next1(h), t, Tail(q))
<1>1. Len(q) \in Nat /\ Len(q) < RingSize /\ t = Wrap(h + Len(q))
  BY DEF Queued
<1>2. Len(q) # 0
  BY <1>1, SizeIs DEF Wrap, Indices
<1> DEFINE q2 == Tail(q)
<1>3. q # <<>> /\ q2 \in Seq(RingEvents) /\ Len(q2) = Len(q) - 1
      /\ \A i \in 1 .. Len(q) - 1 : q2[i] = q[i + 1]
  BY <1>2
<1>4. Next1(h) = Wrap(h + 1)
  BY NextWraps
<1> HIDE DEF q2
<1>5. t = Wrap(Next1(h) + Len(q2))
  BY <1>1, <1>2, <1>3, <1>4, SizeIs DEF Wrap, Indices
<1>6. ASSUME NEW i \in 1 .. Len(q2) PROVE e[Wrap(Next1(h) + i - 1)] = q2[i]
  <2>1. i + 1 \in 1 .. Len(q) /\ i \in 1 .. Len(q) - 1
    BY <1>1, <1>2, <1>3
  <2>2. e[Wrap(h + (i + 1) - 1)] = q[i + 1]
    BY <2>1 DEF Queued
  <2>3. Wrap(Next1(h) + i - 1) = Wrap(h + (i + 1) - 1)
    BY <1>1, <2>1, <1>4, SizeIs DEF Wrap, Indices
  <2> QED BY <2>1, <2>2, <2>3, <1>3
<1>7. Len(q2) < RingSize
  BY <1>1, <1>3, SizeIs
<1> QED BY <1>3, <1>5, <1>6, <1>7 DEF Queued, q2

\* The desktop pushes, merges or evicts: ring and queue stay the same.
LEMMA LoopWritesStep ==
  ASSUME RingInv, LoopWrites
  PROVE  RingInv'
<1> USE DEF RingInv
<1>1. pushing # NotPushing /\ pushing' = NotPushing
  BY DEF LoopWrites, NotPushing
<1>2. PICK x \in RingEvents : x = pushing.event
  BY <1>1 DEF RingTyped
<1>3. pushing.head = head /\ pushing.tail = tail /\ pushing.merges = Merges(head, tail, x)
  BY <1>1, <1>2 DEF ReadIsCurrent
<1>4. WithEvent(head, tail, x, Merges(head, tail, x)) /\ queue' = Pushed(queue, x)
  BY <1>2, <1>3 DEF LoopWrites
<1>5. evq \in [Indices -> RingEvents] /\ queue \in Seq(RingEvents) /\ head \in Indices /\ tail \in Indices
  BY DEF RingTyped
<1> DEFINE l == (tail + RingSize - 1) % RingSize
<1>6. l = Wrap(tail + RingSize - 1) /\ l \in Indices
  BY <1>5, LastWraps
<1>7. head # tail => queue # <<>> /\ evq[l] = queue[Len(queue)]
  BY <1>5, <1>6, MergeHolds
<1>8. head = tail => queue = <<>>
  <2> SUFFICES ASSUME head = tail PROVE Len(queue) = 0
    BY <1>5
  <2> QED BY <1>5, SizeIs DEF Queued, Wrap, Indices
<1>9. CASE Merges(head, tail, x)
  <2>1. head # tail /\ x.kind = "mouse" /\ evq[l].kind = "mouse" /\ evq[l].c = x.c
    BY <1>9 DEF Merges
  <2>2. queue' = [queue EXCEPT ![Len(queue)] = x]
    BY <2>1, <1>4, <1>7 DEF Pushed
  <2>3. evq' = [evq EXCEPT ![l] = x] /\ head' = head /\ tail' = tail
    BY <1>4, <1>9 DEF WithEvent
  <2>4. queue' \in Seq(RingEvents) /\ Queued(evq', head', tail', queue')
    BY <1>5, <1>6, <2>1, <2>2, <2>3, MergeHolds
  <2>5. evq' \in [Indices -> RingEvents]
    BY <1>5, <1>6, <2>3
  <2> QED BY <1>1, <1>5, <2>3, <2>4, <2>5 DEF RingTyped, ReadIsCurrent
<1>10. CASE ~Merges(head, tail, x)
  <2>1. ~(queue # <<>> /\ x.kind = "mouse" /\ queue[Len(queue)].kind = "mouse"
          /\ queue[Len(queue)].c = x.c)
    BY <1>7, <1>8, <1>10 DEF Merges
  <2>2. queue' = Append(IF Len(queue) = RingSize - 1 THEN Tail(queue) ELSE queue, x)
    BY <1>4, <2>1 DEF Pushed
  <2>3. evq' = [evq EXCEPT ![tail] = x] /\ tail' = Next1(tail)
        /\ head' = IF Next1(tail) = head THEN Next1(head) ELSE head
    BY <1>4, <1>10 DEF WithEvent
  <2>4. head' \in Indices /\ queue' \in Seq(RingEvents) /\ Queued(evq', head', tail', queue')
    BY <1>5, <2>2, <2>3, AppendHolds
  <2>5. evq' \in [Indices -> RingEvents] /\ tail' \in Indices
    BY <1>5, <2>3, NextWraps
  <2> QED BY <1>1, <2>4, <2>5 DEF RingTyped, ReadIsCurrent
<1> QED BY <1>9, <1>10

\* A program's call reads the queue's first event.
LEMMA CallStep ==
  ASSUME PushesArePreempted = FALSE, RingInv, AppPushes \/ winsrv_pop_event
  PROVE  RingInv'
<1> USE DEF RingInv
<1>1. pushing = NotPushing /\ pushing' = NotPushing
  BY DEF AppPushes, winsrv_pop_event, CallRuns, RingTyped, NotPushing
<1>2. evq \in [Indices -> RingEvents] /\ queue \in Seq(RingEvents) /\ head \in Indices /\ tail \in Indices
  BY DEF RingTyped
<1>3. CASE AppPushes
  <2>1. OtherEvent \in RingEvents /\ OtherEvent.kind # "mouse"
    BY DEF RingEvents, OtherEvent
  <2>2. queue' = Append(IF Len(queue) = RingSize - 1 THEN Tail(queue) ELSE queue, OtherEvent)
    BY <1>3, <2>1 DEF AppPushes, Pushed
  <2>3. evq' = [evq EXCEPT ![tail] = OtherEvent] /\ tail' = Next1(tail)
        /\ head' = IF Next1(tail) = head THEN Next1(head) ELSE head
    BY <1>3 DEF AppPushes, WithEvent
  <2>4. head' \in Indices /\ queue' \in Seq(RingEvents) /\ Queued(evq', head', tail', queue')
    BY <1>2, <2>1, <2>2, <2>3, AppendHolds
  <2>5. evq' \in [Indices -> RingEvents] /\ tail' \in Indices
    BY <1>2, <2>1, <2>3, NextWraps
  <2> QED BY <1>1, <2>4, <2>5 DEF RingTyped, ReadIsCurrent
<1>4. CASE winsrv_pop_event
  <2>1. head # tail /\ head' = Next1(head) /\ evq' = evq /\ tail' = tail
        /\ queue' = IF queue = <<>> THEN queue ELSE Tail(queue)
    BY <1>4 DEF winsrv_pop_event
  <2>2. queue # <<>> /\ Tail(queue) \in Seq(RingEvents) /\ Queued(evq, Next1(head), tail, Tail(queue))
    BY <1>2, <2>1, PopHolds
  <2>3. head' \in Indices
    BY <1>2, <2>1, NextWraps
  <2> QED BY <1>1, <1>2, <2>1, <2>2, <2>3 DEF RingTyped, ReadIsCurrent
<1> QED BY <1>3, <1>4

THEOREM RingIsSafe == PushesArePreempted = FALSE => (RingSpec => []RingSafe)
<1> SUFFICES ASSUME PushesArePreempted = FALSE PROVE RingSpec => []RingSafe
  OBVIOUS
<1>1. RingInit => RingInv
  <2> SUFFICES ASSUME RingInit PROVE RingInv
    OBVIOUS
  <2>1. OtherEvent \in RingEvents
    BY DEF RingEvents
  <2>2. RingTyped /\ ReadIsCurrent
    BY <2>1, SizeIs DEF RingInit, RingTyped, ReadIsCurrent
  <2>3. Queued(evq, head, tail, queue)
    BY SizeIs DEF RingInit, Queued, Wrap
  <2> QED BY <2>2, <2>3 DEF RingInv
<1>2. RingInv /\ [RingNext]_ringVars => RingInv'
  <2> SUFFICES ASSUME RingInv, [RingNext]_ringVars PROVE RingInv'
    OBVIOUS
  <2>1. CASE \E e \in RingEvents : LoopReads(e)
    <3>1. PICK e \in RingEvents : LoopReads(e)
      BY <2>1
    <3>2. Merges(head, tail, e) \in BOOLEAN
      BY DEF Merges
    <3> QED BY <3>1, <3>2 DEF LoopReads, RingInv, RingTyped, ReadIsCurrent, Merges
  <2>2. CASE LoopWrites
    BY <2>2, LoopWritesStep
  <2>3. CASE AppPushes \/ winsrv_pop_event
    BY <2>3, CallStep
  <2>4. CASE UNCHANGED ringVars
    BY <2>4 DEF ringVars, RingInv, RingTyped, ReadIsCurrent, Merges
  <2> QED BY <2>1, <2>2, <2>3, <2>4 DEF RingNext
<1>3. RingInv => RingSafe
  <2> SUFFICES ASSUME RingInv PROVE RingSafe
    OBVIOUS
  <2>1. head \in Indices /\ tail \in Indices /\ queue \in Seq(RingEvents) /\ Len(queue) \in Nat
    BY DEF RingInv, RingTyped
  <2>2. Len(queue) < RingSize /\ tail = Wrap(head + Len(queue))
        /\ \A i \in 1 .. Len(queue) : evq[Wrap(head + i - 1)] = queue[i]
    BY DEF RingInv, Queued
  <2>3. InRing = Len(queue)
    <3>1. InRing = Wrap(tail - head + RingSize)
      BY <2>1, LastWraps DEF InRing
    <3> QED BY <3>1, <2>1, <2>2, SizeIs DEF Wrap, Indices
  <2>4. ASSUME NEW i \in 1 .. Len(queue) PROVE evq[(head + i - 1) % RingSize] = queue[i]
    <3>1. i - 1 \in 0 .. RingSize /\ head + i - 1 = head + (i - 1)
      BY <2>1, <2>2, SizeIs DEF Indices
    <3>2. (head + (i - 1)) % RingSize = Wrap(head + (i - 1))
      BY <2>1, <3>1, IndexWraps
    <3> QED BY <2>2, <3>1, <3>2
  <2> QED BY <2>1, <2>2, <2>3, <2>4 DEF RingSafe, RingTypeOK, RingIsQueue
<1> QED BY <1>1, <1>2, <1>3, PTL DEF RingSpec

-----------------------------------------------------------------------------
(* The windows of programs and the frames that draw them.                  *)

WinRecords == [used : {TRUE}, birth : Nat, gen : Nat, owner : Apps, surface : Surfaces,
               min : BOOLEAN, dirty : BOOLEAN]
LoopPlaces == {"reap", "input", "full", "present", "frame"}
HandleRecords == [app : Apps, slot : WinSlots, gen : Nat, birth : Nat]

WinTyped ==
  /\ win \in [WinSlots -> {NoWindow} \cup WinRecords]
  /\ born \in 0 .. MaxWindow
  /\ stale \in [WinSlots -> BOOLEAN] /\ sceneDirty \in BOOLEAN
  /\ alive \in SUBSET Apps /\ handles \in SUBSET HandleRecords
  /\ loop \in [at : LoopPlaces, slot : Nat, surface : Surfaces \cup {"none"}]

\* Windows and handles carry the generation of their birth, and a handle is
\* its window's owner's.
Born(ws, n) ==
  \A i \in WinSlots : ws[i].used => ws[i].birth < n /\ ws[i].gen = ws[i].birth + 1
Handed(hs, n) == \A h \in hs : h.birth < n /\ h.gen = h.birth + 1
Theirs(ws, hs) ==
  \A i \in WinSlots, h \in hs :
    ws[i].used /\ ws[i].birth = h.birth => ws[i].owner = h.app
OwnSurfaces(ws) ==
  \A i, j \in WinSlots : ws[i].used /\ ws[j].used /\ ws[i].surface = ws[j].surface => i = j

\* A frame has drawn the slots it has passed, and will draw the others.
Drawn ==
  /\ loop.surface # "none" =>
       /\ loop.at = "frame" /\ loop.slot \in WinSlots
       /\ win[loop.slot].used /\ win[loop.slot].surface = loop.surface
       /\ ~stale[loop.slot]
  /\ loop.at = "frame" =>
       /\ loop.slot \in 1 .. Cardinality(WinSlots) + 1
       /\ \A i \in WinSlots : stale[i] => loop.slot <= i /\ win[i].used

\* Between frames what differs from the screen is marked.
Marked(ws, st, scene) == \A i \in WinSlots : st[i] => scene \/ (ws[i].used /\ ws[i].dirty)
Announced ==
  ~ClippedFrames /\ loop.at \in {"reap", "input", "present"} => Marked(win, stale, sceneDirty)

WinInv == /\ WinTyped /\ Born(win, born) /\ Handed(handles, born) /\ Theirs(win, handles)
          /\ OwnSurfaces(win) /\ Drawn /\ Announced

EnoughMemory == IsFiniteSet(Surfaces) /\ Cardinality(Surfaces) > Cardinality(WinSlots)

\* The slots are the numbers from one on.
LEMMA SlotsAre ==
  /\ Cardinality(WinSlots) \in Nat /\ WinSlots = 1 .. Cardinality(WinSlots)
  /\ WinSlots \subseteq Nat /\ NoSlot \notin WinSlots
<1>1. Cardinality(WinSlots) \in Nat
  BY WinAssumption, FS_CardinalityType
<1> QED BY <1>1, WinAssumption DEF NoSlot

\* The free slot that is taken is free.
LEMMA LowestIs ==
  ASSUME NEW S \in SUBSET WinSlots, S # {}
  PROVE  LowestWindow(S) \in S
<1>1. S \in SUBSET Nat
  BY SlotsAre
<1>2. \E n \in S : \A m \in S : n <= m
  BY <1>1, LeastExists
<1> QED BY <1>2 DEF LowestWindow

\* A window in use has a window's fields.
LEMMA WindowIs ==
  ASSUME NEW w \in {NoWindow} \cup WinRecords
  PROVE  w.used \in BOOLEAN /\ (w.used => w \in WinRecords) /\ ~NoWindow.used
<1>1. ~NoWindow.used /\ NoWindow.used \in BOOLEAN
  BY DEF NoWindow
<1>2. w \in WinRecords => w.used \in BOOLEAN
  BY DEF WinRecords
<1>3. w = NoWindow \/ w \in WinRecords
  OBVIOUS
<1>4. CASE w = NoWindow
  BY <1>1, <1>4
<1>5. CASE w \in WinRecords
  BY <1>1, <1>2, <1>5
<1> QED BY <1>3, <1>4, <1>5

\* With more blocks than slots there is one for the next window.
LEMMA MemoryIsLeft ==
  ASSUME WinInv, EnoughMemory
  PROVE  FreeSurfaces # {}
<1> SUFFICES ASSUME FreeSurfaces = {} PROVE FALSE
  OBVIOUS
<1> DEFINE Holder(s) == CHOOSE i \in WinSlots : win[i].used /\ win[i].surface = s
           f == [s \in Surfaces |-> Holder(s)]
<1>1. \A s \in Surfaces : \E i \in WinSlots : win[i].used /\ win[i].surface = s
  BY DEF FreeSurfaces, WindowUsed
<1>2. \A s \in Surfaces : Holder(s) \in WinSlots /\ win[Holder(s)].surface = s
  BY <1>1
<1>3. f \in [Surfaces -> WinSlots] /\ \A s \in Surfaces : f[s] = Holder(s)
  BY <1>2
<1> HIDE DEF f
<1>4. IsFiniteSet(WinSlots) /\ IsFiniteSet(Surfaces) /\ Cardinality(WinSlots) < Cardinality(Surfaces)
  BY WinAssumption, SlotsAre, FS_CardinalityType DEF EnoughMemory
<1>5. \E x, y \in Surfaces : x # y /\ f[x] = f[y]
  BY <1>3, <1>4, FS_PigeonHole
<1>6. PICK x, y \in Surfaces : x # y /\ Holder(x) = Holder(y)
  BY <1>3, <1>5
<1> QED BY <1>2, <1>6

\* No window and no handle at the start.
LEMMA WinInitial == WinInit => WinInv
<1> SUFFICES ASSUME WinInit PROVE WinInv
  OBVIOUS
<1>1. win \in [WinSlots -> {NoWindow}] /\ \A i \in WinSlots : ~win[i].used
  BY DEF WinInit, NoWindow
<1>2. loop.surface = "none" /\ loop.at = "reap"
      /\ loop \in [at : LoopPlaces, slot : Nat, surface : Surfaces \cup {"none"}]
  BY DEF WinInit, LoopPlaces, NoSlot
<1>3. \A i \in WinSlots : ~stale[i]
  BY DEF WinInit
<1>4. WinTyped
  <2>1. born \in 0 .. MaxWindow /\ sceneDirty \in BOOLEAN /\ stale \in [WinSlots -> BOOLEAN]
    <3>1. born = 0 /\ sceneDirty = FALSE /\ stale = [i \in WinSlots |-> FALSE]
      BY DEF WinInit
    <3>2. 0 \in 0 .. MaxWindow
      BY WinAssumption
    <3> QED BY <3>1, <3>2
  <2>2. alive \in SUBSET Apps /\ handles \in SUBSET HandleRecords
    BY DEF WinInit
  <2>3. win \in [WinSlots -> {NoWindow} \cup WinRecords]
    BY <1>1
  <2> QED BY <1>2, <2>1, <2>2, <2>3 DEF WinTyped
<1>5. Born(win, born) /\ Handed(handles, born) /\ Theirs(win, handles) /\ OwnSurfaces(win)
  BY <1>1 DEF WinInit, Born, Handed, Theirs, OwnSurfaces
<1> QED BY <1>2, <1>3, <1>4, <1>5 DEF WinInv, Drawn, Announced, Marked

(***************************************************************************)
(* The service.                                                            *)
(***************************************************************************)
\* Window i becomes w: closed, or the same window with its block or a free one.
Succeeds(i, w) ==
  /\ w \in {NoWindow} \cup WinRecords
  /\ w.used => /\ win[i].used
               /\ w.birth = win[i].birth /\ w.gen = win[i].gen /\ w.owner = win[i].owner
               /\ w.surface \in {win[i].surface} \cup FreeSurfaces

\* A call that changes one window, keeping its birth and its owner.
LEMMA CallKeeps ==
  ASSUME WinInv, loop.at # "frame", NEW i \in WinSlots, NEW w, Succeeds(i, w),
         win' = [win EXCEPT ![i] = w], stale' = [stale EXCEPT ![i] = TRUE],
         born' = born, handles' = handles, alive' = alive, loop' = loop,
         \/ sceneDirty' = TRUE
         \/ sceneDirty' = sceneDirty /\ w.used /\ w.dirty
  PROVE  WinInv'
<1> USE DEF WinInv
<1>1. WinTyped'
  BY DEF WinTyped, Succeeds
<1>2. /\ \A j \in WinSlots : win'[j] = IF j = i THEN w ELSE win[j]
      /\ \A j \in WinSlots : stale'[j] => stale[j] \/ j = i
  BY DEF WinTyped
<1>3. Born(win', born')
  BY <1>2 DEF Born, Succeeds
<1>4. Theirs(win', handles')
  BY <1>2 DEF Theirs, Succeeds
<1>5. OwnSurfaces(win')
  <2> SUFFICES ASSUME NEW j \in WinSlots, NEW k \in WinSlots, win'[j].used, win'[k].used,
                      win'[j].surface = win'[k].surface
               PROVE  j = k
    BY DEF OwnSurfaces
  <2>1. \A m \in WinSlots : m # i /\ win[m].used /\ w.used => w.surface # win[m].surface
    BY DEF Succeeds, OwnSurfaces, FreeSurfaces, WindowUsed
  <2> QED BY <2>1, <1>2 DEF OwnSurfaces
<1>6. Drawn'
  BY DEF Drawn
<1>7. Announced'
  <2> SUFFICES ASSUME ~ClippedFrames, loop.at \in {"reap", "input", "present"},
                      NEW j \in WinSlots, stale'[j]
               PROVE  sceneDirty' \/ (win'[j].used /\ win'[j].dirty)
    BY DEF Announced, Marked
  <2>1. CASE j = i
    BY <2>1, <1>2
  <2>2. CASE j # i
    BY <2>2, <1>2 DEF Announced, Marked
  <2> QED BY <2>1, <2>2
<1> QED BY <1>1, <1>3, <1>4, <1>5, <1>6, <1>7 DEF Handed

\* The window a handle names is the caller's, of the birth the handle was
\* made for.
LEMMA TargetIs ==
  ASSUME WinInv, NEW t, NEW i \in Target(t)
  PROVE  i \in WinSlots /\ win[i].used
<1>1. CASE i = winsrv_for_task(t)
  <2>1. OwnedBy(t) # {} /\ OwnedBy(t) \in SUBSET WinSlots
    BY <1>1 DEF Target, winsrv_for_task, OwnedBy
  <2>2. i \in OwnedBy(t)
    BY <1>1, <2>1, LowestIs DEF winsrv_for_task
  <2> QED BY <2>2 DEF OwnedBy, WindowUsed
<1>2. CASE \E h \in {g \in handles : g.app = t} : i = winsrv_for_handle(t, h)
  <2>1. PICK h \in handles : i = winsrv_for_handle(t, h)
    BY <1>2
  <2>2. h.slot \in WinSlots
    BY <2>1 DEF WinInv, WinTyped, HandleRecords
  <2>3. i # NoSlot
    BY DEF Target
  <2> QED BY <2>1, <2>2, <2>3 DEF winsrv_for_handle, WindowUsed
<1> QED BY <1>1, <1>2 DEF Target

\* Programs' calls on their windows.
LEMMA CallsKeep ==
  ASSUME WinInv, BlitsArePreempted = FALSE, EnoughMemory, NEW t \in Apps,
         gui_service_window_close(t) \/ gui_service_window_draw(t) \/ SET_WINDOW_STATE(t)
         \/ SET_GEOMETRY(t)
  PROVE  WinInv'
<1> USE DEF WinInv
<1>1. loop.at # "frame" /\ alive' = alive /\ loop' = loop
  BY DEF gui_service_window_close, gui_service_window_draw, SET_WINDOW_STATE, SET_GEOMETRY,
         Changes, InCall
<1>2. CASE gui_service_window_close(t)
  <2>1. PICK i \in Target(t) : /\ win' = [win EXCEPT ![i] = NoWindow]
                               /\ stale' = [stale EXCEPT ![i] = TRUE]
    BY <1>2 DEF gui_service_window_close
  <2>2. i \in WinSlots
    BY TargetIs
  <2>3. Succeeds(i, NoWindow)
    BY WindowIs DEF Succeeds, NoWindow
  <2>4. sceneDirty' = TRUE /\ born' = born /\ handles' = handles
    BY <1>2 DEF gui_service_window_close
  <2> QED BY <1>1, <2>1, <2>2, <2>3, <2>4, CallKeeps
<1>3. ASSUME NEW i \in Target(t), NEW w \in WinRecords, Changes(t, i, w), w.dirty,
             w.birth = win[i].birth, w.gen = win[i].gen, w.owner = win[i].owner,
             w.surface \in {win[i].surface} \cup FreeSurfaces
      PROVE  WinInv'
  <2>1. i \in WinSlots /\ win[i].used
    BY TargetIs
  <2>2. w.used
    BY DEF WinRecords
  <2>3. Succeeds(i, w)
    BY <1>3, <2>1 DEF Succeeds
  <2>4. win' = [win EXCEPT ![i] = w] /\ stale' = [stale EXCEPT ![i] = TRUE]
        /\ sceneDirty' = sceneDirty /\ born' = born /\ handles' = handles
    BY <1>3 DEF Changes
  <2> QED BY <1>1, <1>3, <2>1, <2>2, <2>3, <2>4, CallKeeps
<1>4. \A i \in Target(t) : win[i] \in WinRecords
  BY TargetIs, WindowIs DEF WinTyped
<1>5. CASE gui_service_window_draw(t)
  <2>1. PICK i \in Target(t) : Changes(t, i, [win[i] EXCEPT !.dirty = TRUE])
    BY <1>5 DEF gui_service_window_draw
  <2>2. win[i] \in WinRecords
    BY <1>4
  <2> DEFINE w == [win[i] EXCEPT !.dirty = TRUE]
  <2>3. w \in WinRecords /\ w.dirty /\ w.birth = win[i].birth /\ w.gen = win[i].gen
        /\ w.owner = win[i].owner /\ w.surface = win[i].surface
    BY <2>2 DEF WinRecords
  <2>4. Changes(t, i, w)
    BY <2>1
  <2> HIDE DEF w
  <2> QED BY <2>3, <2>4, <1>3
<1>6. CASE SET_WINDOW_STATE(t)
  <2>1. PICK i \in Target(t) : Changes(t, i, [win[i] EXCEPT !.min = ~@, !.dirty = TRUE])
    BY <1>6 DEF SET_WINDOW_STATE
  <2>2. win[i] \in WinRecords
    BY <1>4
  <2> DEFINE w == [win[i] EXCEPT !.min = ~@, !.dirty = TRUE]
  <2>3. w \in WinRecords /\ w.dirty /\ w.birth = win[i].birth /\ w.gen = win[i].gen
        /\ w.owner = win[i].owner /\ w.surface = win[i].surface
    BY <2>2 DEF WinRecords
  <2>4. Changes(t, i, w)
    BY <2>1
  <2> HIDE DEF w
  <2> QED BY <2>3, <2>4, <1>3
<1>7. CASE SET_GEOMETRY(t)
  <2>1. PICK i \in Target(t) : Changes(t, i, Resized(i))
    BY <1>7 DEF SET_GEOMETRY
  <2>2. win[i] \in WinRecords
    BY <1>4
  <2>3. NextSurface \in FreeSurfaces /\ NextSurface \in Surfaces /\ FreeSurfaces # {}
    BY MemoryIsLeft DEF NextSurface, FreeSurfaces
  <2> DEFINE w == [win[i] EXCEPT !.surface = NextSurface, !.dirty = TRUE]
  <2>4. w \in WinRecords /\ w.dirty /\ w.birth = win[i].birth /\ w.gen = win[i].gen
        /\ w.owner = win[i].owner /\ w.surface = NextSurface
    BY <2>2, <2>3 DEF WinRecords
  <2>5. Changes(t, i, w)
    BY <2>1, <2>3 DEF Resized
  <2> HIDE DEF w
  <2> QED BY <2>3, <2>4, <2>5, <1>3
<1> QED BY <1>2, <1>5, <1>6, <1>7

\* No generation is given out twice.
LEMMA GenerationIs ==
  ASSUME MaxWindow <= GenerationMax, NEW n \in Nat, n < MaxWindow
  PROVE  n % GenerationMax = n
<1>1. GenerationMax \in Nat \ {0} /\ MaxWindow \in Nat
  BY WinAssumption
<1> QED BY <1>1

\* A new window takes a free slot, a surface of its own and a new birth.
LEMMA CreateKeeps ==
  ASSUME WinInv, BlitsArePreempted = FALSE, MaxWindow <= GenerationMax, NEW t \in Apps,
         winsrv_create(t) \/ winsrv_create_handle(t)
  PROVE  WinInv'
<1> USE DEF WinInv
<1> DEFINE i == LowestWindow(FreeWinSlots)
           w == NewWindow(t)
           h == [app |-> t, slot |-> i, gen |-> Generation, birth |-> born]
<1>1. winsrv_create_common(t) /\ loop.at # "frame" /\ alive' = alive /\ loop' = loop
  BY DEF winsrv_create, winsrv_create_handle, winsrv_create_common, InCall
<1>2. i \in WinSlots /\ ~win[i].used
  <2>1. FreeWinSlots \in SUBSET WinSlots /\ FreeWinSlots # {}
    BY <1>1 DEF winsrv_create_common, FreeWinSlots
  <2>2. i \in FreeWinSlots
    BY <2>1, LowestIs
  <2> QED BY <2>2 DEF FreeWinSlots, WindowUsed
<1>3. born \in Nat /\ born < MaxWindow /\ born + 1 \in 0 .. MaxWindow
  BY <1>1, WinAssumption DEF winsrv_create_common, WinTyped
<1>4. Generation = born + 1
  BY <1>3, GenerationIs DEF Generation
<1>5. NextSurface \in FreeSurfaces /\ NextSurface \in Surfaces
  BY <1>1 DEF winsrv_create_common, NextSurface, FreeSurfaces
<1>6. /\ w \in WinRecords /\ w.used /\ w.birth = born /\ w.gen = born + 1 /\ w.owner = t
      /\ w.surface = NextSurface /\ w.dirty
  BY <1>3, <1>4, <1>5 DEF NewWindow, WinRecords
<1>7. h \in HandleRecords /\ h.birth = born /\ h.gen = born + 1 /\ h.app = t
  BY <1>2, <1>3, <1>4 DEF HandleRecords
<1>8. handles' = handles \/ handles' = handles \cup {h}
  BY DEF winsrv_create, winsrv_create_handle
<1>9. win' = [win EXCEPT ![i] = w] /\ stale' = [stale EXCEPT ![i] = TRUE] /\ born' = born + 1
      /\ sceneDirty' = sceneDirty
  BY <1>1 DEF winsrv_create_common
<1> HIDE DEF i, w, h
<1>10. WinTyped'
  BY <1>1, <1>3, <1>6, <1>7, <1>8, <1>9 DEF WinTyped
<1>11. /\ \A j \in WinSlots : win'[j] = IF j = i THEN w ELSE win[j]
       /\ \A j \in WinSlots : stale'[j] => stale[j] \/ j = i
  BY <1>9 DEF WinTyped
<1>12. \A j \in WinSlots : win[j].used => win[j].birth \in Nat
  BY WindowIs DEF WinTyped, WinRecords
<1>13. Born(win', born')
  BY <1>3, <1>6, <1>9, <1>11, <1>12 DEF Born
<1>14. Handed(handles', born')
  <2>1. \A g \in handles : g.birth \in Nat
    BY DEF WinTyped, HandleRecords
  <2> QED BY <2>1, <1>3, <1>7, <1>8, <1>9 DEF Handed
<1>15. Theirs(win', handles')
  <2> SUFFICES ASSUME NEW j \in WinSlots, NEW g \in handles', win'[j].used,
                      win'[j].birth = g.birth
               PROVE  win'[j].owner = g.app
    BY DEF Theirs
  <2>1. CASE j = i /\ g = h
    BY <2>1, <1>6, <1>7, <1>11
  <2>2. CASE j = i /\ g # h
    <3>1. g \in handles /\ g.birth < born
      BY <2>2, <1>8 DEF Handed
    <3>2. g.birth = born
      BY <2>2, <1>6, <1>11
    <3> QED BY <3>1, <3>2, <1>3
  <2>3. CASE j # i /\ g = h /\ g \notin handles
    <3>1. win[j].used /\ win[j].birth = born
      BY <2>3, <1>7, <1>11
    <3> QED BY <3>1, <1>3 DEF Born
  <2>4. CASE j # i /\ g \in handles
    BY <2>4, <1>11 DEF Theirs
  <2> QED BY <2>1, <2>2, <2>3, <2>4, <1>8
<1>16. OwnSurfaces(win')
  <2>1. \A m \in WinSlots : win[m].used => w.surface # win[m].surface
    BY <1>5, <1>6 DEF FreeSurfaces, WindowUsed
  <2> QED BY <2>1, <1>11 DEF OwnSurfaces
<1>17. Drawn'
  BY <1>1 DEF Drawn, WinTyped
<1>18. Announced'
  <2> SUFFICES ASSUME ~ClippedFrames, loop.at \in {"reap", "input", "present"},
                      NEW j \in WinSlots, stale'[j]
               PROVE  sceneDirty' \/ (win'[j].used /\ win'[j].dirty)
    BY <1>1 DEF Announced, Marked
  <2>1. CASE j = i
    BY <2>1, <1>6, <1>11
  <2>2. CASE j # i
    BY <2>2, <1>9, <1>11 DEF Announced, Marked
  <2> QED BY <2>1, <2>2
<1> QED BY <1>10, <1>13, <1>14, <1>15, <1>16, <1>17, <1>18

(***************************************************************************)
(* The loop.                                                               *)
(***************************************************************************)
\* Windows go, or count as drawn; the rest of a window stays.
Thinned(ws) ==
  /\ ws \in [WinSlots -> {NoWindow} \cup WinRecords]
  /\ \A i \in WinSlots :
       ws[i].used => /\ win[i].used
                     /\ ws[i].birth = win[i].birth /\ ws[i].gen = win[i].gen
                     /\ ws[i].owner = win[i].owner /\ ws[i].surface = win[i].surface

\* A step of the loop that leaves the windows alone.
LEMMA LoopKeeps ==
  ASSUME WinInv, Thinned(win'), born' = born, handles' = handles
  PROVE  /\ win' \in [WinSlots -> {NoWindow} \cup WinRecords]
         /\ Born(win', born') /\ Handed(handles', born') /\ Theirs(win', handles')
         /\ OwnSurfaces(win')
BY DEF WinInv, Thinned, Born, Handed, Theirs, OwnSurfaces

\* Nothing ends when no window changes.
LEMMA SameThins == ASSUME WinInv, win' = win PROVE Thinned(win')
BY DEF WinInv, WinTyped, Thinned

\* The mark of a window that was drawn is reset.
LEMMA CleanedIs ==
  ASSUME WinInv, NEW i \in WinSlots
  PROVE  /\ Cleaned(i) \in {NoWindow} \cup WinRecords
         /\ Cleaned(i).used = win[i].used
         /\ win[i].used => /\ Cleaned(i).birth = win[i].birth /\ Cleaned(i).gen = win[i].gen
                           /\ Cleaned(i).owner = win[i].owner
                           /\ Cleaned(i).surface = win[i].surface
<1>1. win[i] \in {NoWindow} \cup WinRecords
  BY DEF WinInv, WinTyped
<1>2. CASE win[i].used
  <2>1. win[i] \in WinRecords
    BY <1>1, <1>2, WindowIs
  <2> DEFINE w == [win[i] EXCEPT !.dirty = FALSE]
  <2>2. w \in WinRecords /\ w.used = win[i].used /\ w.birth = win[i].birth /\ w.gen = win[i].gen
        /\ w.owner = win[i].owner /\ w.surface = win[i].surface
    BY <2>1 DEF WinRecords
  <2>3. Cleaned(i) = w
    BY <1>2 DEF Cleaned, WindowUsed
  <2> QED BY <2>2, <2>3
<1>3. CASE ~win[i].used
  BY <1>1, <1>3 DEF Cleaned, WindowUsed
<1> QED BY <1>2, <1>3

\* The windows of a program that died are ended, and their handles stay its
\* own.
LEMMA ReapKeeps == ASSUME WinInv, winsrv_reap_dead PROVE WinInv'
<1> USE DEF WinInv
<1>1. /\ loop.at = "reap" /\ loop' = [at |-> "input", slot |-> NoSlot, surface |-> "none"]
      /\ win' = [i \in WinSlots |-> IF IsDead(i) THEN NoWindow ELSE win[i]]
      /\ stale' = [i \in WinSlots |-> stale[i] \/ IsDead(i)]
      /\ sceneDirty' = (sceneDirty \/ \E i \in WinSlots : IsDead(i))
      /\ born' = born /\ alive' = alive /\ handles' = handles
  BY DEF winsrv_reap_dead, At, Goto
<1>2. \A i \in WinSlots : IsDead(i) \in BOOLEAN
  BY DEF IsDead
<1>3. ~NoWindow.used
  BY DEF NoWindow
<1>4. Thinned(win')
  BY <1>1, <1>3 DEF Thinned, WinTyped
<1>5. WinTyped'
  <2>1. stale' \in [WinSlots -> BOOLEAN] /\ sceneDirty' \in BOOLEAN
    BY <1>1, <1>2 DEF WinTyped
  <2>2. loop' \in [at : LoopPlaces, slot : Nat, surface : Surfaces \cup {"none"}]
    BY <1>1 DEF LoopPlaces, NoSlot
  <2> QED BY <2>1, <2>2, <1>1, <1>4 DEF WinTyped, Thinned
<1>6. Drawn'
  BY <1>1 DEF Drawn
<1>7. Announced'
  <2> SUFFICES ASSUME ~ClippedFrames, NEW j \in WinSlots, stale'[j]
               PROVE  sceneDirty' \/ (win'[j].used /\ win'[j].dirty)
    BY DEF Announced, Marked
  <2>1. CASE IsDead(j)
    BY <2>1, <1>1
  <2>2. CASE ~IsDead(j)
    BY <2>2, <1>1 DEF Announced, Marked
  <2> QED BY <2>1, <2>2
<1> QED BY <1>1, <1>4, <1>5, <1>6, <1>7, LoopKeeps

\* A clipped frame draws nothing.
LEMMA ClippedKeeps == ASSUME WinInv, ClippedFrame PROVE WinInv'
<1> USE DEF WinInv
<1>1. /\ loop.at = "input" /\ loop' = [at |-> "present", slot |-> NoSlot, surface |-> "none"]
      /\ win' = [i \in WinSlots |-> Cleaned(i)] /\ ClippedFrames
      /\ born' = born /\ alive' = alive /\ handles' = handles /\ stale' = stale
      /\ sceneDirty' = sceneDirty
  BY DEF ClippedFrame, At, Goto
<1>2. Thinned(win')
  BY <1>1, CleanedIs DEF Thinned
<1>3. loop' \in [at : LoopPlaces, slot : Nat, surface : Surfaces \cup {"none"}]
  BY <1>1 DEF LoopPlaces, NoSlot
<1>4. WinTyped' /\ Drawn' /\ Announced'
  BY <1>1, <1>2, <1>3 DEF WinTyped, Thinned, Drawn, Announced
<1> QED BY <1>1, <1>2, <1>4, LoopKeeps

\* What the loop decides before a frame.
LEMMA TurnKeeps ==
  ASSUME WinInv, InputRedraws \/ NoInput \/ winsrv_has_dirty
  PROVE  WinInv'
<1> USE DEF WinInv
<1>1. win' = win /\ born' = born /\ alive' = alive /\ handles' = handles /\ stale' = stale
  BY DEF InputRedraws, NoInput, winsrv_has_dirty
<1>2. Thinned(win')
  BY <1>1, SameThins
<1>3. PICK p \in {"full", "present", "reap"} :
        /\ loop' = [at |-> p, slot |-> NoSlot, surface |-> "none"]
        /\ \/ p = "full" /\ sceneDirty' \in BOOLEAN
           \/ p = "present" /\ sceneDirty' = sceneDirty /\ loop.at = "input"
           \/ p = "reap" /\ sceneDirty' = FALSE /\ loop.at = "present" /\ ~HasDirty
  <2>1. CASE InputRedraws
    BY <2>1 DEF InputRedraws, Goto, At, WinTyped
  <2>2. CASE NoInput
    BY <2>2 DEF NoInput, Goto, At
  <2>3. CASE winsrv_has_dirty
    BY <2>3 DEF winsrv_has_dirty, Goto, At
  <2> QED BY <2>1, <2>2, <2>3
<1>4. loop' \in [at : LoopPlaces, slot : Nat, surface : Surfaces \cup {"none"}]
  BY <1>3 DEF LoopPlaces, NoSlot
<1>5. WinTyped'
  BY <1>1, <1>3, <1>4 DEF WinTyped
<1>6. Drawn'
  BY <1>3 DEF Drawn
<1>7. Announced'
  <2> SUFFICES ASSUME ~ClippedFrames, loop'.at \in {"reap", "input", "present"},
                      NEW j \in WinSlots, stale[j]
               PROVE  sceneDirty' \/ (win[j].used /\ win[j].dirty)
    BY <1>1 DEF Announced, Marked
  <2>1. loop'.at = p
    BY <1>3
  <2>2. CASE p = "present"
    BY <1>3, <2>2 DEF Announced, Marked
  <2>3. CASE p = "reap"
    <3>1. sceneDirty \/ (win[j].used /\ win[j].dirty)
      BY <1>3, <2>3 DEF Announced, Marked
    <3>2. ~HasDirty
      BY <1>3, <2>3
    <3> QED BY <3>1, <3>2 DEF HasDirty, WindowUsed
  <2> QED BY <2>1, <2>2, <2>3
<1> QED BY <1>1, <1>2, <1>5, <1>6, <1>7, LoopKeeps

\* A frame draws the slots in order.
LEMMA FrameKeeps ==
  ASSUME WinInv, draw_gui_frame \/ BlitStarts \/ BlitEnds \/ FrameEnds
  PROVE  WinInv'
<1> USE DEF WinInv
<1>1. born' = born /\ alive' = alive /\ handles' = handles /\ sceneDirty' = sceneDirty
  BY DEF draw_gui_frame, BlitStarts, BlitEnds, FrameEnds
<1>2. loop.slot \in Nat /\ stale \in [WinSlots -> BOOLEAN]
      /\ loop \in [at : LoopPlaces, slot : Nat, surface : Surfaces \cup {"none"}]
  BY DEF WinTyped
<1>3. CASE draw_gui_frame
  <2>1. /\ loop' = [at |-> "frame", slot |-> 1, surface |-> "none"] /\ win' = win
        /\ stale' = [i \in WinSlots |-> stale[i] /\ WindowUsed(i)]
    BY <1>3 DEF draw_gui_frame
  <2>2. loop' \in [at : LoopPlaces, slot : Nat, surface : Surfaces \cup {"none"}]
    BY <2>1 DEF LoopPlaces
  <2>3. \A i \in WinSlots : WindowUsed(i) \in BOOLEAN
    BY WindowIs DEF WindowUsed, WinTyped
  <2>4. WinTyped'
    BY <1>1, <1>2, <2>1, <2>2, <2>3 DEF WinTyped
  <2>5. Drawn'
    <3>1. loop'.at = "frame" /\ loop'.slot = 1 /\ loop'.surface = "none"
      BY <2>1
    <3>2. 1 \in 1 .. Cardinality(WinSlots) + 1 /\ \A i \in WinSlots : 1 <= i
      BY SlotsAre
    <3>3. \A i \in WinSlots : stale'[i] => win[i].used
      BY <2>1 DEF WindowUsed
    <3> QED BY <2>1, <3>1, <3>2, <3>3 DEF Drawn
  <2>6. Announced'
    BY <2>1 DEF Announced
  <2> QED BY <1>1, <2>1, <2>4, <2>5, <2>6, SameThins, LoopKeeps
<1>4. CASE BlitStarts
  <2>1. loop.at = "frame" /\ loop.slot \in WinSlots /\ loop.surface = "none" /\ win' = win
        /\ loop.slot + 1 \in 1 .. Cardinality(WinSlots) + 1 /\ loop.slot + 1 \in Nat
    BY <1>4, SlotsAre DEF BlitStarts, At
  <2>2. CASE ~WindowUsed(loop.slot)
    <3>1. loop' = [loop EXCEPT !.slot = @ + 1] /\ stale' = stale
      BY <1>4, <2>2 DEF BlitStarts
    <3>2. loop' \in [at : LoopPlaces, slot : Nat, surface : Surfaces \cup {"none"}]
          /\ loop'.at = "frame" /\ loop'.slot = loop.slot + 1 /\ loop'.surface = "none"
      BY <3>1, <1>2, <2>1
    <3>3. Drawn'
      <4> SUFFICES ASSUME NEW i \in WinSlots, stale[i]
                   PROVE  loop.slot + 1 <= i /\ win[i].used
        BY <2>1, <3>1, <3>2 DEF Drawn
      <4>1. loop.slot <= i /\ win[i].used
        BY <2>1 DEF Drawn
      <4> QED BY <4>1, <2>1, <2>2, SlotsAre DEF WindowUsed
    <3>4. WinTyped' /\ Announced'
      BY <1>1, <2>1, <3>1, <3>2 DEF WinTyped, Announced
    <3> QED BY <1>1, <2>1, <3>3, <3>4, SameThins, LoopKeeps
  <2>3. CASE WindowUsed(loop.slot)
    <3>1. loop' = [loop EXCEPT !.surface = win[loop.slot].surface]
          /\ stale' = [stale EXCEPT ![loop.slot] = FALSE]
      BY <1>4, <2>3 DEF BlitStarts
    <3>2. win[loop.slot].used /\ win[loop.slot].surface \in Surfaces
      BY <2>1, <2>3, WindowIs DEF WindowUsed, WinTyped, WinRecords
    <3>3. loop' \in [at : LoopPlaces, slot : Nat, surface : Surfaces \cup {"none"}]
          /\ loop'.at = "frame" /\ loop'.slot = loop.slot /\ loop'.surface = win[loop.slot].surface
      BY <3>1, <3>2, <1>2, <2>1
    <3>4. stale' \in [WinSlots -> BOOLEAN] /\ ~stale'[loop.slot]
          /\ \A i \in WinSlots : stale'[i] => stale[i]
      BY <3>1, <1>2, <2>1
    <3>5. Drawn'
      BY <2>1, <3>2, <3>3, <3>4 DEF Drawn
    <3>6. WinTyped' /\ Announced'
      BY <1>1, <2>1, <3>3, <3>4 DEF WinTyped, Announced
    <3> QED BY <1>1, <2>1, <3>5, <3>6, SameThins, LoopKeeps
  <2> QED BY <2>2, <2>3
<1>5. CASE BlitEnds
  <2>1. /\ loop.at = "frame" /\ loop.surface # "none" /\ stale' = stale
        /\ win' = [win EXCEPT ![loop.slot] = Cleaned(loop.slot)]
        /\ loop' = [loop EXCEPT !.slot = @ + 1, !.surface = "none"]
    BY <1>5 DEF BlitEnds, At
  <2>2. loop.slot \in WinSlots /\ win[loop.slot].used /\ ~stale[loop.slot]
        /\ loop.slot + 1 \in 1 .. Cardinality(WinSlots) + 1
    BY <2>1, SlotsAre DEF Drawn
  <2>3. \A i \in WinSlots : win'[i] = IF i = loop.slot THEN Cleaned(i) ELSE win[i]
    BY <2>1 DEF WinTyped
  <2>4. Thinned(win')
    <3>1. win' \in [WinSlots -> {NoWindow} \cup WinRecords]
      BY <2>1, <2>2, CleanedIs DEF WinTyped
    <3> QED BY <3>1, <2>2, <2>3, CleanedIs DEF Thinned
  <2>5. loop' \in [at : LoopPlaces, slot : Nat, surface : Surfaces \cup {"none"}]
        /\ loop'.at = "frame" /\ loop'.slot = loop.slot + 1 /\ loop'.surface = "none"
    <3>1. loop.slot + 1 \in Nat
      BY <1>2
    <3> DEFINE n == loop.slot + 1
    <3>2. loop' = [loop EXCEPT !.slot = n, !.surface = "none"] /\ n \in Nat
      BY <2>1, <3>1
    <3> HIDE DEF n
    <3>3. loop' \in [at : LoopPlaces, slot : Nat, surface : Surfaces \cup {"none"}]
          /\ loop'.at = loop.at /\ loop'.slot = n /\ loop'.surface = "none"
      BY <3>2, <1>2
    <3> QED BY <2>1, <3>3 DEF n
  <2>6. Drawn'
    <3> SUFFICES ASSUME NEW i \in WinSlots, stale[i]
                 PROVE  loop.slot + 1 <= i /\ win'[i].used
      BY <2>1, <2>2, <2>5 DEF Drawn
    <3>1. loop.slot <= i /\ win[i].used /\ i # loop.slot
      BY <2>1, <2>2 DEF Drawn
    <3> QED BY <3>1, <2>2, <2>3, SlotsAre
  <2>7. WinTyped' /\ Announced'
    BY <1>1, <2>1, <2>4, <2>5 DEF WinTyped, Thinned, Announced
  <2> QED BY <1>1, <2>4, <2>6, <2>7, LoopKeeps
<1>6. CASE FrameEnds
  <2>1. /\ loop.at = "frame" /\ loop.slot \notin WinSlots /\ win' = win /\ stale' = stale
        /\ loop' = [at |-> "reap", slot |-> NoSlot, surface |-> "none"]
    BY <1>6 DEF FrameEnds, At, Goto
  <2>2. \A i \in WinSlots : ~stale[i]
    BY <2>1, SlotsAre DEF Drawn
  <2>3. loop' \in [at : LoopPlaces, slot : Nat, surface : Surfaces \cup {"none"}]
    BY <2>1 DEF LoopPlaces, NoSlot
  <2>4. WinTyped' /\ Drawn' /\ Announced'
    BY <1>1, <2>1, <2>2, <2>3 DEF WinTyped, Drawn, Announced, Marked
  <2> QED BY <1>1, <2>1, <2>4, SameThins, LoopKeeps
<1> QED BY <1>3, <1>4, <1>5, <1>6

\* Every step keeps the invariant of the windows.
LEMMA WinNextKeeps ==
  ASSUME BlitsArePreempted = FALSE, EnoughMemory, MaxWindow <= GenerationMax,
         WinInv, [WinNext]_winVars
  PROVE  WinInv'
<1>1. CASE \E t \in Apps : AppExit(t)
  <2>1. alive' \in SUBSET Apps
    BY <1>1 DEF AppExit, WinInv, WinTyped
  <2> QED BY <1>1, <2>1 DEF AppExit, WinInv, WinTyped, Born, Handed, Theirs, OwnSurfaces, Drawn,
                            Announced, Marked
<1>2. CASE \E t \in Apps : winsrv_create(t) \/ winsrv_create_handle(t)
  BY <1>2, CreateKeeps
<1>3. CASE \E t \in Apps : gui_service_window_close(t) \/ gui_service_window_draw(t)
                           \/ SET_WINDOW_STATE(t) \/ SET_GEOMETRY(t)
  BY <1>3, CallsKeep
<1>4. CASE GuiLoop
  BY <1>4, ReapKeeps, ClippedKeeps, TurnKeeps, FrameKeeps DEF GuiLoop
<1>5. CASE UNCHANGED winVars
  BY <1>5 DEF winVars, WinInv, WinTyped, Born, Handed, Theirs, OwnSurfaces, Drawn, Announced,
              Marked
<1> QED BY <1>1, <1>2, <1>3, <1>4, <1>5 DEF WinNext, AppCall

THEOREM WindowsAreSafe ==
  BlitsArePreempted = FALSE /\ EnoughMemory /\ MaxWindow <= GenerationMax =>
    (WinSpec => []WindowsSafe)
<1> SUFFICES ASSUME BlitsArePreempted = FALSE, EnoughMemory, MaxWindow <= GenerationMax
             PROVE  WinSpec => []WindowsSafe
  OBVIOUS
<1>1. WinInit => WinInv
  BY WinInitial
<1>2. WinInv /\ [WinNext]_winVars => WinInv'
  BY WinNextKeeps
<1>3. WinInv => WindowsSafe
  <2> SUFFICES ASSUME WinInv PROVE WindowsSafe
    OBVIOUS
  <2> USE DEF WinInv
  <2>1. WinTypeOK
    BY WindowIs DEF WinTypeOK, WindowUsed, WinTyped, WinRecords
  <2>2. SurfacesAreOwn
    BY DEF SurfacesAreOwn, OwnSurfaces, WindowUsed
  <2>3. HandlesNameOneWindow
    <3> SUFFICES ASSUME NEW h \in handles, NEW t \in Apps, winsrv_for_handle(t, h) # NoSlot
                 PROVE  t = h.app /\ win[h.slot].birth = h.birth
      BY DEF HandlesNameOneWindow
    <3>1. win[h.slot].used /\ win[h.slot].owner = t /\ win[h.slot].gen = h.gen
      BY DEF winsrv_for_handle, WindowUsed
    <3>2. h.slot \in WinSlots /\ h.birth \in Nat /\ h.gen = h.birth + 1
      BY DEF WinTyped, HandleRecords, Handed
    <3>3. win[h.slot].birth \in Nat /\ win[h.slot].gen = win[h.slot].birth + 1
      BY <3>1, <3>2, WindowIs DEF WinTyped, WinRecords, Born
    <3>4. win[h.slot].birth = h.birth
      BY <3>1, <3>2, <3>3
    <3> QED BY <3>1, <3>2, <3>4 DEF Theirs
  <2>4. ClippedFrames \/ ScreenIsCurrent
    BY DEF ScreenIsCurrent, At, Announced, Marked, WindowUsed
  <2>5. BlitsOwnSurface
    BY DEF BlitsOwnSurface, Drawn, WindowUsed
  <2> QED BY <2>1, <2>2, <2>3, <2>4, <2>5 DEF WindowsSafe
<1> QED BY <1>1, <1>2, <1>3, PTL DEF WinSpec

-----------------------------------------------------------------------------
(* The windows of the desktop itself.                                      *)

States == {"normal", "minimized", "maximized"}
Sizes == {"default", "own", "full"}
WmWindows == [unique : BOOLEAN, state : States, size : Sizes, prev : Sizes]
Counts == 0 .. WindowMax
WmRecords == [count : Counts, win : [Slots -> WmWindows], order : Seq(Nat), active : Counts]

Permutes(s, k) ==
  /\ s \in Seq(Nat) /\ Len(s) = k
  /\ \A n \in 1 .. k : s[n] \in 1 .. k
  /\ \A m, n \in 1 .. k : s[m] = s[n] => m = n
  /\ \A i \in 1 .. k : \E n \in 1 .. k : s[n] = i

Topmost(w) == w.active # NoIndex => w.active \in Visible(w) /\ w.order[w.count] = w.active
\* A key that maximises the window being resized spoils this.
Full(w) ==
  ~KeysInGestures =>
    \A i \in Indexes(w) : w.win[i].state = "maximized" => w.win[i].size = "full"

Ordered(w) == w \in WmRecords /\ Permutes(w.order, w.count) /\ Full(w)
Good(w) == Ordered(w) /\ Topmost(w)

\* Nothing that is not maximised in w becomes so in v, and the windows stay.
Keeps(w, v) ==
  /\ v.count = w.count
  /\ \A i \in Indexes(w) : w.win[i].state # "maximized" => v.win[i].state # "maximized"

\* Where the m-th element of a sequence without its n-th was.
From(m, n) == IF m < n THEN m ELSE m + 1

\* The places of a sequence without its n-th element, one for one.
LEMMA FromIs ==
  ASSUME NEW k \in Nat, NEW n \in 1 .. k
  PROVE  /\ \A m \in 1 .. k - 1 : From(m, n) \in 1 .. k /\ From(m, n) # n
         /\ \A a, b \in 1 .. k - 1 : From(a, n) = From(b, n) => a = b
         /\ \A m \in 1 .. k : m # n => \E a \in 1 .. k - 1 : From(a, n) = m
<1>1. \A m \in 1 .. k - 1 : From(m, n) \in 1 .. k /\ From(m, n) # n
  BY DEF From
<1>2. \A a, b \in 1 .. k - 1 : From(a, n) = From(b, n) => a = b
  BY DEF From
<1>3. ASSUME NEW m \in 1 .. k, m # n PROVE \E a \in 1 .. k - 1 : From(a, n) = m
  <2>1. CASE m < n
    <3>1. m \in 1 .. k - 1 /\ From(m, n) = m
      BY <2>1 DEF From
    <3> QED BY <3>1
  <2>2. CASE m > n
    <3>1. m - 1 \in 1 .. k - 1 /\ From(m - 1, n) = m
      BY <2>2 DEF From
    <3> QED BY <3>1
  <2> QED BY <1>3, <2>1, <2>2
<1> QED BY <1>1, <1>2, <1>3

\* Removing the n-th element.
LEMMA RemoveAtIs ==
  ASSUME NEW s \in Seq(Nat), NEW n \in 1 .. Len(s)
  PROVE  /\ RemoveAt(s, n) \in Seq(Nat) /\ Len(RemoveAt(s, n)) = Len(s) - 1
         /\ \A m \in 1 .. Len(s) - 1 :
              RemoveAt(s, n)[m] = s[From(m, n)]
<1> DEFINE a == SubSeq(s, 1, n - 1)
           b == SubSeq(s, n + 1, Len(s))
<1>1. a \in Seq(Nat) /\ Len(a) = n - 1 /\ \A m \in 1 .. n - 1 : a[m] = s[m]
  OBVIOUS
<1>2. b \in Seq(Nat) /\ Len(b) = Len(s) - n
      /\ \A m \in 1 .. Len(s) - n : b[m] = s[n + m]
  OBVIOUS
<1> HIDE DEF a, b
<1>3. RemoveAt(s, n) = a \o b
  BY DEF RemoveAt, a, b
<1>c. /\ (a \o b) \in Seq(Nat) /\ Len(a \o b) = Len(a) + Len(b)
      /\ \A i \in 1 .. Len(a) + Len(b) :
           (a \o b)[i] = IF i <= Len(a) THEN a[i] ELSE b[i - Len(a)]
  <2>1. a \in Seq(Nat) /\ b \in Seq(Nat)
    BY <1>1, <1>2
  <2> QED BY <2>1, ConcatProperties
<1>d. Len(a) \in Nat /\ Len(b) \in Nat /\ Len(a) + Len(b) = Len(s) - 1 /\ Len(a) = n - 1
  BY <1>1, <1>2
<1>4. (a \o b) \in Seq(Nat) /\ Len(a \o b) = Len(s) - 1
  BY <1>c, <1>d
<1> DEFINE c == a \o b
<1> HIDE DEF c
<1>e. \A i \in 1 .. Len(s) - 1 : c[i] = IF i <= n - 1 THEN a[i] ELSE b[i - (n - 1)]
  BY <1>c, <1>d DEF c
<1>5. ASSUME NEW m \in 1 .. Len(s) - 1
      PROVE  c[m] = s[From(m, n)]
  <2>1. CASE m < n
    BY <1>1, <1>e, <2>1 DEF From
  <2>2. CASE ~ m < n
    <3>1. c[m] = b[m - (n - 1)]
      BY <1>e, <2>2
    <3>2. b[m - (n - 1)] = s[n + (m - (n - 1))]
      BY <1>2, <2>2
    <3>3. n + (m - (n - 1)) = From(m, n)
      BY <2>2 DEF From
    <3> QED BY <3>1, <3>2, <3>3
  <2> QED BY <2>1, <2>2
<1> QED BY <1>3, <1>4, <1>5 DEF c

\* Every window has a place in the order.
LEMMA PlaceIs ==
  ASSUME NEW w, NEW i, Permutes(w.order, w.count), w.count \in Nat, i \in Indexes(w)
  PROVE  Place(w, i) \in 1 .. w.count /\ w.order[Place(w, i)] = i
<1>1. \E n \in 1 .. Len(w.order) : w.order[n] = i
  BY DEF Permutes, Indexes
<1> QED BY <1>1 DEF Place, Permutes

\* Moving an index to the end permutes the order.
LEMMA RaisedPermutes ==
  ASSUME NEW s, NEW k \in Nat, NEW i \in 1 .. k, NEW n \in 1 .. k, Permutes(s, k), s[n] = i
  PROVE  /\ Permutes(Append(RemoveAt(s, n), i), k)
         /\ Append(RemoveAt(s, n), i)[k] = i
<1> DEFINE r == RemoveAt(s, n)
           t == Append(r, i)
<1>1. s \in Seq(Nat) /\ Len(s) = k
  BY DEF Permutes
<1>f. /\ \A m \in 1 .. k - 1 : From(m, n) \in 1 .. k /\ From(m, n) # n
      /\ \A a, b \in 1 .. k - 1 : From(a, n) = From(b, n) => a = b
  BY FromIs
<1>p. /\ \A m \in 1 .. k : s[m] \in 1 .. k
      /\ \A a, b \in 1 .. k : s[a] = s[b] => a = b
  BY DEF Permutes
<1>2. r \in Seq(Nat) /\ Len(r) = k - 1
      /\ \A m \in 1 .. k - 1 : r[m] = s[From(m, n)]
  BY <1>1, RemoveAtIs
<1> HIDE DEF r
<1>3. t \in Seq(Nat) /\ Len(t) = k /\ t[k] = i /\ \A m \in 1 .. k - 1 : t[m] = r[m]
  BY <1>2
<1> HIDE DEF t
<1>4. \A m \in 1 .. k - 1 : t[m] = s[From(m, n)] /\ t[m] \in 1 .. k /\ t[m] # i
  <2> TAKE m \in 1 .. k - 1
  <2>1. t[m] = s[From(m, n)] /\ From(m, n) \in 1 .. k /\ From(m, n) # n
    BY <1>2, <1>3, <1>f
  <2> QED BY <2>1, <1>p
<1>5. \A m \in 1 .. k : m = k \/ m \in 1 .. k - 1
  OBVIOUS
<1>6. \A a, b \in 1 .. k : t[a] = t[b] => a = b
  <2>1. \A a, b \in 1 .. k - 1 : t[a] = t[b] => a = b
    <3> TAKE a, b \in 1 .. k - 1
    <3> HAVE t[a] = t[b]
    <3>1. From(a, n) = From(b, n)
      BY <1>4, <1>f, <1>p
    <3> QED BY <3>1, <1>f
  <2> QED BY <2>1, <1>3, <1>4, <1>5
<1>7. ASSUME NEW j \in 1 .. k PROVE \E m \in 1 .. k : t[m] = j
  <2>1. PICK m \in 1 .. k : s[m] = j
    BY DEF Permutes
  <2>2. CASE m = n
    BY <2>1, <2>2, <1>3
  <2>3. CASE m # n
    <3>1. PICK a \in 1 .. k - 1 : From(a, n) = m
      BY <2>3, FromIs
    <3>2. a \in 1 .. k /\ t[a] = j
      BY <3>1, <2>1, <1>4
    <3> QED BY <3>2
  <2> QED BY <2>2, <2>3
<1>9. \A m \in 1 .. k : t[m] \in 1 .. k
  BY <1>3, <1>4, <1>5
<1>8. Permutes(t, k)
  BY <1>3, <1>6, <1>7, <1>9 DEF Permutes
<1> QED BY <1>8, <1>3 DEF t, r

\* Removing an index and lowering those above it leaves a permutation.
LEMMA LoweredPermutes ==
  ASSUME NEW s, NEW k \in Nat, NEW i \in 1 .. k, NEW n \in 1 .. k, Permutes(s, k), s[n] = i
  PROVE  LET r == RemoveAt(s, n)
         IN Permutes([m \in DOMAIN r |-> Lowered(r[m], i)], k - 1)
<1> DEFINE r == RemoveAt(s, n)
           t == [m \in DOMAIN r |-> Lowered(r[m], i)]
<1>1. s \in Seq(Nat) /\ Len(s) = k
  BY DEF Permutes
<1>f. /\ \A m \in 1 .. k - 1 : From(m, n) \in 1 .. k /\ From(m, n) # n
      /\ \A a, b \in 1 .. k - 1 : From(a, n) = From(b, n) => a = b
  BY FromIs
<1>p. /\ \A m \in 1 .. k : s[m] \in 1 .. k
      /\ \A a, b \in 1 .. k : s[a] = s[b] => a = b
  BY DEF Permutes
<1>2. r \in Seq(Nat) /\ Len(r) = k - 1
      /\ \A m \in 1 .. k - 1 : r[m] = s[From(m, n)]
  BY <1>1, RemoveAtIs
<1>a. DOMAIN r = 1 .. k - 1
  BY <1>2
<1> HIDE DEF r
<1>3. \A m \in 1 .. k - 1 : r[m] \in 1 .. k /\ r[m] # i
  <2> TAKE m \in 1 .. k - 1
  <2>1. r[m] = s[From(m, n)] /\ From(m, n) \in 1 .. k /\ From(m, n) # n
    BY <1>2, <1>f
  <2> QED BY <2>1, <1>p
<1>4. \A m \in 1 .. k - 1 : t[m] = Lowered(r[m], i) /\ t[m] \in 1 .. k - 1
  BY <1>a, <1>3 DEF Lowered
<1>5. t \in Seq(Nat) /\ Len(t) = k - 1
  <2>1. t \in [1 .. k - 1 -> Nat]
    BY <1>a, <1>4
  <2>2. k - 1 \in Nat
    OBVIOUS
  <2> HIDE DEF t
  <2> QED BY <2>1, <2>2
<1> HIDE DEF t
<1>6. \A a, b \in 1 .. k - 1 : t[a] = t[b] => a = b
  <2> TAKE a, b \in 1 .. k - 1
  <2> HAVE t[a] = t[b]
  <2>1. r[a] = r[b]
    <3>1. r[a] \in 1 .. k /\ r[b] \in 1 .. k /\ r[a] # i /\ r[b] # i
      BY <1>3
    <3>2. Lowered(r[a], i) = Lowered(r[b], i)
      BY <1>4
    <3> QED BY <3>1, <3>2 DEF Lowered
  <2>2. s[From(a, n)] = s[From(b, n)]
    BY <2>1, <1>2
  <2>3. From(a, n) = From(b, n)
    BY <2>2, FromIs, ZenonT(40) DEF Permutes
  <2> QED BY <2>3, FromIs
<1>7. ASSUME NEW j \in 1 .. k - 1 PROVE \E m \in 1 .. k - 1 : t[m] = j
  <2> DEFINE q == IF j >= i THEN j + 1 ELSE j
  <2>1. q \in 1 .. k /\ q # i /\ Lowered(q, i) = j
    BY DEF Lowered
  <2> HIDE DEF q
  <2>2. PICK m \in 1 .. k : s[m] = q
    BY <2>1 DEF Permutes
  <2>3. m # n
    BY <2>1, <2>2
  <2>4. PICK a \in 1 .. k - 1 : From(a, n) = m
    BY <2>3, FromIs
  <2> QED BY <2>4, <2>1, <2>2, <1>2, <1>4
<1>8. Permutes(t, k - 1)
  BY <1>5, <1>4, <1>6, <1>7 DEF Permutes
<1> QED BY <1>8 DEF t, r

-----------------------------------------------------------------------------
\* Indexes are slots, and zero is none.
LEMMA IndexesAre ==
  ASSUME NEW w \in WmRecords
  PROVE  /\ Indexes(w) \subseteq Slots /\ Visible(w) \subseteq Indexes(w)
         /\ NoIndex \notin Indexes(w) /\ w.count \in Nat
  BY WmAssumption DEF WmRecords, Counts, Indexes, Slots, Visible, NoIndex

\* Changing one window that is not maximised without filling the screen.
LEMMA WindowChanges ==
  ASSUME NEW w, NEW j, NEW v \in WmWindows, Ordered(w), j \in Indexes(w),
         v.state = "maximized" => v.size = "full"
  PROVE  LET x == [w EXCEPT !.win[j] = v]
         IN /\ Ordered(x) /\ x.count = w.count /\ x.order = w.order /\ x.active = w.active
            /\ x.win[j] = v /\ \A i \in Slots : i # j => x.win[i] = w.win[i]
<1> DEFINE x == [w EXCEPT !.win[j] = v]
<1>1. w \in WmRecords /\ j \in Slots /\ Indexes(w) \subseteq Slots
  BY IndexesAre DEF Ordered
<1>2. w.win \in [Slots -> WmWindows]
  BY <1>1 DEF WmRecords
<1>3. [w.win EXCEPT ![j] = v] \in [Slots -> WmWindows]
  BY <1>1, <1>2
<1>4. x = [w EXCEPT !.win = [w.win EXCEPT ![j] = v]]
  BY <1>1 DEF WmRecords
<1>5. /\ x \in WmRecords /\ x.count = w.count /\ x.order = w.order /\ x.active = w.active
      /\ x.win = [w.win EXCEPT ![j] = v]
  BY <1>1, <1>3, <1>4 DEF WmRecords
<1> HIDE DEF x
<1>6. x.win[j] = v /\ \A i \in Slots : i # j => x.win[i] = w.win[i]
  BY <1>1, <1>2, <1>5
<1>7. Indexes(x) = Indexes(w)
  BY <1>5 DEF Indexes
<1>8. Full(x)
  BY <1>1, <1>6, <1>7 DEF Full, Ordered
<1>9. Ordered(x)
  BY <1>5, <1>8 DEF Ordered
<1> QED BY <1>5, <1>6, <1>9 DEF x

\* A restored window is in the normal state.
LEMMA RestoredIs ==
  ASSUME NEW v \in WmWindows
  PROVE  Restored(v) \in WmWindows /\ Restored(v).state = "normal"
  BY DEF Restored, WmWindows, States, Sizes

\* Restoring changes one window, which is to be seen afterwards.
LEMMA RestoreKeeps ==
  ASSUME NEW w, NEW i, Ordered(w)
  PROVE  LET v == wm_restore_window(w, i)
         IN /\ Ordered(v) /\ Keeps(w, v) /\ v.order = w.order /\ v.active = w.active
            /\ Visible(w) \subseteq Visible(v) /\ (i \in Indexes(w) => i \in Visible(v))
<1> DEFINE v == wm_restore_window(w, i)
<1>1. CASE i \notin Indexes(w)
  <2>1. v = w
    BY <1>1 DEF wm_restore_window
  <2> QED BY <2>1, <1>1 DEF Keeps
<1>2. CASE i \in Indexes(w)
  <2> DEFINE b == Restored(w.win[i])
  <2>1. w \in WmRecords /\ i \in Slots /\ Indexes(w) \subseteq Slots
    BY <1>2, IndexesAre DEF Ordered
  <2>2. w.win[i] \in WmWindows
    BY <2>1 DEF WmRecords
  <2>3. b \in WmWindows /\ b.state = "normal"
    BY <2>2, RestoredIs
  <2>4. v = [w EXCEPT !.win[i] = b]
    BY <1>2 DEF wm_restore_window
  <2> HIDE DEF b, v
  <2>5. /\ Ordered(v) /\ v.count = w.count /\ v.order = w.order /\ v.active = w.active
        /\ v.win[i] = b /\ \A k \in Slots : k # i => v.win[k] = w.win[k]
    BY <1>2, <2>3, <2>4, WindowChanges
  <2>6. Indexes(v) = Indexes(w)
    BY <2>5 DEF Indexes
  <2>7. Keeps(w, v)
    BY <2>1, <2>3, <2>5 DEF Keeps
  <2>8. Visible(w) \subseteq Visible(v) /\ i \in Visible(v)
    BY <1>2, <2>1, <2>3, <2>5, <2>6 DEF Visible
  <2> QED BY <2>5, <2>7, <2>8 DEF v
<1> QED BY <1>1, <1>2

\* A visible window that is made active and raised is on top.
LEMMA RaiseKeeps ==
  ASSUME NEW w, NEW i, Ordered(w), i \in Visible(w)
  PROVE  LET v == wm_bring_to_top([w EXCEPT !.active = i], i)
         IN Good(v) /\ Keeps(w, v) /\ v.active = i
<1> DEFINE a == [w EXCEPT !.active = i]
           o == Append(RemoveAt(a.order, Place(a, i)), i)
           v == wm_bring_to_top(a, i)
<1>1. w \in WmRecords /\ i \in Indexes(w) /\ w.count \in Nat
  BY IndexesAre DEF Ordered
<1>2. i \in Counts
  <2>1. w.count \in Counts
    BY <1>1 DEF WmRecords
  <2> QED BY <1>1, <2>1, WmAssumption DEF Indexes, Counts
<1>3. a \in WmRecords /\ a.count = w.count /\ a.win = w.win /\ a.order = w.order /\ a.active = i
  BY <1>1, <1>2 DEF WmRecords
<1>4. v = [a EXCEPT !.order = o]
  BY <1>3 DEF wm_bring_to_top, WmRecords
<1> HIDE DEF a
<1>5. Permutes(a.order, a.count) /\ i \in Indexes(a)
  BY <1>1, <1>3 DEF Ordered, Indexes
<1>6. Place(a, i) \in 1 .. a.count /\ a.order[Place(a, i)] = i
  BY <1>1, <1>3, <1>5, PlaceIs
<1>7. Permutes(o, a.count) /\ o[a.count] = i
  <2>1. a.count \in Nat /\ i \in 1 .. a.count
    BY <1>1, <1>3, <1>5 DEF Indexes
  <2> DEFINE n == Place(a, i)
             k == a.count
             s == a.order
  <2>2. k \in Nat /\ i \in 1 .. k /\ n \in 1 .. k /\ Permutes(s, k) /\ s[n] = i
    BY <2>1, <1>5, <1>6
  <2>3. o = Append(RemoveAt(s, n), i)
    OBVIOUS
  <2> HIDE DEF n, k, s, o
  <2>4. Permutes(Append(RemoveAt(s, n), i), k) /\ Append(RemoveAt(s, n), i)[k] = i
    BY <2>2, RaisedPermutes
  <2>5. Permutes(o, k) /\ o[k] = i
    BY <2>3, <2>4
  <2> QED BY <2>5 DEF k
<1>8. o \in Seq(Nat)
  BY <1>7 DEF Permutes
<1> HIDE DEF o, v
<1>9. v \in WmRecords /\ v.count = w.count /\ v.win = w.win /\ v.order = o /\ v.active = i
  BY <1>3, <1>4, <1>8 DEF WmRecords
<1>10. Indexes(v) = Indexes(w) /\ Visible(v) = Visible(w)
  BY <1>9 DEF Indexes, Visible
<1>11. Full(v)
  BY <1>9, <1>10 DEF Full, Ordered
<1>12. Ordered(v) /\ Topmost(v)
  BY <1>3, <1>7, <1>9, <1>10, <1>11 DEF Ordered, Topmost
<1>13. Keeps(w, v)
  BY <1>9 DEF Keeps
<1> QED BY <1>9, <1>12, <1>13 DEF Good, v, a

\* Two steps that keep the windows keep them.
LEMMA KeepsFollows ==
  ASSUME NEW u, NEW v, NEW w, Keeps(u, v), Keeps(v, w)
  PROVE  Keeps(u, w)
  BY DEF Keeps, Indexes

\* Focusing puts a window on top, whatever was active before.
LEMMA FocusKeeps ==
  ASSUME NEW w, NEW i, Ordered(w)
  PROVE  LET v == wm_focus_window(w, i)
         IN /\ Keeps(w, v) /\ (i \in Indexes(w) => Good(v) /\ v.active = i)
            /\ (Good(w) => Good(v))
<1> DEFINE v == wm_focus_window(w, i)
           back == IF w.win[i].state = "minimized" THEN wm_restore_window(w, i) ELSE w
<1>1. CASE i \notin Indexes(w)
  <2>1. v = w
    BY <1>1 DEF wm_focus_window
  <2> QED BY <2>1, <1>1 DEF Keeps
<1>2. CASE i \in Indexes(w)
  <2>1. Ordered(back) /\ Keeps(w, back) /\ i \in Visible(back)
    <3>1. CASE w.win[i].state = "minimized"
      BY <3>1, <1>2, RestoreKeeps
    <3>2. CASE w.win[i].state # "minimized"
      BY <3>2, <1>2 DEF Keeps, Visible
    <3> QED BY <3>1, <3>2
  <2>2. v = wm_bring_to_top([back EXCEPT !.active = i], i)
    BY <1>2 DEF wm_focus_window
  <2> HIDE DEF back, v
  <2>3. Good(v) /\ Keeps(back, v) /\ v.active = i
    BY <2>1, <2>2, RaiseKeeps
  <2>4. Keeps(w, v)
    BY <2>1, <2>3, KeepsFollows
  <2> QED BY <2>3, <2>4 DEF v
<1> QED BY <1>1, <1>2

\* The greatest of some numbers is one of them.
LEMMA MaxIs ==
  ASSUME NEW k \in Nat, NEW S \in SUBSET (1 .. k), S # {}
  PROVE  Max(S) \in S
<1> DEFINE T == {d \in Nat : k - d \in S}
<1>1. PICK n \in S : TRUE
  OBVIOUS
<1>2. k - n \in T
  BY <1>1
<1>3. PICK d \in T : \A m \in T : d <= m
  BY <1>2, LeastExists
<1>4. k - d \in S /\ \A m \in S : k - d >= m
  <2>1. ASSUME NEW m \in S PROVE k - d >= m
    <3>1. k - m \in T
      OBVIOUS
    <3> QED BY <3>1, <1>3
  <2> QED BY <2>1, <1>3
<1>5. \E x \in S : \A y \in S : x >= y
  BY <1>4
<1> QED BY <1>5 DEF Max

\* The topmost visible window gets the focus, or none.
LEMMA FocusTopmostKeeps ==
  ASSUME NEW w, Ordered(w)
  PROVE  LET v == FocusTopmost(w, Visible(w)) IN Good(v) /\ Keeps(w, v)
<1> DEFINE open == {n \in DOMAIN w.order : w.order[n] \in Visible(w)}
           v == FocusTopmost(w, Visible(w))
<1>1. w \in WmRecords /\ w.count \in Nat /\ Visible(w) \subseteq Indexes(w)
  BY IndexesAre DEF Ordered
<1>2. DOMAIN w.order = 1 .. w.count
  BY DEF Ordered, Permutes
<1>3. CASE open = {}
  <2>1. v = [w EXCEPT !.active = NoIndex]
    BY <1>3 DEF FocusTopmost
  <2> HIDE DEF v
  <2>2. /\ v \in WmRecords /\ v.count = w.count /\ v.win = w.win /\ v.order = w.order
        /\ v.active = NoIndex
    BY <1>1, <2>1, WmAssumption DEF WmRecords, Counts, NoIndex
  <2>3. Indexes(v) = Indexes(w)
    BY <2>2 DEF Indexes
  <2>4. Full(v) /\ Permutes(v.order, v.count)
    BY <2>2, <2>3 DEF Full, Ordered
  <2> QED BY <2>2, <2>4 DEF Good, Ordered, Topmost, Keeps, v
<1>4. CASE open # {}
  <2>1. Max(open) \in open
    BY <1>1, <1>2, <1>4, MaxIs
  <2>2. w.order[Max(open)] \in Indexes(w)
    BY <1>1, <2>1
  <2>3. v = wm_focus_window(w, w.order[Max(open)])
    BY <1>4 DEF FocusTopmost
  <2> HIDE DEF open, v
  <2>4. Good(v) /\ Keeps(w, v)
    BY <2>2, <2>3, FocusKeeps
  <2> QED BY <2>4 DEF v
<1> QED BY <1>3, <1>4

\* Remembering a size keeps the window a window.
LEMMA RememberedIs ==
  ASSUME NEW v \in WmWindows
  PROVE  Remembered(v) \in WmWindows
  BY DEF Remembered, WmWindows

\* Minimising passes the focus on.
LEMMA MinimizeKeeps ==
  ASSUME NEW w, NEW i, Good(w)
  PROVE  Good(wm_minimize_window(w, i)) /\ Keeps(w, wm_minimize_window(w, i))
<1>1. CASE i \notin Indexes(w)
  BY <1>1 DEF wm_minimize_window, Keeps
<1>2. CASE i \in Indexes(w)
  <2> DEFINE b == [Remembered(w.win[i]) EXCEPT !.state = "minimized"]
             down == [w EXCEPT !.win[i] = b]
  <2>1. w \in WmRecords /\ i \in Slots /\ Indexes(w) \subseteq Slots
    BY <1>2, IndexesAre DEF Good, Ordered
  <2>2. w.win[i] \in WmWindows
    BY <2>1 DEF WmRecords
  <2>3. Remembered(w.win[i]) \in WmWindows
    BY <2>2, RememberedIs
  <2>4. b \in WmWindows /\ b.state = "minimized"
    BY <2>3 DEF WmWindows, States
  <2>5. wm_minimize_window(w, i) = FocusTopmost(down, Visible(down))
    BY <1>2 DEF wm_minimize_window
  <2> HIDE DEF b
  <2>6. /\ Ordered(down) /\ down.count = w.count
        /\ down.win[i] = b /\ \A k \in Slots : k # i => down.win[k] = w.win[k]
    <3>1. Ordered(w)
      BY DEF Good
    <3> QED BY <3>1, <1>2, <2>4, WindowChanges
  <2> HIDE DEF down
  <2>7. Keeps(w, down)
    BY <2>1, <2>4, <2>6 DEF Keeps
  <2> QED BY <2>5, <2>6, <2>7, FocusTopmostKeeps, KeepsFollows
<1> QED BY <1>1, <1>2

\* A window that is changed and to be seen afterwards leaves the active one
\* on top.
LEMMA ChangeIsGood ==
  ASSUME NEW w, NEW j, NEW v \in WmWindows, Good(w), j \in Indexes(w),
         v.state # "minimized", v.state = "maximized" => v.size = "full"
  PROVE  LET x == [w EXCEPT !.win[j] = v] IN Good(x) /\ x.count = w.count
<1> DEFINE x == [w EXCEPT !.win[j] = v]
<1>1. /\ Ordered(x) /\ x.count = w.count /\ x.order = w.order /\ x.active = w.active
      /\ x.win[j] = v /\ \A i \in Slots : i # j => x.win[i] = w.win[i]
  <2>1. Ordered(w)
    BY DEF Good
  <2> QED BY <2>1, WindowChanges
<1>2. Indexes(w) \subseteq Slots
  BY IndexesAre DEF Good, Ordered
<1> HIDE DEF x
<1>3. Visible(w) \subseteq Visible(x)
  BY <1>1, <1>2 DEF Visible, Indexes
<1>4. Topmost(x)
  BY <1>1, <1>3 DEF Good, Topmost
<1> QED BY <1>1, <1>4 DEF Good, x

\* Restoring.
LEMMA RestoreIsGood ==
  ASSUME NEW w, NEW i, Good(w)
  PROVE  Good(wm_restore_window(w, i)) /\ Keeps(w, wm_restore_window(w, i))
  BY RestoreKeeps DEF Good, Topmost, Keeps

\* Maximising.
LEMMA MaximizeIsGood ==
  ASSUME NEW w, NEW i, Good(w)
  PROVE  Good(wm_maximize_window(w, i)) /\ wm_maximize_window(w, i).count = w.count
<1>1. CASE i \notin Indexes(w)
  BY <1>1 DEF wm_maximize_window
<1>2. CASE i \in Indexes(w)
  <2> DEFINE b == [Remembered(w.win[i]) EXCEPT !.state = "maximized", !.size = "full"]
  <2>1. w \in WmRecords /\ i \in Slots
    BY <1>2, IndexesAre DEF Good, Ordered
  <2>2. w.win[i] \in WmWindows
    BY <2>1 DEF WmRecords
  <2>3. Remembered(w.win[i]) \in WmWindows
    BY <2>2, RememberedIs
  <2>4. b \in WmWindows /\ b.state = "maximized" /\ b.size = "full"
    BY <2>3 DEF WmWindows, States, Sizes
  <2>5. wm_maximize_window(w, i) = [w EXCEPT !.win[i] = b]
    BY <1>2 DEF wm_maximize_window
  <2> HIDE DEF b
  <2> QED BY <1>2, <2>4, <2>5, ChangeIsGood
<1> QED BY <1>1, <1>2

\* Maximising or restoring.
LEMMA ToggleIsGood ==
  ASSUME NEW w, NEW i, Good(w)
  PROVE  Good(wm_toggle_maximize(w, i)) /\ wm_toggle_maximize(w, i).count = w.count
  BY RestoreIsGood, MaximizeIsGood DEF wm_toggle_maximize, Keeps

\* Snapping to an edge.
LEMMA SnapIsGood ==
  ASSUME NEW w, NEW i, NEW side, Good(w)
  PROVE  Good(wm_snap_window(w, i, side)) /\ wm_snap_window(w, i, side).count = w.count
<1>1. CASE side = "top"
  BY <1>1, MaximizeIsGood DEF wm_snap_window
<1>2. CASE side = "side" /\ i \in Indexes(w)
  <2> DEFINE b == [Remembered(w.win[i]) EXCEPT !.state = "normal", !.size = "own"]
  <2>1. w \in WmRecords /\ i \in Slots
    BY <1>2, IndexesAre DEF Good, Ordered
  <2>2. w.win[i] \in WmWindows
    BY <2>1 DEF WmRecords
  <2>3. Remembered(w.win[i]) \in WmWindows
    BY <2>2, RememberedIs
  <2>4. b \in WmWindows /\ b.state = "normal"
    BY <2>3 DEF WmWindows, States, Sizes
  <2>5. wm_snap_window(w, i, side) = [w EXCEPT !.win[i] = b]
    BY <1>2 DEF wm_snap_window
  <2> HIDE DEF b
  <2>6. b.state # "minimized" /\ b.state # "maximized"
    BY <2>4
  <2>7. Good([w EXCEPT !.win[i] = b]) /\ [w EXCEPT !.win[i] = b].count = w.count
    BY <1>2, <2>4, <2>6, ChangeIsGood
  <2> QED BY <2>5, <2>7
<1>3. CASE side # "top" /\ ~ (side = "side" /\ i \in Indexes(w))
  BY <1>3 DEF wm_snap_window
<1> QED BY <1>1, <1>2, <1>3

\* Closing moves the indexes above down.
LEMMA CloseIsGood ==
  ASSUME NEW w, NEW i, Good(w)
  PROVE  Good(wm_close_window(w, i))
<1>1. CASE i \notin Indexes(w)
  BY <1>1 DEF wm_close_window
<1>2. CASE i \in Indexes(w)
  <2> DEFINE n == Place(w, i)
             k == w.count
             s == w.order
             kept == RemoveAt(s, n)
             o == [m \in DOMAIN kept |-> Lowered(kept[m], i)]
             f == [j \in Slots |-> IF j >= i /\ j < k THEN w.win[j + 1] ELSE w.win[j]]
             rest == [count |-> k - 1, win |-> f, order |-> o, active |-> w.active]
  <2>1. w \in WmRecords /\ i \in Slots /\ i \in 1 .. k /\ k \in Counts /\ k \in Nat
    BY <1>2, IndexesAre DEF Good, Ordered, WmRecords, Indexes
  <2>2. n \in 1 .. k /\ s[n] = i /\ Permutes(s, k)
    BY <1>2, <2>1, PlaceIs DEF Good, Ordered
  <2>3. wm_close_window(w, i) = FocusTopmost(rest, Visible(rest))
    BY <1>2 DEF wm_close_window
  <2>4. f \in [Slots -> WmWindows]
    <3> SUFFICES ASSUME NEW j \in Slots
                 PROVE (IF j >= i /\ j < k THEN w.win[j + 1] ELSE w.win[j]) \in WmWindows
      OBVIOUS
    <3>1. w.win \in [Slots -> WmWindows]
      BY <2>1 DEF WmRecords
    <3>2. j >= i /\ j < k => j + 1 \in Slots
      BY <2>1, WmAssumption DEF Slots, Counts
    <3> QED BY <3>1, <3>2
  <2> HIDE DEF n, s
  <2>5. Permutes(o, k - 1)
    BY <2>1, <2>2, LoweredPermutes
  <2> HIDE DEF kept, o
  <2>6. k - 1 \in Counts /\ o \in Seq(Nat) /\ w.active \in Counts
    BY <2>1, <2>5, WmAssumption DEF Counts, Permutes, WmRecords
  <2>7. \A j \in 1 .. k - 1 : f[j] = w.win[IF j >= i THEN j + 1 ELSE j]
    BY <2>1, WmAssumption DEF Slots, Counts
  <2> HIDE DEF f, k
  <2>8. rest \in WmRecords
    BY <2>4, <2>6 DEF WmRecords
  <2>9. /\ Indexes(rest) = 1 .. k - 1 /\ rest.win = f
        /\ Permutes(rest.order, rest.count)
    BY <2>5 DEF Indexes
  <2> HIDE DEF rest
  <2>10. Full(rest)
    <3> SUFFICES ASSUME ~KeysInGestures, NEW j \in 1 .. k - 1, f[j].state = "maximized"
                 PROVE f[j].size = "full"
      BY <2>9 DEF Full
    <3> DEFINE q == IF j >= i THEN j + 1 ELSE j
    <3>1. q \in Indexes(w) /\ f[j] = w.win[q]
      BY <2>1, <2>7 DEF Indexes, k
    <3> QED BY <3>1 DEF Good, Ordered, Full
  <2>11. Ordered(rest)
    BY <2>8, <2>9, <2>10 DEF Ordered
  <2> QED BY <2>3, <2>11, FocusTopmostKeeps
<1> QED BY <1>1, <1>2

\* As Keeps, but windows may have come.
Grows(w, v) ==
  /\ Indexes(w) \subseteq Indexes(v)
  /\ \A i \in Indexes(w) : w.win[i].state # "maximized" => v.win[i].state # "maximized"

\* A new index at the end of the order.
LEMMA AppendedPermutes ==
  ASSUME NEW s, NEW k \in Nat, Permutes(s, k)
  PROVE  Permutes(Append(s, k + 1), k + 1)
<1> DEFINE t == Append(s, k + 1)
<1>1. s \in Seq(Nat) /\ Len(s) = k
  BY DEF Permutes
<1>2. t \in Seq(Nat) /\ Len(t) = k + 1 /\ t[k + 1] = k + 1 /\ \A m \in 1 .. k : t[m] = s[m]
  BY <1>1
<1> HIDE DEF t
<1>3. \A m \in 1 .. k + 1 : m = k + 1 \/ m \in 1 .. k
  OBVIOUS
<1>4. /\ \A m \in 1 .. k : t[m] \in 1 .. k
      /\ \A m, n \in 1 .. k : t[m] = t[n] => m = n
  <2>1. /\ \A m \in 1 .. k : s[m] \in 1 .. k
        /\ \A m, n \in 1 .. k : s[m] = s[n] => m = n
    BY DEF Permutes
  <2> QED BY <2>1, <1>2
<1>5. \A m, n \in 1 .. k + 1 : t[m] = t[n] => m = n
  BY <1>2, <1>3, <1>4
<1>6. \A m \in 1 .. k + 1 : t[m] \in 1 .. k + 1
  BY <1>2, <1>3, <1>4
<1>7. ASSUME NEW i \in 1 .. k + 1 PROVE \E n \in 1 .. k + 1 : t[n] = i
  <2>1. CASE i = k + 1
    BY <2>1, <1>2
  <2>2. CASE i \in 1 .. k
    <3>1. PICK n \in 1 .. k : s[n] = i
      BY <2>2 DEF Permutes
    <3> QED BY <3>1, <1>2
  <2> QED BY <2>1, <2>2, <1>3
<1>8. Permutes(t, k + 1)
  BY <1>2, <1>5, <1>6, <1>7 DEF Permutes
<1> QED BY <1>8 DEF t

\* Opening, or focusing the unique window that is there.
LEMMA OpenIsGood ==
  ASSUME NEW w, NEW unique \in BOOLEAN, Good(w)
  PROVE  Good(wm_open_window(w, unique)) /\ Grows(w, wm_open_window(w, unique))
<1> DEFINE v == wm_open_window(w, unique)
<1>1. CASE Same(w, unique) # {}
  <2> DEFINE i == CHOOSE j \in Same(w, unique) : TRUE
  <2>1. i \in Indexes(w) /\ v = wm_focus_window(w, i)
    BY <1>1 DEF wm_open_window, Same
  <2> HIDE DEF i, v
  <2>2. Good(v) /\ Keeps(w, v)
    BY <2>1, FocusKeeps DEF Good
  <2> QED BY <2>2 DEF Keeps, Grows, Indexes, v
<1>2. CASE Same(w, unique) = {} /\ w.count = WindowMax
  BY <1>2 DEF wm_open_window, Grows
<1>3. CASE Same(w, unique) = {} /\ w.count # WindowMax
  <2> DEFINE i == w.count + 1
             b == [w.win[i] EXCEPT !.unique = unique, !.state = "normal", !.size = "default"]
             f == [w.win EXCEPT ![i] = b]
             o == Append(w.order, i)
             x == [w EXCEPT !.count = i, !.win[i] = b, !.order = o]
             y == [w EXCEPT !.count = i, !.win = f, !.order = o]
  <2>1. w \in WmRecords /\ w.count \in Counts /\ Permutes(w.order, w.count)
    BY DEF Good, Ordered, WmRecords
  <2>2. i \in Slots /\ i \in Counts /\ w.count \in Nat
    BY <1>3, <2>1, WmAssumption DEF Slots, Counts
  <2>3. w.win \in [Slots -> WmWindows] /\ w.active \in Counts
    BY <2>1 DEF WmRecords
  <2>4. w.win[i] \in WmWindows
    BY <2>2, <2>3
  <2>5. b \in WmWindows /\ b.state = "normal"
    BY <2>4 DEF WmWindows, States, Sizes
  <2>6. v = wm_focus_window(x, i)
    BY <1>3 DEF wm_open_window
  <2> HIDE DEF b, v, o, i
  <2>a. x = y
    BY <2>1 DEF WmRecords
  <2> HIDE DEF x
  <2>7. f \in [Slots -> WmWindows] /\ f[i] = b /\ \A j \in Slots : j # i => f[j] = w.win[j]
    BY <2>2, <2>3, <2>5
  <2>8. Permutes(o, i)
    BY <2>1, <2>2, AppendedPermutes DEF o, i
  <2> HIDE DEF f
  <2>9. y \in WmRecords
    <3>1. o \in Seq(Nat)
      BY <2>8 DEF Permutes
    <3> QED BY <3>1, <2>1, <2>2, <2>7 DEF WmRecords
  <2>b. y.count = i /\ y.win = f /\ y.order = o
    BY <2>1 DEF WmRecords
  <2> HIDE DEF y
  <2>10. Indexes(y) = 1 .. i /\ Indexes(w) = 1 .. w.count /\ Indexes(w) \subseteq Slots
    BY <2>b, <2>1, IndexesAre DEF Indexes
  <2>11. Full(y)
    <3> SUFFICES ASSUME ~KeysInGestures, NEW j \in 1 .. i, f[j].state = "maximized"
                 PROVE f[j].size = "full"
      BY <2>b, <2>10 DEF Full
    <3>1. j # i
      BY <2>5, <2>7
    <3>2. j \in Indexes(w) /\ j \in Slots
      BY <3>1, <2>2, <2>10 DEF i
    <3> QED BY <3>1, <3>2, <2>7 DEF Good, Ordered, Full
  <2>12. Ordered(y) /\ i \in Indexes(y)
    BY <2>b, <2>2, <2>8, <2>9, <2>10, <2>11 DEF Ordered, i
  <2>13. Good(v) /\ Keeps(y, v)
    BY <2>6, <2>a, <2>12, FocusKeeps
  <2>14. Indexes(w) \subseteq Indexes(v) /\ Indexes(w) \subseteq Indexes(y)
    <3>1. v.count = i /\ y.count = i /\ w.count \in Nat /\ i = w.count + 1
      BY <2>13, <2>b, <2>2 DEF Keeps, i
    <3> QED BY <3>1 DEF Indexes
  <2>15. ASSUME NEW j \in Indexes(w), w.win[j].state # "maximized"
         PROVE  v.win[j].state # "maximized"
    <3>1. j \in Slots /\ j # i
      BY <2>10, <2>2 DEF i
    <3>2. y.win[j].state # "maximized"
      BY <3>1, <2>15, <2>7, <2>b
    <3> QED BY <3>2, <2>13, <2>14 DEF Keeps
  <2> QED BY <2>13, <2>14, <2>15 DEF Grows, v
<1> QED BY <1>1, <1>2, <1>3

\* The key for the next window.
LEMMA FocusNextIsGood ==
  ASSUME NEW w, Good(w)
  PROVE  Good(wm_focus_next(w))
  BY FocusKeeps DEF wm_focus_next, Good

-----------------------------------------------------------------------------
\* The windows are hidden one after the other.
HiddenBy(w, f, n) ==
  f = [k \in 0 .. n |-> IF k = 0 THEN w ELSE Hiding(f[k - 1], k)]

\* The recursive function that hides the windows exists.
LEMMA HidingExists ==
  ASSUME NEW w, NEW n \in Nat
  PROVE  \E f : HiddenBy(w, f, n)
<1> DEFINE S == {k \in Nat : ~ \E f : HiddenBy(w, f, k)}
<1> SUFFICES S = {}
  OBVIOUS
<1> SUFFICES ASSUME S # {} PROVE FALSE
  OBVIOUS
<1>1. PICK k \in S : \A m \in S : k <= m
  BY LeastExists
<1>2. k # 0
  <2> SUFFICES ASSUME k = 0 PROVE FALSE
    OBVIOUS
  <2> DEFINE f == [j \in 0 .. 0 |-> w]
  <2>1. f = [j \in 0 .. 0 |-> IF j = 0 THEN w ELSE Hiding(f[j - 1], j)]
    OBVIOUS
  <2> QED BY <2>1, <1>1 DEF HiddenBy
<1>3. k - 1 \in Nat /\ ~ k <= k - 1
  BY <1>2
<1>4. k - 1 \notin S
  BY <1>1, <1>3
<1>5. PICK f : HiddenBy(w, f, k - 1)
  BY <1>3, <1>4
<1> DEFINE g == [j \in 0 .. k |-> IF j = k THEN Hiding(f[k - 1], k) ELSE f[j]]
<1>6. ASSUME NEW j \in 0 .. k
      PROVE  g[j] = IF j = 0 THEN w ELSE Hiding(g[j - 1], j)
  <2>1. CASE j = k
    <3>1. g[j - 1] = f[k - 1]
      BY <2>1, <1>3
    <3> QED BY <3>1, <2>1, <1>2
  <2>2. CASE j # k /\ j # 0
    <3>1. j \in 0 .. k - 1 /\ j - 1 \in 0 .. k /\ j - 1 # k
      BY <2>2
    <3>2. g[j - 1] = f[j - 1] /\ g[j] = f[j]
      BY <3>1, <2>2
    <3>3. f[j] = Hiding(f[j - 1], j)
      BY <3>1, <2>2, <1>5 DEF HiddenBy
    <3> QED BY <3>2, <3>3, <2>2
  <2>3. CASE j # k /\ j = 0
    <3>1. f[0] = w
      BY <1>3, <1>5 DEF HiddenBy
    <3> QED BY <3>1, <2>3
  <2> QED BY <2>1, <2>2, <2>3
<1>7. g = [j \in 0 .. k |-> IF j = 0 THEN w ELSE Hiding(g[j - 1], j)]
  BY <1>6
<1> HIDE DEF g
<1> QED BY <1>1, <1>7 DEF HiddenBy

\* After any number of windows are hidden the state is as good as before.
LEMMA HidingIsGood ==
  ASSUME NEW w, NEW f, NEW n \in Nat, Good(w), HiddenBy(w, f, n)
  PROVE  Good(f[n]) /\ f[n].count = w.count
<1> DEFINE S == {k \in 0 .. n : ~ (Good(f[k]) /\ f[k].count = w.count)}
<1> SUFFICES S = {}
  OBVIOUS
<1> SUFFICES ASSUME S # {} PROVE FALSE
  OBVIOUS
<1>1. PICK k \in S : \A m \in S : k <= m
  <2>1. S \in SUBSET Nat
    OBVIOUS
  <2> QED BY <2>1, LeastExists
<1>2. f[k] = IF k = 0 THEN w ELSE Hiding(f[k - 1], k)
  BY <1>1 DEF HiddenBy
<1>3. k # 0
  BY <1>1, <1>2
<1>4. k - 1 \in 0 .. n /\ ~ k <= k - 1
  BY <1>1, <1>3
<1>5. Good(f[k - 1]) /\ f[k - 1].count = w.count
  BY <1>1, <1>4
<1>6. f[k] = Hiding(f[k - 1], k)
  BY <1>2, <1>3
<1>7. Good(f[k]) /\ f[k].count = w.count
  BY <1>5, <1>6, MinimizeKeeps DEF Hiding, Keeps
<1> QED BY <1>1, <1>7

\* Hiding all windows.
LEMMA HiddenIsGood ==
  ASSUME Good(wm)
  PROVE  Good(Hidden) /\ Hidden.count = wm.count
<1> DEFINE f == CHOOSE g : HiddenBy(wm, g, wm.count)
<1>1. wm.count \in Nat
  BY IndexesAre DEF Good, Ordered
<1>2. HiddenBy(wm, f, wm.count)
  BY <1>1, HidingExists
<1>3. Hidden = f[wm.count]
  BY DEF Hidden, HiddenBy
<1> QED BY <1>1, <1>2, <1>3, HidingIsGood

\* Showing those that were hidden.
LEMMA ReshownIsGood ==
  ASSUME Good(wm)
  PROVE  Good(Reshown) /\ Reshown.count = wm.count
<1> DEFINE back == {i \in Slots : i \in shown.mask \cap Indexes(wm)
                                  /\ wm.win[i].state = "minimized"}
           f == [i \in Slots |-> IF i \in back THEN Restored(wm.win[i]) ELSE wm.win[i]]
           x == [wm EXCEPT !.win = f]
<1>1. wm \in WmRecords /\ Indexes(wm) \subseteq Slots
  BY IndexesAre DEF Good, Ordered
<1>2. wm.win \in [Slots -> WmWindows]
  BY <1>1 DEF WmRecords
<1>3. f \in [Slots -> WmWindows]
  BY <1>2, RestoredIs
<1>4. Reshown = x
  BY DEF Reshown
<1>5. \A i \in Slots : f[i] = wm.win[i] \/ f[i].state = "normal"
  BY <1>2, RestoredIs
<1> HIDE DEF f
<1>6. /\ x \in WmRecords /\ x.count = wm.count /\ x.order = wm.order
      /\ x.active = wm.active /\ x.win = f
  BY <1>1, <1>3 DEF WmRecords
<1> HIDE DEF x
<1>7. Indexes(x) = Indexes(wm) /\ Visible(wm) \subseteq Visible(x)
  BY <1>1, <1>5, <1>6 DEF Indexes, Visible
<1>8. Full(x)
  BY <1>1, <1>5, <1>6, <1>7 DEF Full, Good, Ordered
<1>9. Good(x)
  BY <1>6, <1>7, <1>8 DEF Good, Ordered, Topmost
<1> QED BY <1>4, <1>6, <1>9

-----------------------------------------------------------------------------
HandRecords == [left : BOOLEAN, drag : Nat, resize : Nat, snap : {"none", "side", "top", "bottom"},
                title : Nat, menu : Int]
HeldRecords == [drag : Nat, resize : Nat, menu : Nat]

\* Without keys during a gesture, what it holds is what it began with, and a
\* window that is resized is not maximised meanwhile.
Gestures ==
  /\ ~hand.left => hand.drag = NoIndex /\ hand.resize = NoIndex
  /\ hand.drag = held.drag /\ hand.resize = held.resize
  /\ hand.menu \notin {Closed, Desktop} => hand.menu = held.menu
  /\ hand.drag # NoIndex => hand.drag \in Indexes(wm)
  /\ hand.resize # NoIndex => /\ hand.resize \in Indexes(wm)
                             /\ wm.win[hand.resize].state # "maximized"

WmInv ==
  /\ Good(wm) /\ hand \in HandRecords /\ held \in HeldRecords
  /\ ~KeysInGestures => Gestures

\* No window at the start.
LEMMA WmStarts == WmInit => WmInv
<1> SUFFICES ASSUME WmInit PROVE WmInv
  OBVIOUS
<1>1. hand \in HandRecords /\ held \in HeldRecords /\ Gestures
  BY DEF WmInit, HandRecords, HeldRecords, Gestures, NoIndex, Closed, Desktop
<1>2. wm \in WmRecords /\ wm.count = 0 /\ wm.order = <<>> /\ wm.active = NoIndex
  <2>1. Vacant \in WmWindows
    BY DEF Vacant, WmWindows, States, Sizes
  <2>2. [i \in Slots |-> Vacant] \in [Slots -> WmWindows] /\ <<>> \in Seq(Nat) /\ 0 \in Counts
    BY <2>1, WmAssumption DEF Counts
  <2> QED BY <2>2 DEF WmInit, WmRecords, NoIndex
<1>3. Indexes(wm) = {} /\ Permutes(wm.order, wm.count)
  BY <1>2 DEF Indexes, Permutes
<1>4. Good(wm)
  BY <1>2, <1>3 DEF Good, Ordered, Topmost, Full
<1> QED BY <1>1, <1>4 DEF WmInv

\* Every step of the mouse and the keyboard keeps the invariant.
LEMMA WmSteps == WmInv /\ [WmNext]_wmVars => WmInv'
<1> SUFFICES ASSUME WmInv, [WmNext]_wmVars PROVE WmInv'
  OBVIOUS
<1> USE DEF NoIndex
<1>i. /\ Good(wm) /\ hand \in HandRecords /\ held \in HeldRecords
      /\ ~KeysInGestures => Gestures
  BY DEF WmInv
<1>w. wm \in WmRecords /\ 0 \notin Indexes(wm) /\ Indexes(wm) \subseteq Nat
      /\ Visible(wm) \subseteq Indexes(wm)
  BY <1>i, IndexesAre DEF Good, Ordered, Indexes
<1>p. ASSUME hand' = Pressed \/ \E t \in Nat : hand' = [Pressed EXCEPT !.title = t],
             Press, hand.menu = Closed, Good(wm'), UNCHANGED held
      PROVE  WmInv'
  <2>1. /\ hand' \in HandRecords /\ hand'.drag = hand.drag /\ hand'.resize = hand.resize
        /\ hand'.menu = hand.menu /\ hand'.left
    BY <1>i, <1>p DEF HandRecords, Pressed
  <2>2. ~KeysInGestures => Gestures'
    BY <1>i, <1>p, <2>1 DEF Gestures, Press
  <2> QED BY <1>i, <1>p, <2>1, <2>2 DEF WmInv
<1>k. ASSUME Keeps(wm, wm') \/ Grows(wm, wm'), Good(wm'), UNCHANGED <<hand, held>>
      PROVE  WmInv'
  <2>1. Grows(wm, wm')
    BY <1>k DEF Keeps, Grows, Indexes
  <2>2. ~KeysInGestures => Gestures'
    BY <1>i, <1>k, <2>1 DEF Gestures, Grows
  <2> QED BY <1>i, <1>k, <2>2 DEF WmInv
<1>r. ASSUME AtRest \/ KeysInGestures, Good(wm'), UNCHANGED hand,
             held' \in HeldRecords, AtRest => held'.drag = held.drag /\ held'.resize = held.resize
      PROVE  WmInv'
  <2>1. ~KeysInGestures => Gestures'
    BY <1>i, <1>r DEF Gestures, AtRest, Closed
  <2> QED BY <1>i, <1>r, <2>1 DEF WmInv
<1>1. ASSUME NEW unique \in BOOLEAN, gui_open_window(unique) PROVE WmInv'
  BY <1>1, <1>i, <1>k, OpenIsGood DEF gui_open_window, Becomes
<1>2. ASSUME KeyCloses PROVE WmInv'
  <2> DEFINE i == wm.active
  <2>1. i \in Nat
    BY <1>w, WmAssumption DEF WmRecords, Counts
  <2>2. Good(wm')
    BY <1>2, <1>i, CloseIsGood DEF KeyCloses
  <2>3. ASSUME NEW j \in Nat PROVE Moved(j, i) \in Nat /\ Moved(0, i) = 0
    BY <2>1 DEF Moved, Lowered
  <2>4. /\ held' \in HeldRecords
        /\ held'.drag = held.drag \/ held'.drag = Moved(held.drag, i)
        /\ held'.resize = held.resize \/ held'.resize = Moved(held.resize, i)
    <3>1. CASE i = 0
      BY <3>1, <1>2, <1>i DEF KeyCloses, HeldWithout
    <3>2. CASE i # 0
      <4>1. DOMAIN held = {"drag", "resize", "menu"}
        BY <1>i DEF HeldRecords
      <4>2. held' = [what \in {"drag", "resize", "menu"} |-> Moved(held[what], i)]
        BY <3>2, <4>1, <1>2 DEF KeyCloses, HeldWithout
      <4>3. held.drag \in Nat /\ held.resize \in Nat /\ held.menu \in Nat
        BY <1>i DEF HeldRecords
      <4>4. held' = [drag |-> Moved(held.drag, i), resize |-> Moved(held.resize, i),
                     menu |-> Moved(held.menu, i)]
        BY <4>2
      <4> QED BY <4>3, <4>4, <2>3 DEF HeldRecords
    <3> QED BY <3>1, <3>2
  <2>5. ASSUME AtRest, ~KeysInGestures
        PROVE  held'.drag = held.drag /\ held'.resize = held.resize
    <3>1. held.drag = 0 /\ held.resize = 0
      BY <2>5, <1>i DEF Gestures, AtRest
    <3> QED BY <3>1, <2>3, <2>4
  <2> HIDE DEF i
  <2>6. ~KeysInGestures => Gestures'
    BY <1>2, <1>i, <2>5 DEF KeyCloses, KeyComes, Gestures, AtRest, Closed
  <2> QED BY <1>2, <1>i, <2>2, <2>4, <2>6 DEF WmInv, KeyCloses
<1>3. ASSUME KeyFocusesNext PROVE WmInv'
  BY <1>3, <1>i, <1>r, FocusNextIsGood DEF KeyFocusesNext, KeyComes, Becomes
<1>4. ASSUME KeyMaximises PROVE WmInv'
  BY <1>4, <1>i, <1>r, ToggleIsGood DEF KeyMaximises, KeyComes, Becomes
<1>5. ASSUME NEW i \in Visible(wm) \cup {Desktop}, MenuOpens(i) PROVE WmInv'
  <2>1. i \in Int /\ (i # Desktop => i \in Nat)
    BY <1>w DEF Desktop
  <2>2. /\ hand' = [hand EXCEPT !.menu = i] /\ wm' = wm
        /\ held' = [held EXCEPT !.menu = IF i = Desktop THEN 0 ELSE i]
    BY <1>5 DEF MenuOpens
  <2>3. /\ hand' \in HandRecords /\ hand'.left = hand.left /\ hand'.drag = hand.drag
        /\ hand'.resize = hand.resize /\ hand'.menu = i
    BY <1>i, <2>1, <2>2 DEF HandRecords
  <2>4. /\ held' \in HeldRecords /\ held'.drag = held.drag /\ held'.resize = held.resize
        /\ i # Desktop => held'.menu = i
    BY <1>i, <2>1, <2>2 DEF HeldRecords
  <2>5. ~KeysInGestures => Gestures'
    BY <1>i, <2>2, <2>3, <2>4 DEF Gestures
  <2> QED BY <1>i, <2>2, <2>3, <2>4, <2>5 DEF WmInv
<1>m. ASSUME NEW w, MenuActs(w), Good(w) PROVE WmInv'
  <2>1. /\ hand' = [Pressed EXCEPT !.menu = Closed] /\ held' = [held EXCEPT !.menu = 0]
        /\ wm' = w /\ ~hand.left
    BY <1>m DEF MenuActs, Press
  <2>2. /\ hand' \in HandRecords /\ hand'.drag = hand.drag
        /\ hand'.resize = hand.resize /\ hand'.menu = Closed
    <3>1. Closed \in Int
      BY DEF Closed
    <3> QED BY <3>1, <1>i, <2>1 DEF HandRecords, Pressed
  <2>3. /\ held' \in HeldRecords /\ held'.drag = held.drag /\ held'.resize = held.resize
    BY <1>i, <2>1 DEF HeldRecords
  <2>4. ~KeysInGestures => Gestures'
    BY <1>i, <2>1, <2>2, <2>3 DEF Gestures
  <2> QED BY <1>m, <2>1, <2>2, <2>3, <2>4 DEF WmInv
<1>6. ASSUME MenuIsMissed PROVE WmInv'
  BY <1>6, <1>i, <1>m DEF MenuIsMissed
<1>7. ASSUME WindowMenu PROVE WmInv'
  BY <1>7, <1>i, <1>m, MinimizeKeeps, ToggleIsGood, CloseIsGood DEF WindowMenu, MenuItem
<1>8. ASSUME NEW i \in Indexes(wm),
             \/ PressCloses(i) \/ PressMinimises(i) \/ PressMaximises(i)
             \/ PressContents(i) \/ PressTaskbar(i) \/ PressNothing
      PROVE  WmInv'
  <2>1. PICK w : Good(w) /\ PressOnly(w)
    BY <1>8, <1>i, CloseIsGood, MinimizeKeeps, ToggleIsGood, FocusKeeps
    DEF PressCloses, PressMinimises, PressMaximises, PressContents, PressTaskbar, PressNothing,
        Good
  <2> QED BY <2>1, <1>p DEF PressOnly
<1>9. ASSUME NEW i \in Visible(wm), PressBorder(i) PROVE WmInv'
  <2>1. /\ ~hand.left /\ hand.menu = Closed /\ wm.win[i].state = "normal"
        /\ wm' = wm_focus_window(wm, i) /\ hand' = [Pressed EXCEPT !.resize = i]
        /\ held' = [held EXCEPT !.resize = i] /\ i \in Nat /\ i \in Indexes(wm)
    BY <1>9, <1>w DEF PressBorder, Press
  <2>2. Good(wm') /\ Keeps(wm, wm')
    BY <2>1, <1>i, FocusKeeps DEF Good
  <2>3. /\ hand' \in HandRecords /\ hand'.left /\ hand'.drag = hand.drag
        /\ hand'.resize = i /\ hand'.menu = Closed
    BY <1>i, <2>1 DEF HandRecords, Pressed
  <2>4. /\ held' \in HeldRecords /\ held'.drag = held.drag /\ held'.resize = i
    BY <1>i, <2>1 DEF HeldRecords
  <2>5. i \in Indexes(wm') /\ wm'.win[i].state # "maximized"
    BY <2>1, <2>2 DEF Keeps, Indexes
  <2>6. ~KeysInGestures => Gestures'
    BY <1>i, <2>1, <2>3, <2>4, <2>5 DEF Gestures
  <2> QED BY <2>2, <2>3, <2>4, <2>6 DEF WmInv
<1>10. ASSUME NEW i \in Visible(wm), PressTitleAgain(i) PROVE WmInv'
  <2>1. Good(wm')
    BY <1>10, <1>i, <1>w, FocusKeeps, ToggleIsGood DEF PressTitleAgain, Good
  <2> QED BY <1>10, <1>p, <2>1 DEF PressTitleAgain
<1>11. ASSUME NEW i \in Visible(wm), PressTitleBar(i) PROVE WmInv'
  <2> DEFINE w == wm_focus_window(wm, i)
  <2>1. /\ ~hand.left /\ hand.menu = Closed /\ i \in Nat /\ i \in Indexes(wm)
        /\ wm' = IF w.win[i].state = "maximized" THEN wm_restore_window(w, i) ELSE w
        /\ hand' = [Pressed EXCEPT !.drag = i, !.title = i, !.snap = "none"]
        /\ held' = [held EXCEPT !.drag = i]
    BY <1>11, <1>w DEF PressTitleBar, Press
  <2>2. Good(w) /\ w.count = wm.count
    BY <1>i, FocusKeeps DEF Good, Keeps
  <2> HIDE DEF w
  <2>3. Good(wm') /\ wm'.count = wm.count
    BY <2>1, <2>2, RestoreIsGood DEF Keeps
  <2>4. /\ hand' \in HandRecords /\ hand'.left /\ hand'.drag = i
        /\ hand'.resize = hand.resize /\ hand'.menu = Closed
    BY <1>i, <2>1 DEF HandRecords, Pressed
  <2>5. /\ held' \in HeldRecords /\ held'.drag = i /\ held'.resize = held.resize
    BY <1>i, <2>1 DEF HeldRecords
  <2>6. i \in Indexes(wm')
    BY <2>1, <2>3 DEF Indexes
  <2>7. ~KeysInGestures => Gestures'
    BY <1>i, <2>1, <2>4, <2>5, <2>6 DEF Gestures
  <2> QED BY <2>3, <2>4, <2>5, <2>7 DEF WmInv
<1>12. ASSUME PressShowDesktop PROVE WmInv'
  <2>1. Good(wm')
    BY <1>12, <1>i, HiddenIsGood, ReshownIsGood DEF PressShowDesktop
  <2> QED BY <1>12, <1>p, <2>1 DEF PressShowDesktop
<1>13. ASSUME NEW hint \in {"none", "side", "top", "bottom"}, DragMoves(hint) PROVE WmInv'
  <2>1. /\ hand.left /\ hand.resize = 0 /\ wm' = wm_focus_window(wm, hand.drag)
        /\ hand' = [hand EXCEPT !.snap = hint] /\ held' = held
    BY <1>13 DEF DragMoves
  <2>2. Good(wm') /\ wm'.count = wm.count
    BY <2>1, <1>i, FocusKeeps DEF Good, Keeps
  <2>3. /\ hand' \in HandRecords /\ hand'.left /\ hand'.drag = hand.drag
        /\ hand'.resize = hand.resize /\ hand'.menu = hand.menu
    BY <1>i, <2>1 DEF HandRecords
  <2>4. Indexes(wm') = Indexes(wm)
    BY <2>2 DEF Indexes
  <2>5. ~KeysInGestures => Gestures'
    BY <1>i, <2>1, <2>3, <2>4 DEF Gestures
  <2> QED BY <1>i, <2>1, <2>2, <2>3, <2>5 DEF WmInv
<1>14. ASSUME ResizeMoves PROVE WmInv'
  <2> DEFINE i == hand.resize
             b == [wm.win[i] EXCEPT !.size = "own"]
             f == [wm.win EXCEPT ![i] = b]
  <2>1. i \in Indexes(wm) /\ wm' = [wm EXCEPT !.win[i].size = "own"] /\ UNCHANGED <<hand, held>>
    BY <1>14 DEF ResizeMoves
  <2>2. i \in Slots /\ wm.win \in [Slots -> WmWindows] /\ Indexes(wm) \subseteq Slots
    BY <1>w, <2>1, IndexesAre DEF WmRecords
  <2>3. b \in WmWindows /\ b.state = wm.win[i].state
    <3>1. wm.win[i] \in WmWindows
      BY <2>2
    <3> QED BY <3>1 DEF WmWindows, Sizes
  <2>4. wm' = [wm EXCEPT !.win = f]
    BY <2>1
  <2> HIDE DEF b, i
  <2>5. f \in [Slots -> WmWindows] /\ f[i] = b /\ \A j \in Slots : j # i => f[j] = wm.win[j]
    BY <2>2, <2>3
  <2> HIDE DEF f
  <2>6. /\ wm' \in WmRecords /\ wm'.count = wm.count /\ wm'.order = wm.order
        /\ wm'.active = wm.active /\ wm'.win = f
    BY <1>w, <2>4, <2>5 DEF WmRecords
  <2>7. \A j \in Indexes(wm) : f[j].state = wm.win[j].state
    BY <2>2, <2>3, <2>5
  <2>8. Indexes(wm') = Indexes(wm) /\ Visible(wm') = Visible(wm)
    BY <2>6, <2>7 DEF Indexes, Visible
  <2>9. Full(wm')
    <3> SUFFICES ASSUME ~KeysInGestures, NEW j \in Indexes(wm), f[j].state = "maximized"
                 PROVE  f[j].size = "full"
      BY <2>6, <2>8 DEF Full
    <3>1. wm.win[i].state # "maximized"
      BY <1>i, <1>w, <2>1 DEF Gestures, i
    <3>2. j # i /\ j \in Slots
      BY <3>1, <2>2, <2>7
    <3> QED BY <3>2, <2>5, <2>7, <1>i DEF Good, Ordered, Full
  <2>10. Good(wm')
    BY <1>i, <2>6, <2>8, <2>9 DEF Good, Ordered, Topmost
  <2>11. Keeps(wm, wm')
    BY <2>6, <2>7 DEF Keeps
  <2> QED BY <2>1, <2>10, <2>11, <1>k
<1>15. ASSUME LeftIsReleased PROVE WmInv'
  <2>1. /\ hand' = [hand EXCEPT !.left = FALSE, !.drag = 0, !.resize = 0, !.snap = "none"]
        /\ held' = [held EXCEPT !.drag = 0, !.resize = 0]
    BY <1>15 DEF LeftIsReleased
  <2>2. Good(wm')
    BY <1>15, <1>i, MinimizeKeeps, SnapIsGood DEF LeftIsReleased
  <2>3. /\ hand' \in HandRecords /\ hand'.drag = 0 /\ hand'.resize = 0
        /\ hand'.menu = hand.menu
    BY <1>i, <2>1 DEF HandRecords
  <2>4. /\ held' \in HeldRecords /\ held'.drag = 0 /\ held'.resize = 0
        /\ held'.menu = held.menu
    BY <1>i, <2>1 DEF HeldRecords
  <2>5. ~KeysInGestures => Gestures'
    BY <1>i, <2>3, <2>4 DEF Gestures
  <2> QED BY <2>2, <2>3, <2>4, <2>5 DEF WmInv
<1>16. ASSUME UNCHANGED wmVars PROVE WmInv'
  BY <1>16, <1>i, <1>k DEF wmVars, Keeps
<1>17. ASSUME PressNothing PROVE WmInv'
  BY <1>17, <1>i, <1>p DEF PressNothing, PressOnly
<1> QED BY <1>1, <1>2, <1>3, <1>4, <1>5, <1>6, <1>7, <1>8, <1>9, <1>10, <1>11, <1>12, <1>13,
           <1>14, <1>15, <1>16, <1>17, <1>w DEF WmNext

\* The invariant of the windows of the desktop always holds.
LEMMA WmInvHolds == WmSpec => []WmInv
<1>1. WmInit => WmInv
  BY WmStarts
<1>2. WmInv /\ [WmNext]_wmVars => WmInv'
  BY WmSteps
<1> QED BY <1>1, <1>2, PTL DEF WmSpec

\* What the invariant says of the order, the focus and gestures.
LEMMA InvGivesOrder == WmInv => OrderIsPermutation /\ ActiveIsTop /\ GesturesKeepWindow
<1> SUFFICES ASSUME WmInv PROVE OrderIsPermutation /\ ActiveIsTop /\ GesturesKeepWindow
  OBVIOUS
<1>1. Permutes(wm.order, wm.count) /\ Topmost(wm)
  BY DEF WmInv, Good, Ordered
<1>2. Range(wm.order) = Indexes(wm) /\ Len(wm.order) = wm.count
  <2>1. DOMAIN wm.order = 1 .. wm.count /\ Len(wm.order) = wm.count
    BY <1>1 DEF Permutes
  <2>2. /\ \A n \in 1 .. wm.count : wm.order[n] \in 1 .. wm.count
        /\ \A i \in 1 .. wm.count : \E n \in 1 .. wm.count : wm.order[n] = i
    BY <1>1 DEF Permutes
  <2>3. Range(wm.order) = {wm.order[n] : n \in 1 .. wm.count}
    BY <2>1 DEF Range
  <2> QED BY <2>1, <2>2, <2>3 DEF Indexes
<1>3. GesturesKeepWindow
  BY DEF WmInv, Gestures, GesturesKeepWindow
<1> QED BY <1>1, <1>2, <1>3 DEF OrderIsPermutation, ActiveIsTop, Topmost

\* Whatever comes between a press and its release, z_order (gui/wm.c) loses no
\* window, and the window that gets the keys is on top and to be seen.
THEOREM OrderAlwaysComplete == WmSpec => [](OrderIsPermutation /\ ActiveIsTop)
  BY WmInvHolds, InvGivesOrder, PTL

\* Without keys during a gesture, a drag, a resize and a window's menu act on the
\* window they were begun on though indexes move, and a maximised window fills
\* the screen.
THEOREM WmIsSafe == KeysInGestures = FALSE => (WmSpec => []WmSafe)
<1> SUFFICES ASSUME KeysInGestures = FALSE PROVE WmSpec => []WmSafe
  OBVIOUS
<1>1. WmInv => WmSafe
  <2> SUFFICES ASSUME WmInv PROVE WmSafe
    OBVIOUS
  <2>1. OrderIsPermutation /\ ActiveIsTop /\ GesturesKeepWindow
    BY InvGivesOrder
  <2>2. MaximizedIsFull
    BY DEF WmInv, Good, Ordered, Full, MaximizedIsFull
  <2>3. WmTypeOK
    BY DEF WmInv, Good, Ordered, WmRecords, WmTypeOK, Counts, WmWindows, Sizes
  <2> QED BY <2>1, <2>2, <2>3 DEF WmSafe
<1> QED BY <1>1, WmInvHolds, PTL

-----------------------------------------------------------------------------
\* The desktop (tools/gui.c, gui/wm.c, gui/winsrv.c): presses and gestures keep
\* to their window, events arrive in order, handles name their own windows and
\* the screen shows them, for any number of each, if the loop is not preempted
\* within a push or a blit, no key comes during a gesture, memory is left for
\* one surface more than there are slots, and generations do not run out.
THEOREM DesktopIsSafe ==
  /\ PushesArePreempted = FALSE /\ BlitsArePreempted = FALSE /\ KeysInGestures = FALSE
  /\ EnoughMemory /\ MaxWindow <= GenerationMax
  => (DesktopSpec => []DesktopSafe)
  BY PointerIsSafe, RingIsSafe, WmIsSafe, WindowsAreSafe, PTL DEF DesktopSpec, DesktopSafe
=============================================================================
