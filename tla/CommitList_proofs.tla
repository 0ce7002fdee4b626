------------------------- MODULE CommitList_proofs -------------------------
(***************************************************************************)
(* Proofs about CommitList: what list_add and list_del_init do to the      *)
(* links, and that the list stays a ring as long as they do not overlap.   *)
(***************************************************************************)
EXTENDS CommitList, FiniteSetTheorems, WellFoundedInduction, TLAPS

----------------------------------------------------------------------------
(* Rings. *)

LEMMA LeastElement ==
    ASSUME NEW T, T \subseteq Nat, T # {}
    PROVE  \E x \in T : \A y \in T : x <= y
<1> DEFINE R == {ss \in Nat \X Nat : ss[1] < ss[2]}
<1>1. IsWellFoundedOn(R, Nat)
  BY NatLessThanWellFounded DEF OpToRel
<1>2. \E x \in T : \A y \in T : ~(<<y, x>> \in R)
  <2> HIDE DEF R
  <2> QED
    BY <1>1, WFMin
<1>3. PICK x \in T : \A y \in T : ~(<<y, x>> \in R)
  BY <1>2
<1>4. ASSUME NEW y \in T PROVE x <= y
  <2>1. ~(<<y, x>> \in R) /\ <<y, x>> \in Nat \X Nat
    BY <1>3
  <2>2. ~(y < x)
    BY <2>1
  <2>3. QED
    BY <2>2
<1>5. QED
  BY <1>4

\* The head and the entries.
On(q) == Elems(q) \cup {Head0}

LEMMA BufFacts == Head0 = 0 /\ Bufs \subseteq Nat \ {0} /\ IsFiniteSet(Bufs) /\ Cardinality(Bufs) = NumBufs
BY SizesAssumption, FS_Interval DEF Head0, Bufs

LEMMA OrderFacts ==
    ASSUME NEW q \in Orders
    PROVE  /\ q \in Seq(Bufs) /\ Len(q) \in 0 .. NumBufs /\ DOMAIN q = 1 .. Len(q)
           /\ \A i \in 1 .. Len(q) : q[i] \in Bufs
           /\ Elems(q) \subseteq Bufs /\ Head0 \notin Elems(q)
<1>1. PICK n \in 0 .. NumBufs : q \in [1 .. n -> Bufs]
  BY DEF Orders
<1>2. n \in Nat /\ q \in Seq(Bufs) /\ Len(q) = n
  BY <1>1, SizesAssumption
<1>3. QED
  BY <1>1, <1>2, BufFacts DEF Elems

\* An order of distinct buffers has no more entries than there are buffers.
LEMMA DistinctIsOrder ==
    ASSUME NEW q \in Seq(Bufs), Distinct(q)
    PROVE  q \in Orders
<1>1. Len(q) \in Nat /\ q \in [1 .. Len(q) -> Bufs]
  OBVIOUS
<1>2. q \in Injection(1 .. Len(q), Bufs)
  BY <1>1 DEF Distinct, Injection, IsInjective
<1>3. Cardinality(1 .. Len(q)) = Len(q)
  BY <1>1, FS_Interval
<1>4. Len(q) <= NumBufs
  BY <1>2, <1>3, BufFacts, FS_Injection
<1>5. Len(q) \in 0 .. NumBufs
  BY <1>1, <1>4, SizesAssumption
<1>6. QED
  BY <1>1, <1>5 DEF Orders

LEMMA EntryFacts ==
    ASSUME NEW q \in Orders
    PROVE  /\ Entry(q, 0) = Head0 /\ Entry(q, Len(q) + 1) = Head0
           /\ \A k \in 0 .. Len(q) : Entry(q, k) \in On(q)
           /\ \A k \in 1 .. Len(q) : Entry(q, k) = q[k] /\ q[k] \in Elems(q)
           /\ \A x \in Elems(q) : \E k \in 1 .. Len(q) : x = q[k]
           /\ \A x \in On(q) : \E k \in 0 .. Len(q) : x = Entry(q, k)
           /\ Distinct(q) => \A j, k \in 0 .. Len(q) : Entry(q, j) = Entry(q, k) => j = k
<1>1. Len(q) \in Nat /\ DOMAIN q = 1 .. Len(q) /\ Head0 \notin Elems(q)
  BY OrderFacts
<1>2. /\ Entry(q, 0) = Head0 /\ Entry(q, Len(q) + 1) = Head0
      /\ \A k \in 1 .. Len(q) : Entry(q, k) = q[k] /\ q[k] \in Elems(q)
      /\ \A x \in Elems(q) : \E k \in 1 .. Len(q) : x = q[k]
  BY <1>1 DEF Entry, Elems
<1>3. \A k \in 0 .. Len(q) : k = 0 \/ k \in 1 .. Len(q)
  BY <1>1
<1>4. \A k \in 0 .. Len(q) : Entry(q, k) \in On(q)
  BY <1>2, <1>3 DEF On
<1>5. \A x \in On(q) : \E k \in 0 .. Len(q) : x = Entry(q, k)
  <2>1. ASSUME NEW x \in Elems(q) PROVE \E k \in 0 .. Len(q) : x = Entry(q, k)
    <3>1. PICK k \in 1 .. Len(q) : x = q[k]
      BY <1>2
    <3>2. k \in 0 .. Len(q) /\ Entry(q, k) = q[k]
      BY <1>1, <1>2
    <3>3. QED
      BY <3>1, <3>2
  <2>2. 0 \in 0 .. Len(q)
    BY <1>1
  <2>3. QED
    BY <1>2, <2>1, <2>2 DEF On
<1>6. ASSUME Distinct(q), NEW j \in 0 .. Len(q), NEW k \in 0 .. Len(q), Entry(q, j) = Entry(q, k)
      PROVE  j = k
  <2>1. CASE j = 0 \/ k = 0
    BY <1>1, <1>2, <1>3, <1>6, <2>1
  <2>2. CASE j \in 1 .. Len(q) /\ k \in 1 .. Len(q)
    BY <1>1, <1>2, <1>6, <2>2 DEF Distinct
  <2>3. QED
    BY <1>3, <2>1, <2>2
<1>7. QED
  BY <1>2, <1>4, <1>5, <1>6

\* Along a ring next is a permutation of the head and the entries.
LEMMA RingFacts ==
    ASSUME NEW f, NEW q \in Orders, Ring(f, q)
    PROVE  /\ \A x \in On(q) : f[x] \in On(q)
           /\ \A x, y \in On(q) : f[x] = f[y] => x = y
           /\ \A x \in On(q) : \E y \in On(q) : f[y] = x
           /\ \A x \in Elems(q) : f[x] # x
<1> DEFINE n == Len(q)
<1>1. n \in Nat /\ Head0 \notin Elems(q) /\ Distinct(q)
      /\ \A k \in 0 .. n : f[Entry(q, k)] = Entry(q, k + 1)
  BY OrderFacts DEF Ring, Linked
<1> DEFINE Nx(k) == IF k = n THEN 0 ELSE k + 1
<1>2. \A k \in 0 .. n : Nx(k) \in 0 .. n /\ f[Entry(q, k)] = Entry(q, Nx(k))
  BY <1>1, EntryFacts
<1>3. \A j, k \in 0 .. n : (Nx(j) = Nx(k) => j = k) /\ (j # 0 => Nx(j) # j)
  BY <1>1
<1>4. \A k \in 0 .. n : \E j \in 0 .. n : Nx(j) = k
  <2>1. ASSUME NEW k \in 0 .. n PROVE \E j \in 0 .. n : Nx(j) = k
    <3>1. CASE k = 0
      BY <1>1, <3>1
    <3>2. CASE k # 0
      <4>1. k - 1 \in 0 .. n /\ Nx(k - 1) = k
        BY <1>1, <3>2
      <4>2. QED
        BY <4>1
    <3>3. QED
      BY <3>1, <3>2
  <2>2. QED
    BY <2>1
<1> HIDE DEF n, Nx
<1>5. /\ \A x \in On(q) : \E k \in 0 .. n : x = Entry(q, k)
      /\ \A k \in 0 .. n : Entry(q, k) \in On(q)
      /\ \A j, k \in 0 .. n : Entry(q, j) = Entry(q, k) => j = k
      /\ Entry(q, 0) = Head0
  BY <1>1, EntryFacts DEF n
<1>6. \A x \in On(q) : f[x] \in On(q)
  BY <1>2, <1>5
<1>7. ASSUME NEW x \in On(q), NEW y \in On(q), f[x] = f[y] PROVE x = y
  <2>1. PICK j \in 0 .. n : x = Entry(q, j)
    BY <1>5
  <2>2. PICK k \in 0 .. n : y = Entry(q, k)
    BY <1>5
  <2>3. Nx(j) = Nx(k)
    BY <1>2, <1>5, <1>7, <2>1, <2>2
  <2>4. QED
    BY <1>3, <2>1, <2>2, <2>3
<1>8. ASSUME NEW x \in On(q) PROVE \E y \in On(q) : f[y] = x
  <2>1. PICK k \in 0 .. n : x = Entry(q, k)
    BY <1>5
  <2>2. PICK j \in 0 .. n : Nx(j) = k
    BY <1>4
  <2>3. QED
    BY <1>2, <1>5, <2>1, <2>2
<1>9. ASSUME NEW x \in Elems(q) PROVE f[x] # x
  <2>1. x \in On(q) /\ x # Head0
    BY <1>1 DEF On
  <2>2. PICK k \in 0 .. n : x = Entry(q, k)
    BY <1>5, <2>1
  <2>3. k # 0
    BY <1>5, <2>1, <2>2
  <2>4. Nx(k) # k
    BY <1>3, <2>3
  <2>5. QED
    BY <1>2, <1>5, <2>2, <2>4
<1>10. QED
  BY <1>6, <1>7, <1>8, <1>9

\* next determines the ring: it has one order.
LEMMA RingsAgree ==
    ASSUME NEW f, NEW q \in Orders, NEW r \in Orders, Ring(f, q), Ring(f, r)
    PROVE  /\ \A k \in 0 .. Len(q) : k <= Len(r) => Entry(q, k) = Entry(r, k)
           /\ Len(r) <= Len(q)
<1>1. /\ Len(q) \in Nat /\ Len(r) \in Nat
      /\ \A k \in 0 .. Len(q) : f[Entry(q, k)] = Entry(q, k + 1)
      /\ \A k \in 0 .. Len(r) : f[Entry(r, k)] = Entry(r, k + 1)
  BY OrderFacts DEF Ring, Linked
<1> DEFINE T == {k \in 0 .. Len(q) : k <= Len(r) /\ Entry(q, k) # Entry(r, k)}
<1>2. ASSUME T # {} PROVE FALSE
  <2>1. T \subseteq Nat
    BY <1>1
  <2>2. PICK k \in T : \A y \in T : k <= y
    <3> HIDE DEF T
    <3> QED
      BY <1>2, <2>1, LeastElement
  <2>3. k \in 0 .. Len(q) /\ k \in 0 .. Len(r) /\ Entry(q, k) # Entry(r, k)
    BY <1>1, <2>2
  <2>4. k # 0
    BY <2>3, EntryFacts
  <2>5. k - 1 \in 0 .. Len(q) /\ k - 1 \in 0 .. Len(r) /\ k - 1 \notin T /\ (k - 1) + 1 = k
    BY <1>1, <2>2, <2>3, <2>4
  <2>6. Entry(q, k - 1) = Entry(r, k - 1)
    BY <1>1, <2>5
  <2>7. Entry(q, k) = Entry(r, k)
    BY <1>1, <2>5, <2>6
  <2>8. QED
    BY <2>3, <2>7
<1>3. \A k \in 0 .. Len(q) : k <= Len(r) => Entry(q, k) = Entry(r, k)
  BY <1>2
<1>4. ASSUME Len(q) < Len(r) PROVE FALSE
  <2> DEFINE n == Len(q)
  <2>1. n \in 0 .. Len(q) /\ n \in 0 .. Len(r) /\ n <= Len(r) /\ n + 1 \in 1 .. Len(r)
    BY <1>1, <1>4
  <2>2. Entry(q, n + 1) = Entry(r, n + 1)
    BY <1>1, <1>3, <2>1
  <2>3. Entry(q, n + 1) = Head0 /\ Entry(r, n + 1) \in Elems(r)
    BY <2>1, EntryFacts
  <2>4. QED
    BY <2>2, <2>3, OrderFacts
<1>5. QED
  BY <1>1, <1>3, <1>4

LEMMA RingUnique ==
    ASSUME NEW f, NEW q \in Orders, NEW r \in Orders, Ring(f, q), Ring(f, r)
    PROVE  q = r
<1>1. Len(q) <= Len(r) /\ Len(r) <= Len(q)
  BY RingsAgree
<1>2. Len(q) \in Nat /\ Len(r) = Len(q)
  BY <1>1, OrderFacts
<1>3. \A k \in 0 .. Len(q) : Entry(q, k) = Entry(r, k)
  BY <1>2, RingsAgree
<1>4. \A k \in 1 .. Len(q) : q[k] = r[k]
  BY <1>2, <1>3, EntryFacts
<1>5. q \in [1 .. Len(q) -> Bufs] /\ r \in [1 .. Len(q) -> Bufs]
  BY <1>2, OrderFacts
<1>6. QED
  BY <1>4, <1>5

LEMMA ChainIs ==
    ASSUME NEW q \in Orders, Ring(next, q)
    PROVE  Chain = q /\ IsRing
<1>1. Chain \in Orders /\ Ring(next, Chain)
  BY DEF Chain
<1>2. QED
  BY <1>1, RingUnique DEF IsRing

\* Links elsewhere than on the ring do not matter.
LEMMA RingKept ==
    ASSUME NEW f, NEW g, NEW q \in Orders, Ring(f, q), \A x \in On(q) : g[x] = f[x]
    PROVE  Ring(g, q)
BY EntryFacts DEF Ring, Linked

\* list_add: b comes first.
LEMMA RingPushed ==
    ASSUME NEW f, NEW g, NEW q \in Orders, Ring(f, q), NEW b \in Bufs, b \notin Elems(q),
           g[Head0] = b, g[b] = f[Head0], \A x \in Elems(q) : g[x] = f[x]
    PROVE  /\ <<b>> \o q \in Orders /\ Ring(g, <<b>> \o q)
           /\ Elems(<<b>> \o q) = Elems(q) \cup {b}
<1> DEFINE r == <<b>> \o q
<1>1. q \in Seq(Bufs) /\ Len(q) \in Nat /\ DOMAIN q = 1 .. Len(q)
  BY OrderFacts
<1>2. /\ r \in Seq(Bufs) /\ Len(r) = Len(q) + 1 /\ DOMAIN r = 1 .. Len(q) + 1 /\ r[1] = b
      /\ \A k \in 1 .. Len(q) : r[k + 1] = q[k]
  BY <1>1
<1> HIDE DEF r
<1>3. \A k \in 1 .. Len(q) + 1 : k = 1 \/ (k - 1 \in 1 .. Len(q) /\ r[k] = q[k - 1])
  <2>1. ASSUME NEW k \in 1 .. Len(q) + 1, k # 1 PROVE k - 1 \in 1 .. Len(q) /\ (k - 1) + 1 = k
    BY <1>1, <2>1
  <2>2. QED
    BY <1>2, <2>1
<1>4. Elems(r) = Elems(q) \cup {b}
  <2>1. ASSUME NEW x \in Elems(r) PROVE x \in Elems(q) \cup {b}
    <3>1. PICK k \in 1 .. Len(q) + 1 : x = r[k]
      BY <1>2 DEF Elems
    <3>2. QED
      BY <1>1, <1>2, <1>3, <3>1 DEF Elems
  <2>2. b \in Elems(r)
    BY <1>1, <1>2 DEF Elems
  <2>3. ASSUME NEW x \in Elems(q) PROVE x \in Elems(r)
    <3>1. PICK k \in 1 .. Len(q) : x = q[k]
      BY <1>1 DEF Elems
    <3>2. k + 1 \in 1 .. Len(q) + 1
      BY <1>1
    <3>3. QED
      BY <1>2, <3>1, <3>2 DEF Elems
  <2>4. QED
    BY <2>1, <2>2, <2>3
<1>5. Distinct(r)
  <2>1. Distinct(q) /\ \A k \in 1 .. Len(q) : q[k] # b
    BY <1>1 DEF Ring, Elems
  <2>2. ASSUME NEW i \in 1 .. Len(q) + 1, NEW j \in 1 .. Len(q) + 1, r[i] = r[j] PROVE i = j
    <3>1. CASE i = 1 \/ j = 1
      BY <1>2, <1>3, <2>1, <2>2, <3>1
    <3>2. CASE i # 1 /\ j # 1
      <4>1. i - 1 \in 1 .. Len(q) /\ j - 1 \in 1 .. Len(q) /\ q[i - 1] = q[j - 1]
        BY <1>3, <2>2, <3>2
      <4>2. i - 1 = j - 1
        BY <1>1, <2>1, <4>1 DEF Distinct
      <4>3. QED
        BY <4>2
    <3>3. QED
      BY <3>1, <3>2
  <2>3. QED
    BY <1>2, <2>2 DEF Distinct
<1>6. r \in Orders
  BY <1>2, <1>5, DistinctIsOrder
<1>7. Linked(g, r)
  <2>1. \A k \in 0 .. Len(q) : f[Entry(q, k)] = Entry(q, k + 1)
    BY DEF Ring, Linked
  <2>2. ASSUME NEW k \in 1 .. Len(q) + 1 PROVE Entry(r, k + 1) = Entry(q, k)
    BY <1>1, <1>2 DEF Entry
  <2>3. ASSUME NEW k \in 0 .. Len(q) + 1 PROVE g[Entry(r, k)] = Entry(r, k + 1)
    <3>1. CASE k = 0
      <4>1. Entry(r, 0) = Head0 /\ Entry(r, 1) = b
        BY <1>1, <1>2 DEF Entry
      <4>2. QED
        BY <3>1, <4>1
    <3>2. CASE k = 1
      <4>1. Entry(r, 1) = b /\ Entry(r, 2) = Entry(q, 1) /\ f[Entry(q, 0)] = Entry(q, 1)
        BY <1>1, <1>2, <2>1, <2>2 DEF Entry
      <4>2. QED
        BY <3>2, <4>1, EntryFacts
    <3>3. CASE k \notin {0, 1}
      <4>1. k - 1 \in 1 .. Len(q) /\ k - 1 \in 0 .. Len(q) /\ (k - 1) + 1 = k
        BY <1>1, <3>3
      <4>2. Entry(r, k) = Entry(q, k - 1) /\ Entry(r, k + 1) = Entry(q, k)
        BY <1>1, <2>2, <4>1
      <4>3. f[Entry(q, k - 1)] = Entry(q, k) /\ Entry(q, k - 1) \in Elems(q)
        BY <2>1, <4>1, EntryFacts
      <4>4. QED
        BY <4>2, <4>3
    <3>4. QED
      BY <3>1, <3>2, <3>3
  <2>4. QED
    BY <1>1, <1>2, <2>3 DEF Linked
<1>8. QED
  BY <1>4, <1>5, <1>6, <1>7 DEF Ring, r

\* list_del: the links go past p.
LEMMA RingCut ==
    ASSUME NEW f, NEW g, NEW q \in Orders, Ring(f, q), NEW p \in Elems(q),
           NEW z \in On(q), f[z] = p, g[z] = f[p],
           \A x \in On(q) \ {z, p} : g[x] = f[x]
    PROVE  \E i \in DOMAIN q :
              LET r == Cut(q, i) IN r \in Orders /\ Ring(g, r) /\ Elems(r) = Elems(q) \ {p}
<1>1. q \in Seq(Bufs) /\ Len(q) \in Nat /\ DOMAIN q = 1 .. Len(q) /\ Distinct(q)
  BY OrderFacts DEF Ring
<1>2. PICK i \in 1 .. Len(q) : p = q[i]
  BY EntryFacts
<1> DEFINE n == Len(q) - 1
           r == Cut(q, i)
           up(k) == IF k < i THEN k ELSE k + 1
<1>3. n \in Nat /\ Len(q) = n + 1
  BY <1>1, <1>2
<1>4. \A k \in 1 .. n : up(k) \in 1 .. Len(q) /\ up(k) # i
  BY <1>3
<1>5. /\ r \in Seq(Bufs) /\ Len(r) = n /\ DOMAIN r = 1 .. n
      /\ \A k \in 1 .. n : r[k] = q[up(k)]
  BY <1>1, <1>3, <1>4 DEF Cut
<1>6. \A j, k \in 1 .. n : up(j) = up(k) => j = k
  BY <1>3
<1>7. \A j \in 1 .. Len(q) : j # i => \E k \in 1 .. n : up(k) = j
  <2>1. ASSUME NEW j \in 1 .. Len(q), j # i PROVE \E k \in 1 .. n : up(k) = j
    <3>1. CASE j < i
      BY <1>3, <3>1
    <3>2. CASE j > i
      <4>1. j - 1 \in 1 .. n /\ up(j - 1) = j
        BY <1>3, <3>2
      <4>2. QED
        BY <4>1
    <3>3. QED
      BY <2>1, <3>1, <3>2
  <2>2. QED
    BY <2>1
<1> HIDE DEF r, up
<1>8. Distinct(r)
  BY <1>1, <1>4, <1>5, <1>6 DEF Distinct
<1>9. r \in Orders
  BY <1>5, <1>8, DistinctIsOrder
<1>10. Elems(r) = Elems(q) \ {p}
  <2>1. ASSUME NEW x \in Elems(r) PROVE x \in Elems(q) /\ x # p
    <3>1. PICK k \in 1 .. n : x = r[k]
      BY <1>5 DEF Elems
    <3>2. QED
      BY <1>1, <1>2, <1>4, <1>5, <3>1 DEF Elems, Distinct
  <2>2. ASSUME NEW x \in Elems(q), x # p PROVE x \in Elems(r)
    <3>1. PICK j \in 1 .. Len(q) : x = q[j]
      BY <1>1 DEF Elems
    <3>2. PICK k \in 1 .. n : up(k) = j
      BY <1>2, <1>7, <2>2, <3>1
    <3>3. QED
      BY <1>5, <3>1, <3>2 DEF Elems
  <2>3. QED
    BY <2>1, <2>2
<1>11. z = Entry(q, i - 1)
  <2>1. i - 1 \in 0 .. Len(q) /\ (i - 1) + 1 = i
    BY <1>1
  <2>2. f[Entry(q, i - 1)] = Entry(q, i) /\ Entry(q, i) = p /\ Entry(q, i - 1) \in On(q)
    BY <1>1, <1>2, <2>1, EntryFacts DEF Ring, Linked
  <2>3. QED
    BY <2>2, RingFacts
<1>12. f[p] = Entry(q, i + 1)
  BY <1>1, <1>2, EntryFacts DEF Ring, Linked
<1>13. ASSUME NEW k \in 0 .. n PROVE g[Entry(r, k)] = Entry(r, k + 1)
  <2>1. Entry(r, k) = IF k < i THEN Entry(q, k) ELSE Entry(q, k + 1)
    BY <1>1, <1>3, <1>5 DEF Entry, up
  <2>2. Entry(r, k + 1) = IF k + 1 < i THEN Entry(q, k + 1) ELSE Entry(q, k + 2)
    BY <1>1, <1>3, <1>5 DEF Entry, up
  <2>3. CASE k = i - 1
    <3>1. k < i /\ ~(k + 1 < i) /\ k + 2 = i + 1
      BY <1>3, <2>3
    <3>2. QED
      BY <1>11, <1>12, <2>1, <2>2, <2>3, <3>1
  <2>4. ASSUME NEW j \in 0 .. Len(q), j # i - 1, j # i PROVE g[Entry(q, j)] = Entry(q, j + 1)
    <3>1. Entry(q, j) \in On(q) /\ i \in 0 .. Len(q) /\ i - 1 \in 0 .. Len(q) /\ Entry(q, i) = p
      BY <1>1, <1>2, EntryFacts
    <3>2. Entry(q, j) # z /\ Entry(q, j) # p
      BY <1>1, <1>11, <2>4, <3>1, EntryFacts
    <3>3. QED
      BY <3>1, <3>2 DEF Ring, Linked
  <2>5. CASE k < i - 1
    <3>1. k \in 0 .. Len(q) /\ k # i - 1 /\ k # i /\ k < i /\ k + 1 < i
      BY <1>3, <2>5
    <3>2. QED
      BY <2>1, <2>2, <2>4, <3>1
  <2>6. CASE k > i - 1
    <3>1. k + 1 \in 0 .. Len(q) /\ k + 1 # i - 1 /\ k + 1 # i /\ ~(k < i) /\ ~(k + 1 < i)
          /\ (k + 1) + 1 = k + 2
      BY <1>3, <2>6
    <3>2. QED
      BY <2>1, <2>2, <2>4, <3>1
  <2>7. QED
    BY <1>3, <2>3, <2>5, <2>6
<1>14. Ring(g, r)
  BY <1>5, <1>8, <1>13 DEF Ring, Linked
<1>15. QED
  BY <1>1, <1>9, <1>10, <1>14 DEF r

LEMMA AppendEntries ==
    ASSUME NEW s \in Seq(Bufs), NEW b \in Bufs
    PROVE  /\ Elems(Append(s, b)) = Elems(s) \cup {b}
           /\ Distinct(s) /\ b \notin Elems(s) => Distinct(Append(s, b))
<1> DEFINE r == Append(s, b)
<1>1. /\ Len(s) \in Nat /\ DOMAIN s = 1 .. Len(s) /\ DOMAIN r = 1 .. Len(s) + 1
      /\ r[Len(s) + 1] = b /\ \A i \in 1 .. Len(s) : r[i] = s[i]
  OBVIOUS
<1>2. \A i \in 1 .. Len(s) + 1 : i = Len(s) + 1 \/ i \in 1 .. Len(s)
  BY <1>1
<1>3. \A i \in 1 .. Len(s) : i \in 1 .. Len(s) + 1 /\ i # Len(s) + 1
  BY <1>1
<1>4. Len(s) + 1 \in 1 .. Len(s) + 1
  BY <1>1
<1> HIDE DEF r
<1>5. Elems(r) = Elems(s) \cup {b}
  BY <1>1, <1>2, <1>3, <1>4 DEF Elems
<1>6. ASSUME Distinct(s), b \notin Elems(s) PROVE Distinct(r)
  BY <1>1, <1>2, <1>6 DEF Elems, Distinct
<1>7. QED
  BY <1>5, <1>6 DEF r

LEMMA TailEntries ==
    ASSUME NEW s \in Seq(Bufs), s # <<>>
    PROVE  /\ Head(s) \in Bufs /\ Tail(s) \in Seq(Bufs)
           /\ Elems(s) = Elems(Tail(s)) \cup {Head(s)}
           /\ Distinct(s) => Distinct(Tail(s)) /\ Head(s) \notin Elems(Tail(s))
<1>1. /\ Len(s) \in Nat \ {0} /\ DOMAIN s = 1 .. Len(s) /\ Head(s) = s[1]
      /\ Tail(s) \in Seq(Bufs) /\ DOMAIN Tail(s) = 1 .. Len(s) - 1
      /\ \A i \in 1 .. Len(s) - 1 : Tail(s)[i] = s[i + 1]
  OBVIOUS
<1>2. \A i \in 1 .. Len(s) : i = 1 \/ (i - 1 \in 1 .. Len(s) - 1 /\ (i - 1) + 1 = i)
  BY <1>1
<1>3. 1 \in 1 .. Len(s) /\ \A i \in 1 .. Len(s) - 1 : i + 1 \in 1 .. Len(s) /\ i + 1 # 1
  BY <1>1
<1>4. \A i, j \in 1 .. Len(s) - 1 : i + 1 = j + 1 => i = j
  OBVIOUS
<1>5. Head(s) \in Bufs
  BY <1>1
<1> DEFINE tl == Tail(s)
           hd == Head(s)
<1>6. Elems(s) = Elems(tl) \cup {hd}
  <2>1. DOMAIN tl = 1 .. Len(s) - 1 /\ \A i \in 1 .. Len(s) - 1 : tl[i] = s[i + 1]
    BY <1>1
  <2>2. hd = s[1]
    BY <1>1
  <2> HIDE DEF tl, hd
  <2>3. \A i \in 1 .. Len(s) : s[i] = hd \/ s[i] \in Elems(tl)
    <3>1. ASSUME NEW i \in 1 .. Len(s), i # 1 PROVE s[i] \in Elems(tl)
      <4>1. i - 1 \in DOMAIN tl /\ tl[i - 1] = s[i]
        BY <1>2, <2>1, <3>1
      <4>2. QED
        BY <4>1 DEF Elems
    <3>2. QED
      BY <2>2, <3>1
  <2>4. \A i \in DOMAIN tl : tl[i] \in Elems(s)
    BY <1>1, <1>3, <2>1 DEF Elems
  <2>5. hd \in Elems(s)
    BY <1>1, <1>3, <2>2 DEF Elems
  <2>6. QED
    BY <1>1, <2>3, <2>4, <2>5 DEF Elems
<1>7. ASSUME Distinct(s) PROVE Distinct(tl) /\ hd \notin Elems(tl)
  <2>1. DOMAIN tl = 1 .. Len(s) - 1 /\ \A i \in 1 .. Len(s) - 1 : tl[i] = s[i + 1]
    BY <1>1
  <2>2. hd = s[1]
    BY <1>1
  <2> HIDE DEF tl, hd
  <2>3. \A i, j \in 1 .. Len(s) : s[i] = s[j] => i = j
    BY <1>1, <1>7 DEF Distinct
  <2>4. Distinct(tl)
    BY <1>3, <1>4, <2>1, <2>3 DEF Distinct
  <2>5. hd \notin Elems(tl)
    BY <1>3, <2>1, <2>2, <2>3 DEF Elems
  <2>6. QED
    BY <2>4, <2>5
<1>8. QED
  BY <1>1, <1>5, <1>6, <1>7

----------------------------------------------------------------------------
(* Types. *)

LEMMA TypesKept ==
    ASSUME ListTypeOK, [ListNext]_listVars
    PROVE  ListTypeOK'
<1>1. \A b \in Bufs : b \in Nodes
  BY DEF Nodes
<1>2. \A x \in Nodes : x # Head0 => x \in Bufs
  BY DEF Nodes
<1>3. Head0 \in Nodes /\ \A x \in Nodes : next[x] \in Nodes /\ prev[x] \in Nodes
  BY DEF ListTypeOK, Nodes
<1> USE DEF ListTypeOK, Adding, Deleting
<1>4. CASE UNCHANGED listVars
  BY <1>4 DEF listVars, linkVars, bufVars, addVars, delVars, delLocals, boundVars
<1>5. ASSUME NEW b \in Bufs, Arrive(b) PROVE ListTypeOK'
  BY <1>5 DEF Arrive, linkVars, addVars, delVars, delLocals
<1>6. CASE AddBegin
  <2>1. new' \in Bufs /\ arrived' \in Seq(Bufs) /\ first' \in Nodes
    BY <1>3, <1>6, TailEntries DEF AddBegin, First
  <2>2. torn' \in BOOLEAN
    BY <1>6 DEF AddBegin, AddTears
  <2>3. QED
    BY <1>6, <2>1, <2>2 DEF AddBegin, linkVars, delVars, delLocals, boundVars
<1>7. CASE AddStore
  <2>1. torn' \in BOOLEAN
    BY <1>7 DEF AddStore, AddTears
  <2>2. UNCHANGED <<new, first, bufVars, lock, delVars, boundVars>>
    BY <1>7 DEF AddStore, AddGoes
  <2>3. next' \in [Nodes -> Nodes] /\ prev' \in [Nodes -> Nodes]
    BY <1>1, <1>3, <1>7 DEF AddStore
  <2>4. addPc' \in {"idle", "lock", "convey"} \cup Adding
    BY <1>7 DEF AddStore, AddGoes
  <2>5. QED
    BY <2>1, <2>2, <2>3, <2>4 DEF bufVars, delVars, delLocals
<1>8. CASE FlowLock
  BY <1>8 DEF FlowLock, linkVars, bufVars, delVars, delLocals
<1>9. ASSUME NEW b \in Bufs, NEW ok \in BOOLEAN, Convey(b, ok)
      PROVE  convey' \in [Bufs -> BOOLEAN] /\ batch' \in Nat
  <2>1. \/ convey' = [convey EXCEPT ![b] = TRUE] /\ batch' = batch + 1
        \/ UNCHANGED <<convey, batch>>
    <3>1. CASE ~convey[b] /\ ok
      BY <1>9, <3>1 DEF Convey
    <3>2. CASE ~(~convey[b] /\ ok)
      BY <1>9, <3>2 DEF Convey
    <3>3. QED
      BY <3>1, <3>2
  <2>2. convey \in [Bufs -> BOOLEAN] /\ batch \in Nat /\ TRUE \in BOOLEAN
    OBVIOUS
  <2>3. [convey EXCEPT ![b] = TRUE] \in [Bufs -> BOOLEAN] /\ batch + 1 \in Nat
    BY <2>2
  <2>4. QED
    BY <2>1, <2>2, <2>3
<1>10. \A fault : Outcomes(fault) \subseteq BOOLEAN
  BY DEF Outcomes
<1>11. ASSUME NEW ok \in Outcomes("nomem"), FlowConvey(ok) PROVE ListTypeOK'
  <2>1. convey' \in [Bufs -> BOOLEAN] /\ batch' \in Nat
    BY <1>9, <1>10, <1>11 DEF FlowConvey
  <2>2. QED
    BY <1>11, <2>1 DEF FlowConvey, linkVars, delVars, delLocals
<1>12. CASE CommitBegin
  BY <1>12 DEF CommitBegin, linkVars, bufVars, addVars, delLocals
<1>13. CASE WalkBegin
  BY <1>3, <1>13 DEF WalkBegin, linkVars, bufVars, addVars, delLocals
<1>14. ASSUME NEW ok \in Outcomes("nomem"), WalkConvey(ok) PROVE ListTypeOK'
  <2>1. convey' \in [Bufs -> BOOLEAN] /\ batch' \in Nat
    BY <1>2, <1>9, <1>10, <1>14 DEF WalkConvey
  <2>2. QED
    BY <1>3, <1>14, <2>1 DEF WalkConvey, linkVars, addVars, delLocals
<1>15. CASE WalkEnd
  BY <1>15 DEF WalkEnd, linkVars, bufVars, addVars, delLocals
<1>16. CASE LoopBegin
  BY <1>3, <1>16 DEF LoopBegin, SafeNext, linkVars, bufVars, addVars, delLocals
<1>17. CASE PutBack
  BY <1>2, <1>17 DEF PutBack, linkVars, addVars, delLocals
<1>18. CASE Unlink
  <2>1. torn' \in BOOLEAN
    BY <1>18 DEF Unlink, DelTears
  <2>2. UNCHANGED <<bufVars, lock, addVars, boundVars>>
    BY <1>18 DEF Unlink
  <2>3. next' \in [Nodes -> Nodes] /\ prev' \in [Nodes -> Nodes]
    <3>1. CASE delPc = "store"
      BY <1>3, <1>18, <3>1 DEF Unlink
    <3>2. CASE delPc = "relink"
      BY <1>3, <1>18, <3>2 DEF Unlink
    <3>3. CASE delPc = "init"
      BY <1>3, <1>18, <3>3 DEF Unlink, Isolated
    <3>4. CASE delPc = "unlink"
      BY <1>18, <3>4 DEF Unlink, linkVars
    <3>5. QED
      BY <1>18, <3>1, <3>2, <3>3, <3>4 DEF Unlink
  <2>4. {pos', safe', before', after'} \subseteq Nodes
    BY <1>3, <1>18, <2>3 DEF Unlink, Past, delLocals
  <2>5. delPc' \in {"idle", "wait", "walk", "second", "putback"} \cup Deleting
    BY <1>18 DEF Unlink
  <2>6. QED
    BY <2>1, <2>2, <2>3, <2>4, <2>5 DEF bufVars, addVars
<1>19. CASE CommitEnd
  BY <1>19 DEF CommitEnd, linkVars, addVars, delLocals
<1>20. QED
  BY <1>4, <1>5, <1>6, <1>7, <1>8, <1>11, <1>12, <1>13, <1>14, <1>15, <1>16, <1>17, <1>18, <1>19
  DEF ListNext, MulticastThread, CommitLoops

LEMMA TypesBegin ==
    ListInit => ListTypeOK
BY SizesAssumption DEF ListInit, ListTypeOK, Nodes, Bufs, Head0

\* Every variable of the list and of its two threads holds a value of its type; in
\* particular no link of a list_head ever leads anywhere but to a list_head.
THEOREM ListTypeCorrect ==
    ListSpec => []ListTypeOK
BY TypesBegin, TypesKept, PTL DEF ListSpec

----------------------------------------------------------------------------
(* The list between any two stores, as long as it is not torn. *)

Removing == {"unlink", "store", "relink"}
Waiting == posted \cup Elems(arrived)

\* The list holds each buffer that is neither received into nor waiting to be polled
\* nor about to be linked in, and the one that is put back before it is taken off.
PlacesOK(q) ==
    /\ posted \cap Elems(arrived) = {} /\ Distinct(arrived)
    /\ addPc \in Adding => new \notin Waiting
    /\ \A b \in Bufs :
          b \in Elems(q) <=> \/ b \notin Waiting /\ ~(addPc \in Adding /\ b = new)
                             \/ delPc \in Removing /\ b = pos

\* What list_add has stored so far.
AddOK(q) ==
    addPc \in Adding =>
      /\ delPc \notin {"store", "relink", "init"}
      /\ new \notin Elems(q) /\ first = next[Head0]
      /\ \A x \in Elems(q) : prev[next[x]] = x
      /\ addPc # "add1" => prev[first] = new
      /\ addPc \in {"add3", "add4"} => next[new] = first
      /\ addPc = "add4" => prev[new] = Head0

\* Where the walk of the rdma thread is, and what list_del_init has stored so far.
DelOK(q) ==
    /\ addPc \notin Adding => \A x \in On(q) : (delPc = "relink" /\ x = pos) \/ prev[next[x]] = x
    /\ delPc = "putback" => pos \in On(q) /\ (pos # Head0 => safe = next[pos])
    /\ delPc \in Removing => pos \in Elems(q) /\ safe = next[pos] /\ pos \in Waiting
    /\ delPc \in {"store", "relink"} =>
          after = next[pos] /\ before \in On(q) /\ next[before] = pos /\ prev[pos] = before
    /\ delPc = "relink" => prev[after] = before
    /\ delPc = "init" => pos \in Bufs /\ pos \notin Elems(q) /\ safe \in On(q)

ListOK(q) == Ring(next, q) /\ PlacesOK(q) /\ AddOK(q) /\ DelOK(q)

ListInv == ListTypeOK /\ (~torn => \E q \in Orders : ListOK(q))

\* The list q becomes r: it is as it was, b is linked in first, or an entry is gone.
Becomes(q, r) ==
    \/ r = q
    \/ \E b \in Bufs : r = <<b>> \o q
    \/ \E i \in DOMAIN q : r = Cut(q, i)

\* No link is stored to, and the threads hold the same entries.
Held == UNCHANGED <<next, prev, pos, safe, before, after>>

LEMMA RingStays ==
    ASSUME NEW q \in Orders, Ring(next, q), next' = next
    PROVE  Ring(next', q)
OBVIOUS

\* A page arrives.
LEMMA ArriveKeeps ==
    ASSUME ListTypeOK, NEW q \in Orders, ListOK(q), NEW b \in Bufs, Arrive(b)
    PROVE  ListOK(q)'
<1>1. /\ Held /\ UNCHANGED <<addPc, new, first, delPc>>
      /\ posted' = posted \ {b} /\ arrived' = Append(arrived, b) /\ b \in posted
  BY DEF Arrive, Held, linkVars, addVars, delVars, delLocals
<1>2. arrived \in Seq(Bufs) /\ b \notin Elems(arrived) /\ Distinct(arrived)
  BY <1>1 DEF ListTypeOK, ListOK, PlacesOK
<1>3. Elems(arrived') = Elems(arrived) \cup {b} /\ Distinct(arrived')
  BY <1>1, <1>2, AppendEntries
<1>4. Waiting' = Waiting
  BY <1>1, <1>3 DEF Waiting
<1>5. PlacesOK(q)'
  <2>1. posted' \cap Elems(arrived') = {}
    BY <1>1, <1>3 DEF ListOK, PlacesOK
  <2>2. QED
    BY <1>1, <1>3, <1>4, <2>1 DEF ListOK, PlacesOK, Held
<1>6. Ring(next', q)
  BY <1>1 DEF Held, ListOK
<1>7. AddOK(q)' /\ DelOK(q)'
  BY <1>1, <1>4 DEF ListOK, AddOK, DelOK, Held
<1>8. QED
  BY <1>5, <1>6, <1>7 DEF ListOK

\* The multicast thread takes a completion and reads the first entry.
LEMMA AddBeginKeeps ==
    ASSUME ListTypeOK, NEW q \in Orders, ListOK(q), AddBegin, ~torn'
    PROVE  ListOK(q)'
<1>1. /\ Held /\ delPc' = delPc /\ posted' = posted
      /\ arrived # <<>> /\ arrived' = Tail(arrived) /\ new' = Head(arrived)
      /\ first' = next[Head0] /\ addPc = "idle" /\ addPc' = "add1"
      /\ ~AddTears(Head(arrived))
  BY DEF AddBegin, First, Held, linkVars, delVars, delLocals
<1>2. arrived \in Seq(Bufs) /\ Distinct(arrived) /\ posted \cap Elems(arrived) = {}
  BY DEF ListTypeOK, ListOK, PlacesOK
<1>3. /\ new' \in Bufs /\ Elems(arrived) = Elems(arrived') \cup {new'}
      /\ Distinct(arrived') /\ new' \notin Elems(arrived')
  BY <1>1, <1>2, TailEntries
<1>4. /\ delPc \notin {"store", "relink", "init"}
      /\ delPc = "unlink" => new' # pos
  BY <1>1 DEF AddTears, Deleting
<1>5. new' \notin Waiting' /\ Waiting = Waiting' \cup {new'}
  BY <1>1, <1>2, <1>3 DEF Waiting
<1>6. addPc \notin Adding /\ addPc' \in Adding
  BY <1>1 DEF Adding
<1>7. new' \notin Elems(q)
  BY <1>3, <1>4, <1>5 DEF ListOK, PlacesOK, Removing
<1>8. PlacesOK(q)'
  <2>1. posted' \cap Elems(arrived') = {}
    BY <1>1, <1>2, <1>3
  <2>2. ASSUME NEW b \in Bufs
        PROVE  b \in Elems(q) <=> \/ b \notin Waiting' /\ b # new'
                                  \/ delPc \in Removing /\ b = pos
    BY <1>5, <1>6 DEF ListOK, PlacesOK
  <2>3. QED
    BY <1>1, <1>3, <1>5, <1>6, <2>1, <2>2 DEF PlacesOK, Held
<1>9. Ring(next', q)
  BY <1>1 DEF Held, ListOK
<1>10. AddOK(q)'
  <2>1. \A x \in Elems(q) : prev[next[x]] = x
    BY <1>4, <1>6 DEF ListOK, DelOK, On
  <2>2. QED
    BY <1>1, <1>4, <1>7, <2>1 DEF AddOK, Held
<1>11. DelOK(q)'
  <2>1. delPc \in Removing => pos \in Waiting'
    BY <1>4, <1>5 DEF ListOK, DelOK, Removing
  <2>2. QED
    BY <1>1, <1>6, <2>1 DEF ListOK, DelOK, Held
<1>12. QED
  BY <1>8, <1>9, <1>10, <1>11 DEF ListOK

LEMMA PlacesStay ==
    ASSUME NEW q \in Orders, PlacesOK(q), UNCHANGED <<posted, arrived, new, pos>>,
           addPc \in Adding <=> addPc' \in Adding,
           delPc \in Removing <=> delPc' \in Removing
    PROVE  PlacesOK(q)' /\ Waiting' = Waiting
BY DEF PlacesOK, Waiting

\* list_add stores a link.
LEMMA AddStoreKeeps ==
    ASSUME ListTypeOK, NEW q \in Orders, ListOK(q), AddStore, ~torn'
    PROVE  \E r \in Orders : ListOK(r)' /\ Becomes(q, r)
<1>1. /\ UNCHANGED <<new, first, posted, arrived, delPc, pos, safe, before, after>>
      /\ ~AddTears(new) /\ addPc \in Adding
  BY DEF AddStore, AddGoes, bufVars, delVars, delLocals, Adding
<1>2. delPc \notin {"store", "relink", "init"}
  BY <1>1 DEF AddTears, Deleting
<1>3. /\ new \in Bufs /\ new \in Nodes /\ new # Head0 /\ first \in Nodes /\ Head0 \in Nodes
      /\ next \in [Nodes -> Nodes] /\ prev \in [Nodes -> Nodes]
      /\ On(q) \subseteq Nodes /\ Elems(q) \subseteq On(q) /\ Head0 \in On(q)
      /\ Head0 \notin Elems(q)
  BY BufFacts, OrderFacts DEF ListTypeOK, Nodes, On
<1>4. /\ Ring(next, q) /\ PlacesOK(q)
      /\ new \notin Elems(q) /\ new \notin On(q) /\ first = next[Head0]
      /\ \A x \in Elems(q) : prev[next[x]] = x
  BY <1>1, <1>3 DEF ListOK, AddOK, On
<1>5. /\ \A x \in On(q) : next[x] \in On(q)
      /\ \A x \in Elems(q) : next[x] # first
  <2>1. \A x \in Elems(q) : x \in On(q) /\ x # Head0
    BY <1>3
  <2>2. QED
    BY <1>3, <1>4, <2>1, RingFacts
<1>6. /\ delPc = "putback" => pos \in On(q) /\ (pos # Head0 => safe = next[pos])
      /\ delPc \in Removing => pos \in Elems(q) /\ safe = next[pos] /\ pos \in Waiting
  BY DEF ListOK, DelOK
<1>7. pos # Head0 => pos \in Elems(q) \/ delPc \notin Removing \cup {"putback"}
  BY <1>6 DEF On
<1>8. ASSUME UNCHANGED next, Ring(next', q), addPc' \in Adding,
             \A x \in Elems(q) : prev'[next'[x]] = x,
             addPc' # "add1" => prev'[first] = new,
             addPc' \in {"add3", "add4"} => next'[new] = first,
             addPc' = "add4" => prev'[new] = Head0
      PROVE  ListOK(q)'
  <2>1. PlacesOK(q)' /\ Waiting' = Waiting
    BY <1>1, <1>4, <1>8, PlacesStay
  <2>2. AddOK(q)'
    BY <1>1, <1>2, <1>4, <1>8 DEF AddOK
  <2>3. DelOK(q)'
    BY <1>1, <1>2, <1>6, <1>8, <2>1 DEF DelOK
  <2>4. QED
    BY <1>8, <2>1, <2>2, <2>3 DEF ListOK
<1>9. CASE addPc = "add1"
  <2>1. addPc' = "add2" /\ prev' = [prev EXCEPT ![first] = new] /\ next' = next
    BY <1>9 DEF AddStore, AddGoes
  <2>2. prev'[first] = new
    BY <1>3, <2>1
  <2>3. \A x \in Elems(q) : prev'[next'[x]] = x
    BY <1>3, <1>4, <1>5, <2>1
  <2>4. ListOK(q)'
    BY <1>4, <1>8, <2>1, <2>2, <2>3 DEF Adding
  <2>5. QED
    BY <2>4 DEF Becomes
<1>10. CASE addPc = "add2"
  <2>1. addPc' = "add3" /\ next' = [next EXCEPT ![new] = first] /\ prev' = prev
    BY <1>10 DEF AddStore, AddGoes
  <2>2. next'[new] = first /\ \A x \in On(q) : next'[x] = next[x]
    BY <1>3, <1>4, <2>1
  <2>3. Ring(next', q)
    BY <1>4, <2>2, RingKept
  <2>4. \A x \in Elems(q) : prev'[next'[x]] = x
    BY <1>3, <1>4, <2>1, <2>2
  <2>5. prev[first] = new
    BY <1>1, <1>10 DEF ListOK, AddOK
  <2>6. PlacesOK(q)' /\ Waiting' = Waiting
    BY <1>1, <1>4, <2>1, PlacesStay DEF Adding
  <2>7. AddOK(q)'
    BY <1>1, <1>2, <1>3, <1>4, <2>1, <2>2, <2>4, <2>5 DEF AddOK
  <2>8. DelOK(q)'
    <3>1. addPc' \in Adding
      BY <2>1 DEF Adding
    <3>2. delPc = "putback" /\ pos # Head0 => next'[pos] = next[pos]
      BY <1>6, <2>2
    <3>3. delPc \in Removing => next'[pos] = next[pos]
      BY <1>3, <1>6, <2>2
    <3>4. QED
      BY <1>1, <1>2, <1>6, <2>6, <3>1, <3>2, <3>3 DEF DelOK
  <2>9. QED
    BY <2>3, <2>6, <2>7, <2>8 DEF ListOK, Becomes
<1>11. CASE addPc = "add3"
  <2>1. addPc' = "add4" /\ prev' = [prev EXCEPT ![new] = Head0] /\ next' = next
    BY <1>11 DEF AddStore, AddGoes
  <2>2. prev[first] = new /\ next[new] = first
    BY <1>1, <1>11 DEF ListOK, AddOK
  <2>3. first # new
    BY <1>3, <1>4, <1>5
  <2>4. prev'[first] = new /\ prev'[new] = Head0 /\ next'[new] = first
    BY <1>3, <2>1, <2>2, <2>3
  <2>5. \A x \in Elems(q) : prev'[next'[x]] = x
    BY <1>3, <1>4, <1>5, <2>1
  <2>6. ListOK(q)'
    BY <1>4, <1>8, <2>1, <2>4, <2>5 DEF Adding
  <2>7. QED
    BY <2>6 DEF Becomes
<1>12. CASE addPc = "add4"
  <2>1. addPc' = "lock" /\ next' = [next EXCEPT ![Head0] = new] /\ prev' = prev
    BY <1>12 DEF AddStore, AddGoes
  <2>2. prev[first] = new /\ next[new] = first /\ prev[new] = Head0
    BY <1>1, <1>12 DEF ListOK, AddOK
  <2>3. next'[Head0] = new /\ next'[new] = first /\ \A x \in Elems(q) : next'[x] = next[x]
    BY <1>3, <2>1, <2>2
  <2>4. PICK b \in Bufs : b = new
    BY <1>3
  <2> DEFINE r == <<b>> \o q
  <2>5. r \in Orders /\ Ring(next', r) /\ Elems(r) = Elems(q) \cup {b}
    BY <1>4, <2>3, <2>4, RingPushed
  <2> HIDE DEF r
  <2>6. addPc' \notin Adding
    BY <2>1 DEF Adding
  <2>7. Waiting' = Waiting /\ new \notin Waiting
    BY <1>1, <1>4 DEF Waiting, PlacesOK
  <2>8. PlacesOK(r)'
    <3>1. ASSUME NEW x \in Bufs
          PROVE  x \in Elems(r) <=> x \notin Waiting \/ (delPc \in Removing /\ x = pos)
      BY <1>1, <1>4, <2>4, <2>5, <2>7 DEF PlacesOK
    <3>2. QED
      BY <1>1, <1>4, <2>6, <2>7, <3>1 DEF PlacesOK
  <2>9. AddOK(r)'
    BY <2>6 DEF AddOK
  <2>10. On(r) = On(q) \cup {b}
    BY <2>5 DEF On
  <2>11. \A x \in On(r) : prev'[next'[x]] = x
    BY <1>3, <1>4, <2>1, <2>2, <2>3, <2>4, <2>10 DEF On
  <2>12. delPc \in Removing \cup {"putback"} /\ pos # Head0 => next'[pos] = next[pos]
    BY <1>7, <2>3
  <2>13. DelOK(r)'
    <3>1. delPc \in Removing => pos \in Elems(r) /\ pos # Head0
      BY <1>3, <1>6, <2>5
    <3>2. QED
      BY <1>1, <1>2, <1>6, <2>6, <2>7, <2>10, <2>11, <2>12, <3>1 DEF DelOK, On
  <2>14. ListOK(r)'
    BY <2>5, <2>8, <2>9, <2>13 DEF ListOK
  <2>15. QED
    BY <2>5, <2>14 DEF Becomes, r
<1>13. QED
  BY <1>1, <1>9, <1>10, <1>11, <1>12 DEF Adding

\* Steps that store to no link and move no buffer: the locks, convey marks, and the
\* walks that only read.
LEMMA QuietKeeps ==
    ASSUME ListTypeOK, NEW q \in Orders, ListOK(q),
           UNCHANGED <<next, prev, posted, arrived, new, first>>,
           addPc' = addPc \/ (addPc \notin Adding /\ addPc' \notin Adding),
           \/ UNCHANGED <<delPc, pos, safe, before, after>>
           \/ /\ delPc \notin Removing \cup {"init"}
              /\ delPc' \in {"idle", "wait", "walk", "second"}
    PROVE  ListOK(q)'
<1>1. addPc \in Adding <=> addPc' \in Adding
  OBVIOUS
<1>2. delPc \in Removing <=> delPc' \in Removing
  BY DEF Removing
<1>3. Waiting' = Waiting
  BY DEF Waiting
<1>4. PlacesOK(q)'
  BY <1>1, <1>2, <1>3 DEF ListOK, PlacesOK, Removing
<1>5. AddOK(q)'
  BY <1>1 DEF ListOK, AddOK
<1>6. DelOK(q)'
  <2>1. CASE UNCHANGED <<delPc, pos, safe, before, after>>
    BY <1>1, <1>3, <2>1 DEF ListOK, DelOK
  <2>2. CASE delPc \notin Removing \cup {"init"} /\ delPc' \in {"idle", "wait", "walk", "second"}
    BY <1>1, <2>2 DEF ListOK, DelOK, Removing
  <2>3. QED
    BY <2>1, <2>2
<1>7. QED
  BY <1>4, <1>5, <1>6 DEF ListOK

\* The second loop starts at the first entry.
LEMMA LoopBeginKeeps ==
    ASSUME ListTypeOK, NEW q \in Orders, ListOK(q), LoopBegin
    PROVE  ListOK(q)'
<1>1. /\ UNCHANGED <<next, prev, posted, arrived, addPc, new, first>>
      /\ delPc = "second" /\ delPc' = "putback"
      /\ pos' = next[Head0] /\ safe' = next[next[Head0]]
  BY DEF LoopBegin, SafeNext, linkVars, bufVars, addVars
<1>2. pos' \in On(q)
  BY <1>1, RingFacts DEF ListOK, On
<1>3. Waiting' = Waiting
  BY <1>1 DEF Waiting
<1>4. PlacesOK(q)'
  BY <1>1, <1>3 DEF ListOK, PlacesOK, Removing
<1>5. AddOK(q)'
  BY <1>1 DEF ListOK, AddOK
<1>6. DelOK(q)'
  BY <1>1, <1>2 DEF ListOK, DelOK, Removing
<1>7. QED
  BY <1>1, <1>4, <1>5, <1>6 DEF ListOK

\* A buffer is put back while it is still on the list.
LEMMA PutBackKeeps ==
    ASSUME ListTypeOK, NEW q \in Orders, ListOK(q), PutBack
    PROVE  ListOK(q)'
<1>1. /\ Held /\ UNCHANGED <<arrived, addPc, new, first>>
      /\ posted' = posted \cup {pos} /\ delPc = "putback" /\ delPc' = "unlink" /\ pos # Head0
  BY DEF PutBack, Held, linkVars, addVars, delLocals
<1>2. pos \in Elems(q) /\ safe = next[pos] /\ pos \in Bufs
  BY <1>1, OrderFacts DEF ListOK, DelOK, On
<1>3. pos \notin Waiting /\ (addPc \in Adding => pos # new)
  BY <1>1, <1>2 DEF ListOK, PlacesOK, Removing
<1>4. Waiting' = Waiting \cup {pos}
  BY <1>1 DEF Waiting
<1>5. PlacesOK(q)'
  <2>1. posted' \cap Elems(arrived') = {}
    BY <1>1, <1>3 DEF ListOK, PlacesOK, Waiting
  <2>2. ASSUME NEW b \in Bufs
        PROVE  b \in Elems(q) <=> \/ b \notin Waiting' /\ ~(addPc \in Adding /\ b = new)
                                  \/ b = pos
    BY <1>1, <1>2, <1>4 DEF ListOK, PlacesOK, Removing
  <2>3. QED
    BY <1>1, <1>3, <1>4, <2>1, <2>2 DEF ListOK, PlacesOK, Removing, Held
<1>6. AddOK(q)'
  BY <1>1 DEF ListOK, AddOK, Held
<1>7. DelOK(q)'
  BY <1>1, <1>2, <1>4 DEF ListOK, DelOK, Held, Removing
<1>8. QED
  BY <1>1, <1>5, <1>6, <1>7 DEF ListOK, Held

\* list_del_init reads or stores a link.
LEMMA UnlinkKeeps ==
    ASSUME ListTypeOK, NEW q \in Orders, ListOK(q), Unlink, ~torn'
    PROVE  \E r \in Orders : ListOK(r)' /\ Becomes(q, r)
<1>1. /\ UNCHANGED <<new, first, posted, arrived, addPc>> /\ addPc \notin Adding
      /\ Waiting' = Waiting
  BY DEF Unlink, DelTears, bufVars, addVars, Waiting
<1>2. /\ pos \in Nodes /\ Head0 \in Nodes /\ On(q) \subseteq Nodes /\ Elems(q) \subseteq On(q)
      /\ next \in [Nodes -> Nodes] /\ prev \in [Nodes -> Nodes] /\ Head0 \notin Elems(q)
      /\ Elems(q) \subseteq Bufs /\ Head0 \in On(q) /\ Head0 \notin Bufs
  BY OrderFacts, BufFacts DEF ListTypeOK, Nodes, On
<1>3. Ring(next, q) /\ PlacesOK(q) /\ DelOK(q)
  BY DEF ListOK
<1>4. /\ \A x \in On(q) : next[x] \in On(q)
      /\ \A x, y \in On(q) : next[x] = next[y] => x = y
      /\ \A x \in On(q) : \E y \in On(q) : next[y] = x
      /\ \A x \in Elems(q) : next[x] # x
  BY <1>3, RingFacts
<1>5. \A r \in Orders : AddOK(r)'
  BY <1>1 DEF AddOK
<1>6. CASE delPc = "unlink"
  <2>1. /\ UNCHANGED <<next, prev, pos, safe>> /\ before' = prev[pos] /\ after' = next[pos]
        /\ delPc' = "store"
    BY <1>6 DEF Unlink, Past, linkVars
  <2>2. pos \in Elems(q) /\ safe = next[pos] /\ pos \in Waiting
        /\ \A x \in On(q) : prev[next[x]] = x
    BY <1>1, <1>3, <1>6 DEF DelOK, Removing
  <2>3. PICK y \in On(q) : next[y] = pos
    BY <1>2, <1>4, <2>2
  <2>4. prev[pos] = y
    BY <2>2, <2>3
  <2>5. DelOK(q)'
    BY <1>1, <2>1, <2>2, <2>3, <2>4 DEF DelOK, Removing
  <2>6. PlacesOK(q)'
    BY <1>1, <1>3, <1>6, <2>1 DEF PlacesOK, Removing
  <2>7. QED
    BY <1>3, <1>5, <2>1, <2>5, <2>6 DEF ListOK, Becomes
<1>7. CASE delPc = "store"
  <2>1. /\ UNCHANGED <<next, pos, safe, before, after>>
        /\ prev' = [prev EXCEPT ![after] = before] /\ delPc' = "relink"
    BY <1>7 DEF Unlink, delLocals
  <2>2. /\ pos \in Elems(q) /\ safe = next[pos] /\ pos \in Waiting
        /\ \A x \in On(q) : prev[next[x]] = x
        /\ after = next[pos] /\ before \in On(q) /\ next[before] = pos /\ prev[pos] = before
    BY <1>1, <1>3, <1>7 DEF DelOK, Removing
  <2>3. after \in Nodes /\ after # pos
    BY <1>2, <1>4, <2>2
  <2>4. prev'[after] = before /\ prev'[pos] = before
    BY <1>2, <2>1, <2>2, <2>3
  <2>5. \A x \in On(q) : x = pos \/ prev'[next[x]] = x
    BY <1>2, <1>4, <2>1, <2>2
  <2>6. DelOK(q)'
    BY <1>1, <2>1, <2>2, <2>4, <2>5 DEF DelOK, Removing
  <2>7. PlacesOK(q)'
    BY <1>1, <1>3, <1>7, <2>1 DEF PlacesOK, Removing
  <2>8. QED
    BY <1>3, <1>5, <2>1, <2>6, <2>7 DEF ListOK, Becomes
<1>8. CASE delPc = "relink"
  <2>1. /\ UNCHANGED <<prev, pos, safe, before, after>>
        /\ next' = [next EXCEPT ![before] = after] /\ delPc' = "init"
    BY <1>8 DEF Unlink, delLocals
  <2>2. /\ pos \in Elems(q) /\ safe = next[pos] /\ pos \in Waiting
        /\ \A x \in On(q) : x = pos \/ prev[next[x]] = x
        /\ after = next[pos] /\ before \in On(q) /\ next[before] = pos /\ prev[after] = before
    BY <1>1, <1>3, <1>8 DEF DelOK, Removing
  <2>3. /\ before # pos
        /\ next'[before] = next[pos] /\ \A x \in On(q) \ {before, pos} : next'[x] = next[x]
    BY <1>2, <1>4, <2>1, <2>2
  <2>4. PICK i \in DOMAIN q :
           LET r == Cut(q, i) IN r \in Orders /\ Ring(next', r) /\ Elems(r) = Elems(q) \ {pos}
    BY <1>3, <2>2, <2>3, RingCut
  <2> DEFINE r == Cut(q, i)
  <2>5. r \in Orders /\ Ring(next', r) /\ Elems(r) = Elems(q) \ {pos}
    BY <2>4
  <2>6. Becomes(q, r)
    BY DEF Becomes
  <2> HIDE DEF r
  <2>7. On(r) = On(q) \ {pos}
    BY <1>2, <2>2, <2>5 DEF On
  <2>8. \A x \in On(r) : prev'[next'[x]] = x
    BY <2>1, <2>2, <2>3, <2>7
  <2>9. safe \in On(r)
    BY <1>2, <1>4, <2>2, <2>7
  <2>10. DelOK(r)'
    BY <1>1, <1>2, <2>1, <2>2, <2>5, <2>8, <2>9 DEF DelOK, Removing
  <2>11. PlacesOK(r)'
    <3>1. ASSUME NEW b \in Bufs PROVE b \in Elems(r) <=> b \notin Waiting
      BY <1>1, <1>3, <1>8, <2>2, <2>5 DEF PlacesOK, Removing
    <3>2. QED
      BY <1>1, <1>3, <2>1, <3>1 DEF PlacesOK, Removing
  <2>12. QED
    BY <1>5, <2>5, <2>6, <2>10, <2>11 DEF ListOK
<1>9. CASE delPc = "init"
  <2>1. /\ next' = [next EXCEPT ![pos] = pos] /\ prev' = [prev EXCEPT ![pos] = pos]
        /\ pos' = safe /\ safe' = next'[safe] /\ delPc' = "putback"
    BY <1>9 DEF Unlink, Isolated
  <2>2. /\ pos \in Bufs /\ pos \notin Elems(q) /\ safe \in On(q)
        /\ \A x \in On(q) : prev[next[x]] = x
    BY <1>1, <1>3, <1>9 DEF DelOK, Removing
  <2>3. pos \notin On(q)
    BY <1>2, <2>2 DEF On
  <2>4. \A x \in On(q) : next'[x] = next[x] /\ prev'[x] = prev[x]
    BY <1>2, <2>1, <2>3
  <2>5. Ring(next', q)
    BY <1>3, <2>4, RingKept
  <2>6. \A x \in On(q) : prev'[next'[x]] = x
    BY <1>4, <2>2, <2>4
  <2>7. DelOK(q)'
    BY <1>1, <2>1, <2>2, <2>6 DEF DelOK, Removing
  <2>8. PlacesOK(q)'
    BY <1>1, <1>3, <1>9, <2>1 DEF PlacesOK, Removing
  <2>9. QED
    BY <1>5, <2>5, <2>7, <2>8 DEF ListOK, Becomes
<1>10. QED
  BY <1>6, <1>7, <1>8, <1>9 DEF Unlink

LEMMA ListStep ==
    ASSUME ListTypeOK, NEW q \in Orders, ListOK(q), ListNext, ~torn'
    PROVE  \E r \in Orders : ListOK(r)' /\ Becomes(q, r)
<1>1. ASSUME ListOK(q)' PROVE \E r \in Orders : ListOK(r)' /\ Becomes(q, r)
  BY <1>1 DEF Becomes
<1>2. ASSUME NEW b \in Bufs, Arrive(b) PROVE ListOK(q)'
  BY <1>2, ArriveKeeps
<1>3. CASE AddBegin
  BY <1>1, <1>3, AddBeginKeeps
<1>4. CASE AddStore
  BY <1>4, AddStoreKeeps
<1>5. CASE FlowLock \/ CommitBegin \/ WalkBegin \/ WalkEnd \/ CommitEnd
           \/ (\E ok \in Outcomes("nomem") : FlowConvey(ok) \/ WalkConvey(ok))
  <2>1. UNCHANGED <<next, prev, posted, arrived, new, first>>
    BY <1>5 DEF FlowLock, CommitBegin, WalkBegin, WalkEnd, CommitEnd, FlowConvey, WalkConvey,
                linkVars, bufVars, addVars
  <2>2. addPc' = addPc \/ (addPc \notin Adding /\ addPc' \notin Adding)
    BY <1>5 DEF FlowLock, CommitBegin, WalkBegin, WalkEnd, CommitEnd, FlowConvey, WalkConvey,
                addVars, Adding
  <2>3. \/ UNCHANGED <<delPc, pos, safe, before, after>>
        \/ /\ delPc \notin Removing \cup {"init"}
           /\ delPc' \in {"idle", "wait", "walk", "second"}
    BY <1>5 DEF FlowLock, CommitBegin, WalkBegin, WalkEnd, CommitEnd, FlowConvey, WalkConvey,
                delVars, delLocals, Removing
  <2>4. QED
    BY <1>1, <2>1, <2>2, <2>3, QuietKeeps
<1>6. CASE LoopBegin
  BY <1>1, <1>6, LoopBeginKeeps
<1>7. CASE PutBack
  BY <1>1, <1>7, PutBackKeeps
<1>8. CASE Unlink
  BY <1>8, UnlinkKeeps
<1>9. QED
  BY <1>1, <1>2, <1>3, <1>4, <1>5, <1>6, <1>7, <1>8 DEF ListNext, MulticastThread, CommitLoops

LEMMA TornStays ==
    ASSUME [ListNext]_listVars, torn
    PROVE  torn'
BY DEF ListNext, MulticastThread, CommitLoops, Arrive, AddBegin, AddStore, FlowLock, FlowConvey,
       CommitBegin, WalkBegin, WalkConvey, WalkEnd, LoopBegin, PutBack, Unlink, CommitEnd, listVars

LEMMA NoStep ==
    ASSUME NEW q \in Orders, ListOK(q), UNCHANGED listVars
    PROVE  ListOK(q)'
<1>1. UNCHANGED <<next, prev, posted, arrived, addPc, new, first, delPc, pos, safe, before, after>>
  BY DEF listVars, linkVars, bufVars, addVars, delVars, delLocals
<1>2. QED
  BY <1>1 DEF ListOK, PlacesOK, Waiting, AddOK, DelOK

LEMMA ListInvBegins ==
    ListInit => ListInv
<1> SUFFICES ASSUME ListInit PROVE ListInv
  OBVIOUS
<1> DEFINE q == <<>>
<1>1. q \in Seq(Bufs) /\ Len(q) = 0 /\ DOMAIN q = {} /\ Elems(q) = {}
  BY DEF Elems
<1>2. Distinct(q)
  BY <1>1 DEF Distinct
<1>3. q \in Orders
  BY <1>1, <1>2, DistinctIsOrder
<1> HIDE DEF q
<1>4. next[Head0] = Head0 /\ prev[Head0] = Head0
  BY DEF ListInit, Nodes
<1>5. Entry(q, 0) = Head0 /\ Entry(q, 1) = Head0
  BY <1>1 DEF Entry
<1>6. Ring(next, q)
  BY <1>1, <1>2, <1>4, <1>5 DEF Ring, Linked
<1>7. Elems(arrived) = {} /\ Distinct(arrived)
  BY DEF ListInit, Elems, Distinct
<1>8. PlacesOK(q)
  BY <1>1, <1>7 DEF ListInit, PlacesOK, Waiting, Adding, Removing
<1>9. AddOK(q)
  BY DEF ListInit, AddOK, Adding
<1>10. DelOK(q)
  BY <1>1, <1>4 DEF ListInit, DelOK, On, Removing
<1>11. QED
  BY <1>3, <1>6, <1>8, <1>9, <1>10, TypesBegin DEF ListInv, ListOK

LEMMA ListInvKept ==
    ASSUME ListInv, [ListNext]_listVars
    PROVE  ListInv'
<1>1. ListTypeOK'
  BY TypesKept DEF ListInv
<1>2. ASSUME ~torn' PROVE \E q \in Orders : ListOK(q)'
  <2>1. PICK q \in Orders : ListOK(q)
    BY <1>2, TornStays DEF ListInv
  <2>2. CASE ListNext
    BY <1>2, <2>1, <2>2, ListStep DEF ListInv
  <2>3. CASE UNCHANGED listVars
    BY <2>1, <2>3, NoStep
  <2>4. QED
    BY <2>2, <2>3
<1>3. Orders' = Orders
  OBVIOUS
<1>4. QED
  BY <1>1, <1>2, <1>3 DEF ListInv

LEMMA ListInvariant ==
    ListSpec => []ListInv
BY ListInvBegins, ListInvKept, PTL DEF ListSpec

----------------------------------------------------------------------------
(* What it is for. *)

LEMMA ListInvGives ==
    ListInv => ListWellFormed
<1> SUFFICES ASSUME ListInv, ~torn PROVE ListWellFormed
  BY DEF ListWellFormed
<1>1. PICK q \in Orders : ListOK(q)
  BY DEF ListInv
<1>2. Chain = q /\ IsRing
  BY <1>1, ChainIs DEF ListOK
<1>3. Elems(q) = (Bufs \ (posted \cup Elems(arrived)
                    \cup (IF addPc \in Adding THEN {new} ELSE {})))
                 \cup (IF delPc \in {"unlink", "store", "relink"} THEN {pos} ELSE {})
  <2>1. Elems(q) \subseteq Bufs /\ (delPc \in Removing => pos \in Bufs)
    BY <1>1, OrderFacts DEF ListOK, DelOK
  <2>2. \A b \in Bufs :
          b \in Elems(q) <=> \/ b \notin posted \cup Elems(arrived) /\ ~(addPc \in Adding /\ b = new)
                             \/ delPc \in Removing /\ b = pos
    BY <1>1 DEF ListOK, PlacesOK, Waiting
  <2>3. QED
    BY <2>1, <2>2 DEF Removing
<1>4. addPc \notin Adding /\ delPc \notin {"relink", "init"} =>
           \A x \in Elems(q) \cup {Head0} : prev[next[x]] = x
  BY <1>1 DEF ListOK, DelOK, On
<1>5. posted \cap Elems(arrived) = {}
  BY <1>1 DEF ListOK, PlacesOK
<1>6. QED
  BY <1>2, <1>3, <1>4, <1>5 DEF ListWellFormed

\* commit_list, linked in without the lock and walked with it: as long as no store of
\* list_add fell among those of list_del_init, it is a ring that holds each buffer once
\* which is neither received into nor waiting to be polled, in both directions.
THEOREM ListStaysWellFormed ==
    ListSpec => []ListWellFormed
BY ListInvariant, ListInvGives, PTL

\* A step of either thread pushes one buffer in front of commit_list, takes one away or
\* leaves it: what FarServer takes it for.
THEOREM ListActsAsASequence ==
    ListSpec => ListIsASequence
<1>1. ASSUME ListInv, ListInv', [ListNext]_listVars, ~torn'
      PROVE  \/ Chain' = Chain
             \/ \E b \in Bufs : Chain' = <<b>> \o Chain
             \/ \E i \in DOMAIN Chain : Chain' = Cut(Chain, i)
  <2>1. PICK q \in Orders : ListOK(q)
    BY <1>1, TornStays DEF ListInv
  <2>2. Chain = q
    BY <2>1, ChainIs DEF ListOK
  <2>3. PICK r \in Orders : ListOK(r)' /\ Becomes(q, r)
    <3>1. CASE ListNext
      BY <1>1, <2>1, <3>1, ListStep DEF ListInv
    <3>2. CASE UNCHANGED listVars
      BY <2>1, <3>2, NoStep DEF Becomes
    <3>3. QED
      BY <1>1, <3>1, <3>2
  <2>4. Chain' \in Orders /\ Ring(next', Chain')
    BY <2>3 DEF Chain, ListOK
  <2>5. Chain' = r
    BY <2>3, <2>4, RingUnique DEF ListOK
  <2>6. QED
    BY <2>2, <2>3, <2>5 DEF Becomes
<1>2. QED
  BY <1>1, ListInvariant, PTL DEF ListSpec, ListIsASequence
=============================================================================
