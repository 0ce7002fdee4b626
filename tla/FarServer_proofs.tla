--------------------------- MODULE FarServer_proofs ---------------------------
(***************************************************************************)
(* Proofs about the far memory servers, for any number of servers, buffers *)
(* and blocks, any batch size and any client.  They rest on an invariant   *)
(* of one server: where its buffers are, what they hold, and how what is   *)
(* marked as conveyed relates to the memory.                               *)
(***************************************************************************)
EXTENDS FarServer, FiniteSetTheorems, SequenceTheorems, TLAPS

----------------------------------------------------------------------------
(* The invariant. *)

Distinct(q) == \A i, j \in DOMAIN q : q[i] = q[j] => i = j

\* The buffers of completions, in their order; of those not polled.
BufsOf(q) == [i \in DOMAIN q |-> q[i].buf]
Arrived(s) == BufsOf(cq[s])

\* A buffer is in one of the three queues, once.
InOneQueue(s) ==
    /\ Distinct(posted[s]) /\ Distinct(Arrived(s)) /\ Distinct(commitList[s])
    /\ Elems(posted[s]) \cap Elems(Arrived(s)) = {}
    /\ Elems(posted[s]) \cap Elems(commitList[s]) = {}
    /\ Elems(Arrived(s)) \cap Elems(commitList[s]) = {}
    /\ Bufs \subseteq Elems(posted[s]) \cup Elems(Arrived(s)) \cup Elems(commitList[s])

\* A server never has a block it cannot allocate.
BlocksOK(s) == blocks[s] \cap Unallocatable = {}

\* A buffer that arrived holds a page, and the offset noted for it is the page's.
BuffersHoldPages(s) ==
    /\ \A w \in Elems(cq[s]) : data[s][w.buf] \in delivered[s] /\ data[s][w.buf].off = w.off
    /\ \A b \in Elems(commitList[s]) :
         data[s][b] \in delivered[s] /\ data[s][b].off = imm[s][b]

\* The multicast thread works on a buffer of commit_list.
FlowListed(s) ==
    flow[s] # None => flow[s].buf \in Elems(commitList[s])
                      /\ imm[s][flow[s].buf] = flow[s].off

\* No buffer outside commit_list is marked.
OnlyListedMarked(s) == \A b \in Bufs : convey[s][b] => b \in Elems(commitList[s])

HasAtLeast(s, p) == AtLeast(mem[s][p.off], p.ver)

\* What commit_list says is conveyed is; what it says is not is being conveyed,
\* or has no block.
MarkedAreConveyed(s) ==
    \A b \in Elems(commitList[s]) :
        IF convey[s][b] THEN HasAtLeast(s, data[s][b])
        ELSE \/ flow[s] # None /\ flow[s].buf = b
             \/ BlockOf[data[s][b].off] \in Unallocatable

\* Of two pages of an offset, p is the older.
Before(p, q) == p.off = q.off => p.ver < q.ver

\* Page p is newer than the one the memory of the server holds.
NewerThanMem(s, p) == mem[s][p.off] # None => mem[s][p.off].ver < p.ver

\* The pages of an offset are conveyed in the order they arrived, which is that of
\* their numbers.
Ordered(s) ==
    /\ \A o \in Offsets : mem[s][o] # None => mem[s][o] \in delivered[s] /\ mem[s][o].off = o
    /\ \A i, j \in DOMAIN cq[s] :
         i < j => Before(data[s][cq[s][i].buf], data[s][cq[s][j].buf])
    /\ \A w \in Elems(cq[s]) : NewerThanMem(s, data[s][w.buf])
    /\ flow[s] # None =>
         /\ \A w \in Elems(cq[s]) : Before(data[s][flow[s].buf], data[s][w.buf])
         /\ convey[s][flow[s].buf] \/ NewerThanMem(s, data[s][flow[s].buf])

\* A page that arrived is somewhere.
NothingDropped(s) ==
    \A p \in delivered[s] :
        \/ HasAtLeast(s, p)
        \/ \E w \in Elems(cq[s]) : data[s][w.buf] = p
        \/ \E b \in Elems(commitList[s]) : data[s][b] = p
        \/ BlockOf[p.off] \in Unallocatable

\* What holds of a server whatever the client does ...
QueueInv(s) ==
    /\ InOneQueue(s) /\ BlocksOK(s) /\ BuffersHoldPages(s)
    /\ ~clash[s] => FlowListed(s) /\ OnlyListedMarked(s)

\* ... and what holds when the pages of an offset arrive in the order of their numbers.
OrderInv(s) == ~clash[s] => MarkedAreConveyed(s) /\ Ordered(s) /\ NothingDropped(s)

\* Page p is newer than every page of its offset that arrived.
NewestHere(s, p) == \A q \in delivered[s] : Before(q, p)

ServerInv == FarTypeOK /\ \A s \in Servers : QueueInv(s)

OrderedServerInv == ServerInv /\ \A s \in Servers : OrderInv(s)

----------------------------------------------------------------------------
(* Queues. *)

LEMMA ElemsOfSeq ==
    ASSUME NEW S, NEW q \in Seq(S)
    PROVE  /\ Elems(q) \subseteq S
           /\ \A i \in DOMAIN q : q[i] \in Elems(q)
           /\ DOMAIN q = 1 .. Len(q)
           /\ Len(q) \in Nat
BY DEF Elems

\* The head of a queue, and what is left.
LEMMA HeadAndTail ==
    ASSUME NEW S, NEW q \in Seq(S), q # <<>>
    PROVE  /\ Head(q) \in S
           /\ Tail(q) \in Seq(S)
           /\ Elems(q) = {Head(q)} \cup Elems(Tail(q))
           /\ Distinct(q) => Distinct(Tail(q)) /\ Head(q) \notin Elems(Tail(q))
<1>1. /\ Len(q) \in Nat \ {0} /\ DOMAIN q = 1 .. Len(q) /\ Head(q) = q[1]
      /\ Tail(q) \in Seq(S) /\ Len(Tail(q)) = Len(q) - 1
      /\ DOMAIN Tail(q) = 1 .. Len(q) - 1
      /\ \A i \in 1 .. Len(q) - 1 : Tail(q)[i] = q[i + 1]
  BY HeadTailProperties, LenProperties, EmptySeq
<1>2. Head(q) \in S
  BY <1>1, ElementOfSeq
<1>3. Elems(q) = {Head(q)} \cup Elems(Tail(q))
  <2>1. ASSUME NEW e \in Elems(q) PROVE e \in {Head(q)} \cup Elems(Tail(q))
    <3>1. PICK i \in 1 .. Len(q) : e = q[i]
      BY <1>1 DEF Elems
    <3>2. i # 1 => i - 1 \in DOMAIN Tail(q) /\ Tail(q)[i - 1] = e
      BY <1>1, <3>1
    <3>3. QED
      BY <1>1, <3>1, <3>2 DEF Elems
  <2>2. ASSUME NEW e \in Elems(Tail(q)) PROVE e \in Elems(q)
    <3>1. PICK i \in 1 .. Len(q) - 1 : e = q[i + 1]
      BY <1>1 DEF Elems
    <3>2. i + 1 \in DOMAIN q
      BY <1>1
    <3>3. QED
      BY <3>1, <3>2 DEF Elems
  <2>3. Head(q) \in Elems(q)
    BY <1>1 DEF Elems
  <2>4. QED
    BY <2>1, <2>2, <2>3
<1>4. ASSUME Distinct(q) PROVE Distinct(Tail(q)) /\ Head(q) \notin Elems(Tail(q))
  BY <1>1, <1>4 DEF Distinct, Elems
<1>5. QED
  BY <1>1, <1>2, <1>3, <1>4

\* One queue behind another.
LEMMA Behind ==
    ASSUME NEW S, NEW p \in Seq(S), NEW q \in Seq(S)
    PROVE  /\ p \o q \in Seq(S)
           /\ Elems(p \o q) = Elems(p) \cup Elems(q)
           /\ Distinct(p) /\ Distinct(q) /\ Elems(p) \cap Elems(q) = {} => Distinct(p \o q)
<1> DEFINE r == p \o q
<1>1. /\ r \in Seq(S) /\ Len(p) \in Nat /\ Len(q) \in Nat
      /\ DOMAIN p = 1 .. Len(p) /\ DOMAIN q = 1 .. Len(q) /\ DOMAIN r = 1 .. Len(p) + Len(q)
      /\ \A i \in 1 .. Len(p) + Len(q) : r[i] = IF i <= Len(p) THEN p[i] ELSE q[i - Len(p)]
  BY ConcatProperties, LenProperties
<1> HIDE DEF r
<1>2. Elems(r) = Elems(p) \cup Elems(q)
  <2>1. ASSUME NEW e \in Elems(r) PROVE e \in Elems(p) \cup Elems(q)
    <3>1. PICK i \in 1 .. Len(p) + Len(q) : e = r[i]
      BY <1>1 DEF Elems
    <3>2. CASE i <= Len(p)
      BY <1>1, <3>1, <3>2 DEF Elems
    <3>3. CASE i > Len(p)
      <4>1. i - Len(p) \in DOMAIN q /\ e = q[i - Len(p)]
        BY <1>1, <3>1, <3>3
      <4>2. QED
        BY <4>1 DEF Elems
    <3>4. QED
      BY <1>1, <3>2, <3>3
  <2>2. ASSUME NEW i \in DOMAIN p PROVE p[i] \in Elems(r)
    <3>1. i \in DOMAIN r /\ r[i] = p[i]
      BY <1>1
    <3>2. QED
      BY <3>1 DEF Elems
  <2>3. ASSUME NEW i \in DOMAIN q PROVE q[i] \in Elems(r)
    <3>1. i + Len(p) \in DOMAIN r /\ r[i + Len(p)] = q[i]
      BY <1>1
    <3>2. QED
      BY <3>1 DEF Elems
  <2>4. QED
    BY <2>1, <2>2, <2>3 DEF Elems
<1>3. ASSUME Distinct(p), Distinct(q), Elems(p) \cap Elems(q) = {} PROVE Distinct(r)
  <2> SUFFICES ASSUME NEW i \in DOMAIN r, NEW j \in DOMAIN r, r[i] = r[j] PROVE i = j
    BY DEF Distinct
  <2>1. \A k \in DOMAIN p, l \in DOMAIN q : p[k] # q[l]
    BY <1>3 DEF Elems
  <2>2. i \in 1 .. Len(p) + Len(q) /\ j \in 1 .. Len(p) + Len(q)
    BY <1>1
  <2>3. CASE i <= Len(p) /\ j <= Len(p)
    BY <1>1, <1>3, <2>2, <2>3 DEF Distinct
  <2>4. CASE i > Len(p) /\ j > Len(p)
    <3>1. /\ i - Len(p) \in DOMAIN q /\ j - Len(p) \in DOMAIN q
          /\ q[i - Len(p)] = q[j - Len(p)]
      BY <1>1, <2>2, <2>4
    <3>2. i - Len(p) = j - Len(p)
      BY <1>3, <3>1 DEF Distinct
    <3>3. QED
      BY <1>1, <2>2, <3>2
  <2>5. CASE i <= Len(p) /\ j > Len(p)
    <3>1. i \in DOMAIN p /\ j - Len(p) \in DOMAIN q /\ p[i] = q[j - Len(p)]
      BY <1>1, <2>2, <2>5
    <3>2. QED
      BY <2>1, <3>1
  <2>6. CASE i > Len(p) /\ j <= Len(p)
    <3>1. j \in DOMAIN p /\ i - Len(p) \in DOMAIN q /\ p[j] = q[i - Len(p)]
      BY <1>1, <2>2, <2>6
    <3>2. QED
      BY <2>1, <3>1
  <2>7. QED
    BY <1>1, <2>2, <2>3, <2>4, <2>5, <2>6
<1>4. QED
  BY <1>1, <1>2, <1>3 DEF r

LEMMA Single ==
    ASSUME NEW S, NEW e \in S
    PROVE  <<e>> \in Seq(S) /\ Elems(<<e>>) = {e} /\ Distinct(<<e>>)
<1>1. DOMAIN <<e>> = {1} /\ <<e>>[1] = e
  OBVIOUS
<1>2. QED
  BY <1>1 DEF Elems, Distinct

\* An element joins a queue, at its end or at its head.
LEMMA Joins ==
    ASSUME NEW S, NEW q \in Seq(S), NEW e \in S
    PROVE  /\ Elems(q \o <<e>>) = Elems(q) \cup {e} /\ Elems(<<e>> \o q) = Elems(q) \cup {e}
           /\ Distinct(q) /\ e \notin Elems(q) => Distinct(q \o <<e>>) /\ Distinct(<<e>> \o q)
<1> DEFINE t == <<e>>
<1>1. t \in Seq(S) /\ Elems(t) = {e} /\ Distinct(t)
  BY Single
<1> HIDE DEF t
<1>2. Elems(q \o t) = Elems(q) \cup {e} /\ Elems(t \o q) = Elems(q) \cup {e}
  BY <1>1, Behind
<1>3. Distinct(q) /\ e \notin Elems(q) => Distinct(q \o t) /\ Distinct(t \o q)
  BY <1>1, Behind
<1>4. QED
  BY <1>2, <1>3 DEF t

LEMMA ElemsOfAppend ==
    ASSUME NEW S, NEW q \in Seq(S), NEW e \in S
    PROVE  Elems(Append(q, e)) = Elems(q) \cup {e}
<1> DEFINE t == <<e>>
<1>1. t \in Seq(S) /\ Elems(t) = {e}
  BY Single
<1>2. Append(q, e) = q \o t
  BY AppendIsConcat
<1> HIDE DEF t
<1>3. QED
  BY <1>1, <1>2, Behind

\* The buffers of a queue of completions.
LEMMA BufsOfSeq ==
    ASSUME NEW q \in Seq(Completion)
    PROVE  /\ BufsOf(q) \in Seq(Bufs)
           /\ \A w \in Elems(q) : w.buf \in Elems(BufsOf(q))
           /\ \A w \in Completion : BufsOf(Append(q, w)) = BufsOf(q) \o <<w.buf>>
           /\ q # <<>> => /\ BufsOf(q) # <<>>
                          /\ Head(BufsOf(q)) = Head(q).buf
                          /\ BufsOf(Tail(q)) = Tail(BufsOf(q))
<1>1. /\ Len(q) \in Nat /\ DOMAIN q = 1 .. Len(q)
      /\ \A i \in 1 .. Len(q) : q[i] \in Completion
  BY LenProperties, ElementOfSeq
<1>2. /\ BufsOf(q) \in Seq(Bufs) /\ DOMAIN BufsOf(q) = 1 .. Len(q)
      /\ Len(BufsOf(q)) = Len(q)
  <2>1. \A i \in 1 .. Len(q) : q[i].buf \in Bufs
    BY <1>1 DEF Completion
  <2>2. BufsOf(q) \in Seq(Bufs)
    BY <1>1, <2>1, IsASeq DEF BufsOf
  <2>3. DOMAIN BufsOf(q) = 1 .. Len(q)
    BY <1>1 DEF BufsOf
  <2>4. QED
    BY <1>1, <2>2, <2>3, LenProperties
<1>3. \A w \in Elems(q) : w.buf \in Elems(BufsOf(q))
  BY <1>1, <1>2 DEF Elems, BufsOf
<1>4. ASSUME NEW w \in Completion PROVE BufsOf(Append(q, w)) = BufsOf(q) \o <<w.buf>>
  <2> DEFINE a == Append(q, w)  c == BufsOf(q) \o <<w.buf>>
  <2>1. w.buf \in Bufs /\ <<w.buf>> \in Seq(Bufs)
    BY <1>4 DEF Completion
  <2>2. /\ DOMAIN a = 1 .. Len(q) + 1 /\ a[Len(q) + 1] = w
        /\ \A i \in 1 .. Len(q) : a[i] = q[i]
    BY <1>1, AppendProperties, LenProperties
  <2>3. /\ DOMAIN c = 1 .. Len(q) + 1 /\ c[Len(q) + 1] = w.buf
        /\ \A i \in 1 .. Len(q) : c[i] = q[i].buf
    <3>1. /\ c \in Seq(Bufs) /\ Len(c) = Len(q) + 1
          /\ \A i \in 1 .. Len(q) + 1 :
               c[i] = IF i <= Len(q) THEN BufsOf(q)[i] ELSE <<w.buf>>[i - Len(q)]
      BY <1>1, <1>2, <2>1, ConcatProperties
    <3>2. \A i \in 1 .. Len(q) : BufsOf(q)[i] = q[i].buf
      BY <1>1 DEF BufsOf
    <3>3. QED
      BY <1>1, <3>1, <3>2, LenProperties
  <2>4. \A i \in 1 .. Len(q) + 1 : a[i].buf = c[i]
    <3>1. TAKE i \in 1 .. Len(q) + 1
    <3>2. i \in 1 .. Len(q) \/ i = Len(q) + 1
      BY <1>1
    <3>3. QED
      BY <2>2, <2>3, <3>2
  <2>5. BufsOf(a) = [i \in 1 .. Len(q) + 1 |-> a[i].buf]
    BY <2>2 DEF BufsOf
  <2>6. c = [i \in 1 .. Len(q) + 1 |-> c[i]]
    <3>1. c \in Seq(Bufs) /\ Len(c) = Len(q) + 1
      BY <1>1, <1>2, <2>1, ConcatProperties
    <3>2. QED
      BY <3>1, LenProperties
  <2>7. QED
    BY <2>4, <2>5, <2>6
<1>5. ASSUME q # <<>>
      PROVE  /\ BufsOf(q) # <<>>
             /\ Head(BufsOf(q)) = Head(q).buf
             /\ BufsOf(Tail(q)) = Tail(BufsOf(q))
  <2>1. /\ Len(q) # 0 /\ BufsOf(q) # <<>>
    BY <1>1, <1>2, <1>5, EmptySeq
  <2>2. /\ Head(q) = q[1] /\ DOMAIN Tail(q) = 1 .. Len(q) - 1
        /\ \A i \in 1 .. Len(q) - 1 : Tail(q)[i] = q[i + 1]
    BY <1>1, <1>5, HeadTailProperties, LenProperties
  <2>3. /\ Head(BufsOf(q)) = BufsOf(q)[1] /\ DOMAIN Tail(BufsOf(q)) = 1 .. Len(q) - 1
        /\ \A i \in 1 .. Len(q) - 1 : Tail(BufsOf(q))[i] = BufsOf(q)[i + 1]
        /\ Tail(BufsOf(q)) \in Seq(Bufs) /\ Len(Tail(BufsOf(q))) = Len(q) - 1
    BY <1>1, <1>2, <2>1, HeadTailProperties, LenProperties
  <2>4. Head(BufsOf(q)) = Head(q).buf
    BY <1>1, <2>1, <2>2, <2>3 DEF BufsOf
  <2>5. BufsOf(Tail(q)) = [i \in 1 .. Len(q) - 1 |-> Tail(q)[i].buf]
    BY <2>2 DEF BufsOf
  <2>6. \A i \in 1 .. Len(q) - 1 : Tail(q)[i].buf = Tail(BufsOf(q))[i]
    <3>1. TAKE i \in 1 .. Len(q) - 1
    <3>2. i + 1 \in DOMAIN q
      BY <1>1
    <3>3. QED
      BY <2>2, <2>3, <3>2 DEF BufsOf
  <2>7. Tail(BufsOf(q)) = [i \in 1 .. Len(q) - 1 |-> Tail(BufsOf(q))[i]]
    BY <2>3, LenProperties
  <2>8. QED
    BY <2>1, <2>4, <2>5, <2>6, <2>7
<1>6. QED
  BY <1>2, <1>3, <1>4, <1>5

----------------------------------------------------------------------------
(* Types. *)

\* A step of a server with its client, which may send any page at any time.
StepOf(s) ==
    \/ MulticastThread(s) \/ RdmaThread(s) \/ TakeReply(s)
    \/ \E r \in Requests : Call(s, r)
    \/ \E p \in Page : Receive(s, p)

\* Every page a commit conveys has its place in commit_list: they can be counted.
LEMMA ToConveyCounted ==
    ASSUME FarTypeOK, NEW s \in Servers
    PROVE  /\ ToConvey(s) \subseteq DOMAIN commitList[s]
           /\ IsFiniteSet(ToConvey(s)) /\ Cardinality(ToConvey(s)) \in Nat
<1>1. commitList[s] \in Seq(Bufs)
  BY DEF FarTypeOK
<1>2. DOMAIN commitList[s] = 1 .. Len(commitList[s]) /\ Len(commitList[s]) \in Nat
  BY <1>1, LenProperties
<1>3. ToConvey(s) \subseteq DOMAIN commitList[s]
  BY DEF ToConvey, Conveyable
<1>4. IsFiniteSet(DOMAIN commitList[s])
  BY <1>2, FS_Interval
<1>5. QED
  BY <1>3, <1>4, FS_Subset, FS_CardinalityType

LEMMA FarTypeInit == FarInit => FarTypeOK
<1> SUFFICES ASSUME FarInit PROVE FarTypeOK
  OBVIOUS
<1>1. [b \in Bufs |-> b] \in Seq(Bufs)
  BY NumBufsAssumption, IsASeq DEF Bufs
<1>2. /\ posted \in [Servers -> Seq(Bufs)] /\ cq \in [Servers -> Seq(Completion)]
      /\ commitList \in [Servers -> Seq(Bufs)]
  BY <1>1 DEF FarInit
<1>3. /\ data \in [Servers -> [Bufs -> Content]] /\ mem \in [Servers -> [Offsets -> Content]]
      /\ imm \in [Servers -> [Bufs -> Offsets \cup {None}]]
      /\ convey \in [Servers -> [Bufs -> BOOLEAN]]
  BY DEF FarInit, Content
<1>4. QED
  BY <1>2, <1>3, BlockSetsAssumption DEF FarInit, FarTypeOK

LEMMA ReceiveTypes ==
    ASSUME FarTypeOK, NEW s \in Servers, NEW p \in Page, Receive(s, p)
    PROVE  FarTypeOK'
<1> DEFINE b == Head(posted[s])
<1>1. posted[s] \in Seq(Bufs) /\ posted[s] # <<>> /\ cq[s] \in Seq(Completion)
  BY DEF Receive, FarTypeOK
<1>2. b \in Bufs /\ Tail(posted[s]) \in Seq(Bufs)
  BY <1>1, HeadAndTail
<1>3. [buf |-> b, off |-> p.off] \in Completion
  BY <1>2 DEF Completion, Page
<1>4. Append(cq[s], [buf |-> b, off |-> p.off]) \in Seq(Completion)
  BY <1>1, <1>3, AppendProperties
<1>5. posted' \in [Servers -> Seq(Bufs)]
  BY <1>2 DEF Receive, FarTypeOK
<1>6. cq' \in [Servers -> Seq(Completion)]
  BY <1>4 DEF Receive, FarTypeOK
<1>7. data' \in [Servers -> [Bufs -> Content]] /\ delivered' \in [Servers -> SUBSET Page]
  BY <1>2 DEF Receive, FarTypeOK, Content
<1>8. QED
  BY <1>5, <1>6, <1>7 DEF Receive, FarTypeOK, listVars, rmhVars, rpcVars

LEMMA FlowTypes ==
    ASSUME FarTypeOK, NEW s \in Servers, MulticastThread(s)
    PROVE  FarTypeOK'
<1>1. CASE FlowAdd(s)
  <2> DEFINE w == Head(cq[s])
  <2>1. cq[s] \in Seq(Completion) /\ cq[s] # <<>> /\ commitList[s] \in Seq(Bufs)
    BY <1>1 DEF FlowAdd, FarTypeOK
  <2>2. w \in Completion /\ Tail(cq[s]) \in Seq(Completion)
    BY <2>1, HeadAndTail
  <2>3. w.buf \in Bufs /\ w.off \in Offsets
    BY <2>2 DEF Completion
  <2>4. <<w.buf>> \o commitList[s] \in Seq(Bufs)
    BY <2>1, <2>3, Single, Behind
  <2>5. /\ cq' \in [Servers -> Seq(Completion)] /\ commitList' \in [Servers -> Seq(Bufs)]
        /\ imm' \in [Servers -> [Bufs -> Offsets \cup {None}]]
        /\ flow' \in [Servers -> Completion \cup {None}]
    BY <1>1, <2>2, <2>3, <2>4 DEF FlowAdd, FarTypeOK
  <2>6. QED
    BY <1>1, <2>5 DEF FlowAdd, FarTypeOK, rmhVars, rpcVars, historyVars
<1>2. CASE FlowConvey(s)
  <2>1. flow[s].buf \in Bufs /\ flow[s].off \in Offsets
    BY <1>2 DEF FlowConvey, FarTypeOK, Completion
  <2>2. BlockOf[flow[s].off] \in Blocks
    BY <2>1, BlockOfAssumption
  <2>3. flow' \in [Servers -> Completion \cup {None}]
    BY <1>2 DEF FlowConvey, FarTypeOK
  <2>4. /\ mem' \in [Servers -> [Offsets -> Content]] /\ blocks' \in [Servers -> SUBSET Blocks]
        /\ convey' \in [Servers -> [Bufs -> BOOLEAN]] /\ srvBatch' \in [Servers -> Nat]
    <3>1. /\ mem \in [Servers -> [Offsets -> Content]] /\ blocks \in [Servers -> SUBSET Blocks]
          /\ convey \in [Servers -> [Bufs -> BOOLEAN]] /\ srvBatch \in [Servers -> Nat]
          /\ data[s][flow[s].buf] \in Content
      BY <2>1 DEF FarTypeOK
    <3>2. CASE UNCHANGED <<mem, blocks, convey, srvBatch>>
      BY <3>1, <3>2
    <3>3. CASE ~UNCHANGED <<mem, blocks, convey, srvBatch>>
      <4>1. /\ mem' = [mem EXCEPT ![s][flow[s].off] = data[s][flow[s].buf]]
            /\ blocks' = [blocks EXCEPT ![s] = @ \cup {BlockOf[flow[s].off]}]
            /\ convey' = [convey EXCEPT ![s][flow[s].buf] = TRUE]
            /\ srvBatch' = [srvBatch EXCEPT ![s] = @ + 1]
        BY <1>2, <3>3 DEF FlowConvey
      <4>2. mem' \in [Servers -> [Offsets -> Content]]
        BY <2>1, <3>1, <4>1
      <4>3. blocks' \in [Servers -> SUBSET Blocks]
        BY <2>2, <3>1, <4>1
      <4>4. convey' \in [Servers -> [Bufs -> BOOLEAN]]
        BY <2>1, <3>1, <4>1
      <4>5. srvBatch' \in [Servers -> Nat]
        BY <3>1, <4>1
      <4>6. QED
        BY <4>2, <4>3, <4>4, <4>5
    <3>4. QED
      BY <3>2, <3>3
  <2>5. QED
    BY <1>2, <2>3, <2>4 DEF FlowConvey, FarTypeOK, queueVars, rpcVars, historyVars
<1>3. QED
  BY <1>1, <1>2 DEF MulticastThread

LEMMA CommitConveyTypes ==
    ASSUME FarTypeOK, NEW s \in Servers, BuffersHoldPages(s), CommitConvey(s)
    PROVE  FarTypeOK'
<1> DEFINE l == commitList[s]
           lastFor(o) == {i \in ToConvey(s) :
                            /\ imm[s][l[i]] = o
                            /\ \A j \in ToConvey(s) : imm[s][l[j]] = o => j <= i}
           page(o) == IF lastFor(o) = {} THEN mem[s][o]
                      ELSE data[s][l[CHOOSE i \in lastFor(o) : TRUE]]
           m == [o \in Offsets |-> page(o)]
<1>1. l \in Seq(Bufs) /\ \A i \in DOMAIN l : l[i] \in Bufs
  BY ElementOfSeq, LenProperties DEF FarTypeOK
<1>2. \A i \in ToConvey(s) : l[i] \in Bufs
  BY <1>1, ToConveyCounted
<1>3. m \in [Offsets -> Content]
  <2>1. ASSUME NEW o \in Offsets, lastFor(o) = {} PROVE page(o) \in Content
    BY <2>1 DEF FarTypeOK
  <2>2. ASSUME NEW o \in Offsets, lastFor(o) # {} PROVE page(o) \in Content
    <3>1. lastFor(o) \subseteq ToConvey(s)
      OBVIOUS
    <3> HIDE DEF lastFor
    <3>2. (CHOOSE i \in lastFor(o) : TRUE) \in lastFor(o)
      BY <2>2
    <3>3. l[CHOOSE i \in lastFor(o) : TRUE] \in Bufs
      BY <1>2, <3>1, <3>2
    <3>4. QED
      BY <2>2, <3>3 DEF FarTypeOK
  <2>3. \A o \in Offsets : page(o) \in Content
    BY <2>1, <2>2
  <2> HIDE DEF page
  <2>4. QED
    BY <2>3
<1>4. \A i \in ToConvey(s) : BlockOf[imm[s][l[i]]] \in Blocks
  <2> SUFFICES ASSUME NEW i \in ToConvey(s) PROVE imm[s][l[i]] \in Offsets
    BY BlockOfAssumption
  <2>1. l[i] \in Elems(l)
    BY ToConveyCounted DEF Elems
  <2>2. data[s][l[i]] \in Page /\ data[s][l[i]].off = imm[s][l[i]]
    BY <2>1 DEF BuffersHoldPages, FarTypeOK
  <2>3. QED
    BY <2>2 DEF Page
<1>5. mem' \in [Servers -> [Offsets -> Content]]
  <2>1. mem' = [mem EXCEPT ![s] = m]
    BY DEF CommitConvey
  <2>2. QED
    BY <1>3, <2>1 DEF FarTypeOK
<1>6. blocks' \in [Servers -> SUBSET Blocks]
  <2>1. {BlockOf[imm[s][l[i]]] : i \in ToConvey(s)} \subseteq Blocks
    BY <1>4
  <2>2. QED
    BY <2>1 DEF CommitConvey, FarTypeOK
<1>7. convey' \in [Servers -> [Bufs -> BOOLEAN]] /\ locked' \in [Servers -> BOOLEAN]
  <2>1. \A b \in Bufs : (convey[s][b] \/ \E i \in ToConvey(s) : l[i] = b) \in BOOLEAN
    BY DEF FarTypeOK
  <2>2. (Conveyable(s) = DOMAIN l) \in BOOLEAN
    OBVIOUS
  <2>3. QED
    BY <2>1, <2>2 DEF CommitConvey, FarTypeOK
<1>8. srvBatch' \in [Servers -> Nat]
  BY ToConveyCounted DEF CommitConvey, FarTypeOK
<1>9. rpcPc' \in [Servers -> {"idle", "wait", "putback", "reset"}]
  BY DEF CommitConvey, FarTypeOK
<1>10. QED
  BY <1>5, <1>6, <1>7, <1>8, <1>9 DEF CommitConvey, FarTypeOK, queueVars, historyVars

LEMMA RdmaTypes ==
    ASSUME FarTypeOK, NEW s \in Servers, BuffersHoldPages(s), RdmaThread(s)
    PROVE  FarTypeOK'
<1>1. CASE ServeOpen(s)
  <2>1. req[s].block \in Blocks
    BY <1>1 DEF ServeOpen, FarTypeOK, Requests
  <2>2. QED
    BY <1>1, <2>1 DEF ServeOpen, FarTypeOK, queueVars, listVars, historyVars
<1>2. CASE CommitEmpty(s)
  BY <1>2 DEF CommitEmpty, FarTypeOK, queueVars, listVars, rmhVars
<1>3. CASE CommitBegin(s)
  BY <1>3 DEF CommitBegin, FarTypeOK, queueVars, listVars, rmhVars, historyVars
<1>4. CASE CommitConvey(s)
  BY <1>4, CommitConveyTypes
<1>5. CASE CommitPutback(s)
  <2>1. PutBack(s) \in Seq(Bufs)
    BY Behind DEF PutBack, FarTypeOK
  <2>2. /\ posted' \in [Servers -> Seq(Bufs)] /\ commitList' \in [Servers -> Seq(Bufs)]
    BY <1>5, <2>1 DEF CommitPutback, FarTypeOK
  <2>3. convey' \in [Servers -> [Bufs -> BOOLEAN]]
    BY <1>5 DEF CommitPutback, FarTypeOK, Unmarked
  <2>4. clash' \in [Servers -> BOOLEAN]
    BY <1>5 DEF CommitPutback, FarTypeOK
  <2>5. QED
    BY <1>5, <2>2, <2>3, <2>4 DEF CommitPutback, FarTypeOK, rmhVars
<1>6. CASE CommitReset(s)
  <2>1. srvBatch' \in [Servers -> Nat]
    BY <1>6 DEF CommitReset, FarTypeOK, BatchLeft
  <2>2. QED
    BY <1>6, <2>1 DEF CommitReset, FarTypeOK, queueVars, historyVars
<1>7. QED
  BY <1>1, <1>2, <1>3, <1>4, <1>5, <1>6 DEF RdmaThread

LEMMA FarTypeStep ==
    ASSUME FarTypeOK, NEW s \in Servers, BuffersHoldPages(s), StepOf(s)
    PROVE  FarTypeOK'
<1>1. ASSUME NEW r \in Requests, Call(s, r) PROVE FarTypeOK'
  BY <1>1 DEF Call, FarTypeOK, queueVars, listVars, rmhVars, historyVars
<1>2. CASE TakeReply(s)
  BY <1>2 DEF TakeReply, FarTypeOK, queueVars, listVars, rmhVars, historyVars
<1>3. QED
  BY <1>1, <1>2, ReceiveTypes, FlowTypes, RdmaTypes DEF StepOf

\* A server's blocks stay.
LEMMA BlocksGrow ==
    ASSUME FarTypeOK, NEW s \in Servers, StepOf(s)
    PROVE  \A t \in Servers : blocks[t] \subseteq blocks'[t]
<1> SUFFICES ASSUME NEW t \in Servers PROVE blocks[t] \subseteq blocks'[t]
  OBVIOUS
<1>1. CASE blocks' = blocks
  BY <1>1
<1>2. CASE \E b : blocks' = [blocks EXCEPT ![s] = @ \cup b]
  BY <1>2 DEF FarTypeOK
<1>3. CASE FlowConvey(s) \/ ServeOpen(s) \/ CommitConvey(s)
  <2>1. blocks' = blocks \/ \E b : blocks' = [blocks EXCEPT ![s] = @ \cup b]
    BY <1>3 DEF FlowConvey, ServeOpen, CommitConvey
  <2>2. QED
    BY <1>1, <1>2, <2>1
<1>4. QED
  BY <1>1, <1>3
     DEF StepOf, MulticastThread, RdmaThread, FlowAdd, CommitEmpty, CommitBegin, CommitPutback,
         CommitReset, TakeReply, Call, Receive, rmhVars

----------------------------------------------------------------------------
(* A step concerns one server. *)

Untouched(t) ==
    /\ posted'[t] = posted[t] /\ data'[t] = data[t] /\ cq'[t] = cq[t]
    /\ commitList'[t] = commitList[t] /\ imm'[t] = imm[t] /\ convey'[t] = convey[t]
    /\ flow'[t] = flow[t] /\ blocks'[t] = blocks[t] /\ mem'[t] = mem[t]
    /\ delivered'[t] = delivered[t] /\ clash'[t] = clash[t]

LEMMA UntouchedKeeps ==
    ASSUME NEW t \in Servers, Untouched(t)
    PROVE  /\ QueueInv(t) => QueueInv(t)'
           /\ OrderInv(t) => OrderInv(t)'
<1> USE DEF Untouched
<1>1. InOneQueue(t) => InOneQueue(t)'
  BY DEF InOneQueue, Arrived
<1>2. BlocksOK(t) /\ BuffersHoldPages(t) => BlocksOK(t)' /\ BuffersHoldPages(t)'
  BY DEF BlocksOK, BuffersHoldPages
<1>3. FlowListed(t) /\ OnlyListedMarked(t) => FlowListed(t)' /\ OnlyListedMarked(t)'
  BY DEF FlowListed, OnlyListedMarked
<1>4. MarkedAreConveyed(t) => MarkedAreConveyed(t)'
  BY DEF MarkedAreConveyed, HasAtLeast, AtLeast
<1>5. Ordered(t) => Ordered(t)'
  BY DEF Ordered, NewerThanMem
<1>6. NothingDropped(t) => NothingDropped(t)'
  BY DEF NothingDropped, HasAtLeast, AtLeast
<1>7. QED
  BY <1>1, <1>2, <1>3, <1>4, <1>5, <1>6 DEF QueueInv, OrderInv

LEMMA OneServer ==
    ASSUME FarTypeOK, NEW s \in Servers, StepOf(s), NEW t \in Servers, t # s
    PROVE  Untouched(t)
<1> USE DEF FarTypeOK, Untouched, queueVars, listVars, rmhVars, historyVars, rpcVars
<1>1. CASE FlowAdd(s)
  BY <1>1 DEF FlowAdd
<1>2. CASE FlowConvey(s)
  BY <1>2 DEF FlowConvey
<1>3. CASE ServeOpen(s) \/ CommitEmpty(s) \/ CommitBegin(s)
  BY <1>3 DEF ServeOpen, CommitEmpty, CommitBegin
<1>4. CASE CommitConvey(s)
  BY <1>4 DEF CommitConvey
<1>5. CASE CommitPutback(s) \/ CommitReset(s)
  BY <1>5 DEF CommitPutback, CommitReset
<1>6. ASSUME NEW r \in Requests, Call(s, r) PROVE Untouched(t)
  BY <1>6 DEF Call
<1>7. CASE TakeReply(s)
  BY <1>7 DEF TakeReply
<1>8. ASSUME NEW p \in Page, Receive(s, p) PROVE Untouched(t)
  BY <1>8 DEF Receive
<1>9. QED
  BY <1>1, <1>2, <1>3, <1>4, <1>5, <1>6, <1>7, <1>8 DEF StepOf, MulticastThread, RdmaThread

LEMMA OnlyTheCall ==
    ASSUME NEW s \in Servers,
           \/ CommitEmpty(s) \/ CommitBegin(s) \/ CommitReset(s) \/ TakeReply(s)
           \/ \E r \in Requests : Call(s, r)
    PROVE  Untouched(s)
BY DEF CommitEmpty, CommitBegin, CommitReset, TakeReply, Call, Untouched, queueVars, listVars,
       rmhVars, historyVars

----------------------------------------------------------------------------
(* What each step does to its server. *)

LEMMA ReceiveDoes ==
    ASSUME FarTypeOK, NEW s \in Servers, NEW p \in Page, Receive(s, p), InOneQueue(s)
    PROVE  \E b \in Bufs :
             LET w == [buf |-> b, off |-> p.off] IN
             /\ b \in Elems(posted[s])
             /\ Elems(posted'[s]) = Elems(posted[s]) \ {b} /\ Distinct(posted'[s])
             /\ cq'[s] = Append(cq[s], w) /\ w \in Completion
             /\ Elems(cq'[s]) = Elems(cq[s]) \cup {w}
             /\ Arrived(s)' = Arrived(s) \o <<b>>
             /\ data'[s] = [data[s] EXCEPT ![b] = p]
             /\ delivered'[s] = delivered[s] \cup {p}
             /\ commitList' = commitList /\ imm' = imm /\ convey' = convey /\ flow' = flow
             /\ blocks' = blocks /\ mem' = mem /\ clash' = clash
<1> DEFINE b == Head(posted[s])  w == [buf |-> b, off |-> p.off]
<1>1. posted[s] \in Seq(Bufs) /\ posted[s] # <<>> /\ cq[s] \in Seq(Completion)
  BY DEF Receive, FarTypeOK
<1>2. /\ b \in Bufs /\ b \in Elems(posted[s]) /\ b \notin Elems(Tail(posted[s]))
      /\ Elems(posted[s]) = {b} \cup Elems(Tail(posted[s])) /\ Distinct(Tail(posted[s]))
  BY <1>1, HeadAndTail DEF InOneQueue
<1>3. w \in Completion
  BY <1>2 DEF Completion, Page
<1>4. cq'[s] = Append(cq[s], w) /\ posted'[s] = Tail(posted[s])
  BY DEF Receive, FarTypeOK
<1>5. Elems(posted'[s]) = Elems(posted[s]) \ {b} /\ Distinct(posted'[s])
  BY <1>2, <1>4
<1>6. Elems(Append(cq[s], w)) = Elems(cq[s]) \cup {w}
  <2> HIDE DEF w
  <2> QED
    BY <1>1, <1>3, ElemsOfAppend
<1>7. Arrived(s)' = Arrived(s) \o <<b>>
  BY <1>1, <1>3, <1>4, BufsOfSeq DEF Arrived
<1>8. /\ data'[s] = [data[s] EXCEPT ![b] = p] /\ delivered'[s] = delivered[s] \cup {p}
      /\ commitList' = commitList /\ imm' = imm /\ convey' = convey /\ flow' = flow
      /\ blocks' = blocks /\ mem' = mem /\ clash' = clash
  BY DEF Receive, FarTypeOK, listVars, rmhVars
<1> HIDE DEF b, w
<1>9. b \in Bufs
  BY <1>2
<1>10. QED
  BY <1>2, <1>3, <1>4, <1>5, <1>6, <1>7, <1>8, <1>9 DEF w

LEMMA FlowAddDoes ==
    ASSUME FarTypeOK, NEW s \in Servers, FlowAdd(s), InOneQueue(s)
    PROVE  LET w == Head(cq[s]) IN
           /\ w \in Completion /\ w \in Elems(cq[s]) /\ w.buf \in Elems(Arrived(s))
           /\ cq[s] \in Seq(Completion) /\ cq[s] # <<>> /\ cq'[s] = Tail(cq[s])
           /\ Elems(cq[s]) = {w} \cup Elems(cq'[s])
           /\ Elems(Arrived(s)') = Elems(Arrived(s)) \ {w.buf} /\ Distinct(Arrived(s)')
           /\ \A v \in Elems(cq'[s]) : v.buf # w.buf
           /\ commitList'[s] = <<w.buf>> \o commitList[s]
           /\ Elems(commitList'[s]) = Elems(commitList[s]) \cup {w.buf}
           /\ Distinct(commitList'[s]) /\ w.buf \notin Elems(commitList[s])
           /\ imm'[s] = [imm[s] EXCEPT ![w.buf] = w.off]
           /\ flow[s] = None /\ flow'[s] = w /\ w # None
           /\ posted' = posted /\ data' = data /\ convey' = convey /\ blocks' = blocks
           /\ mem' = mem /\ delivered' = delivered /\ clash' = clash
<1> DEFINE w == Head(cq[s])
<1>1. cq[s] \in Seq(Completion) /\ cq[s] # <<>> /\ commitList[s] \in Seq(Bufs)
  BY DEF FlowAdd, FarTypeOK
<1>2. /\ w \in Completion /\ w \in Elems(cq[s]) /\ Tail(cq[s]) \in Seq(Completion)
      /\ Elems(cq[s]) = {w} \cup Elems(Tail(cq[s]))
  BY <1>1, HeadAndTail
<1>3. cq'[s] = Tail(cq[s])
  BY DEF FlowAdd, FarTypeOK
<1>4. /\ Arrived(s) \in Seq(Bufs) /\ Arrived(s) # <<>> /\ Head(Arrived(s)) = w.buf
      /\ Arrived(s)' = Tail(Arrived(s))
  BY <1>1, <1>3, BufsOfSeq DEF Arrived
<1>5. /\ w.buf \in Elems(Arrived(s)) /\ Elems(Arrived(s)') = Elems(Arrived(s)) \ {w.buf}
      /\ Distinct(Arrived(s)')
  BY <1>4, HeadAndTail DEF InOneQueue
<1>6. \A v \in Elems(Tail(cq[s])) : v.buf # w.buf
  BY <1>2, <1>3, <1>5, BufsOfSeq DEF Arrived
<1>7. w.buf \in Bufs /\ w.buf \notin Elems(commitList[s])
  BY <1>2, <1>5 DEF Completion, InOneQueue
<1>8. commitList'[s] = <<w.buf>> \o commitList[s]
  BY DEF FlowAdd, FarTypeOK
<1>9. /\ Elems(commitList'[s]) = Elems(commitList[s]) \cup {w.buf}
      /\ Distinct(commitList'[s])
  <2> HIDE DEF w
  <2>1. Distinct(commitList[s])
    BY DEF InOneQueue
  <2>2. QED
    BY <1>1, <1>7, <1>8, <2>1, Joins
<1>10. /\ imm'[s] = [imm[s] EXCEPT ![w.buf] = w.off] /\ flow[s] = None /\ flow'[s] = w
       /\ posted' = posted /\ data' = data /\ convey' = convey /\ blocks' = blocks
       /\ mem' = mem /\ delivered' = delivered /\ clash' = clash
  BY DEF FlowAdd, FarTypeOK, rmhVars, historyVars
<1>11. w # None
  BY <1>2, NoCompletionAssumption
<1> HIDE DEF w
<1>12. QED
  BY <1>1, <1>2, <1>3, <1>5, <1>6, <1>7, <1>8, <1>9, <1>10, <1>11 DEF w

LEMMA FlowConveyDoes ==
    ASSUME FarTypeOK, NEW s \in Servers, FlowConvey(s)
    PROVE  LET b == flow[s].buf  o == flow[s].off IN
           /\ flow[s] # None /\ b \in Bufs /\ o \in Offsets /\ flow'[s] = None
           /\ posted' = posted /\ data' = data /\ cq' = cq /\ commitList' = commitList
           /\ imm' = imm /\ delivered' = delivered /\ clash' = clash
           /\ IF ~convey[s][b] /\ CanConvey(s, o)
              THEN /\ mem'[s] = [mem[s] EXCEPT ![o] = data[s][b]]
                   /\ blocks'[s] = blocks[s] \cup {BlockOf[o]}
                   /\ convey'[s] = [convey[s] EXCEPT ![b] = TRUE]
              ELSE mem' = mem /\ blocks' = blocks /\ convey' = convey
<1>1. flow[s].buf \in Bufs /\ flow[s].off \in Offsets
  BY DEF FlowConvey, FarTypeOK, Completion
<1>2. /\ flow[s] # None /\ flow'[s] = None
      /\ posted' = posted /\ data' = data /\ cq' = cq /\ commitList' = commitList
      /\ imm' = imm /\ delivered' = delivered /\ clash' = clash
  BY DEF FlowConvey, FarTypeOK, queueVars, historyVars
<1>3. IF ~convey[s][flow[s].buf] /\ CanConvey(s, flow[s].off)
      THEN /\ mem'[s] = [mem[s] EXCEPT ![flow[s].off] = data[s][flow[s].buf]]
           /\ blocks'[s] = blocks[s] \cup {BlockOf[flow[s].off]}
           /\ convey'[s] = [convey[s] EXCEPT ![flow[s].buf] = TRUE]
      ELSE mem' = mem /\ blocks' = blocks /\ convey' = convey
  BY DEF FlowConvey, FarTypeOK
<1>4. QED
  BY <1>1, <1>2, <1>3

LEMMA CommitConveyDoes ==
    ASSUME FarTypeOK, NEW s \in Servers, CommitConvey(s)
    PROVE  LET l == commitList[s] IN
           /\ posted' = posted /\ data' = data /\ cq' = cq /\ commitList' = commitList
           /\ imm' = imm /\ flow' = flow /\ delivered' = delivered /\ clash' = clash
           /\ l \in Seq(Bufs) /\ ToConvey(s) \subseteq DOMAIN l
           /\ \A i \in ToConvey(s) : /\ l[i] \in Elems(l) /\ ~convey[s][l[i]]
                                     /\ CanConvey(s, imm[s][l[i]])
           /\ blocks'[s] = blocks[s] \cup {BlockOf[imm[s][l[i]]] : i \in ToConvey(s)}
           /\ \A b \in Bufs : convey'[s][b] <=> convey[s][b] \/ \E i \in ToConvey(s) : l[i] = b
<1> DEFINE l == commitList[s]
<1>1. /\ posted' = posted /\ data' = data /\ cq' = cq /\ commitList' = commitList
      /\ imm' = imm /\ flow' = flow /\ delivered' = delivered /\ clash' = clash
  BY DEF CommitConvey, queueVars, historyVars
<1>2. l \in Seq(Bufs) /\ DOMAIN l = 1 .. Len(l) /\ Len(l) \in Nat
  BY LenProperties DEF FarTypeOK
<1>3. ASSUME NEW i \in ToConvey(s)
      PROVE  l[i] \in Elems(l) /\ ~convey[s][l[i]] /\ CanConvey(s, imm[s][l[i]])
  <2>1. i \in DOMAIN l /\ ~convey[s][l[i]] /\ i \in Conveyable(s)
    BY <1>3 DEF ToConvey, Conveyable
  <2>2. i \in 1 .. i
    BY <1>2, <2>1
  <2>3. QED
    BY <2>1, <2>2 DEF Conveyable, Elems
<1>4. /\ blocks'[s] = blocks[s] \cup {BlockOf[imm[s][l[i]]] : i \in ToConvey(s)}
      /\ \A b \in Bufs : convey'[s][b] <=> convey[s][b] \/ \E i \in ToConvey(s) : l[i] = b
  <2>1. blocks' = [blocks EXCEPT ![s] = @ \cup {BlockOf[imm[s][l[i]]] : i \in ToConvey(s)}]
    BY DEF CommitConvey
  <2>2. convey' = [convey EXCEPT ![s] =
                     [b \in Bufs |-> convey[s][b] \/ \E i \in ToConvey(s) : l[i] = b]]
    BY DEF CommitConvey
  <2>3. QED
    BY <2>1, <2>2 DEF FarTypeOK
<1>5. QED
  BY <1>1, <1>2, <1>3, <1>4, ToConveyCounted

LEMMA CommitPutbackDoes ==
    ASSUME FarTypeOK, NEW s \in Servers, CommitPutback(s), InOneQueue(s)
    PROVE  /\ Elems(posted'[s]) = Elems(posted[s]) \cup Elems(commitList[s])
           /\ Distinct(posted'[s]) /\ commitList'[s] = <<>> /\ Elems(commitList'[s]) = {}
           /\ \A b \in Bufs : convey'[s][b] <=> convey[s][b] /\ b \notin Elems(commitList[s])
           /\ clash'[s] <=> clash[s] \/ (flow[s] # None /\ flow[s].buf \in Elems(commitList[s]))
           /\ data' = data /\ cq' = cq /\ imm' = imm /\ flow' = flow /\ blocks' = blocks
           /\ mem' = mem /\ delivered' = delivered
<1>1. posted[s] \in Seq(Bufs) /\ commitList[s] \in Seq(Bufs)
  BY DEF FarTypeOK
<1>2. posted'[s] = posted[s] \o commitList[s]
  BY DEF CommitPutback, FarTypeOK, PutBack
<1>3. /\ Distinct(posted[s]) /\ Distinct(commitList[s])
      /\ Elems(posted[s]) \cap Elems(commitList[s]) = {}
  BY DEF InOneQueue
<1>4. /\ Elems(posted'[s]) = Elems(posted[s]) \cup Elems(commitList[s])
      /\ Distinct(posted'[s])
  BY <1>1, <1>2, <1>3, Behind
<1>5. commitList'[s] = <<>> /\ Elems(commitList'[s]) = {}
  BY DEF CommitPutback, FarTypeOK, Elems
<1>6. /\ \A b \in Bufs : convey'[s][b] <=> convey[s][b] /\ b \notin Elems(commitList[s])
      /\ clash'[s] <=> clash[s] \/ (flow[s] # None /\ flow[s].buf \in Elems(commitList[s]))
  BY DEF CommitPutback, FarTypeOK, Unmarked
<1>7. QED
  BY <1>4, <1>5, <1>6 DEF CommitPutback, rmhVars

----------------------------------------------------------------------------
(* Where the buffers are and what they hold. *)

LEMMA QueueInit ==
    ASSUME FarInit, NEW s \in Servers
    PROVE  QueueInv(s)
<1>1. /\ Elems(posted[s]) = Bufs /\ Distinct(posted[s])
      /\ Elems(cq[s]) = {} /\ Elems(commitList[s]) = {} /\ Distinct(commitList[s])
      /\ Elems(Arrived(s)) = {} /\ Distinct(Arrived(s))
  BY DEF FarInit, Elems, Distinct, Arrived, BufsOf
<1>2. BlocksOK(s)
  BY BlockSetsAssumption DEF FarInit, BlocksOK
<1>3. FlowListed(s) /\ OnlyListedMarked(s)
  BY DEF FarInit, FlowListed, OnlyListedMarked
<1>4. QED
  BY <1>1, <1>2, <1>3 DEF QueueInv, InOneQueue, BuffersHoldPages

LEMMA ReceiveKeepsQueues ==
    ASSUME FarTypeOK, NEW s \in Servers, QueueInv(s), NEW p \in Page, Receive(s, p)
    PROVE  QueueInv(s)'
<1> USE DEF QueueInv
<1>1. PICK b \in Bufs :
        LET w == [buf |-> b, off |-> p.off] IN
        /\ b \in Elems(posted[s])
        /\ Elems(posted'[s]) = Elems(posted[s]) \ {b} /\ Distinct(posted'[s])
        /\ Elems(cq'[s]) = Elems(cq[s]) \cup {w}
        /\ Arrived(s)' = Arrived(s) \o <<b>>
        /\ data'[s] = [data[s] EXCEPT ![b] = p]
        /\ delivered'[s] = delivered[s] \cup {p}
        /\ commitList' = commitList /\ imm' = imm /\ convey' = convey /\ flow' = flow
        /\ blocks' = blocks /\ mem' = mem /\ clash' = clash
  BY ReceiveDoes
<1>2. Arrived(s) \in Seq(Bufs) /\ Distinct(Arrived(s)) /\ b \notin Elems(Arrived(s))
  BY <1>1, BufsOfSeq DEF Arrived, InOneQueue, FarTypeOK
<1>3. Elems(Arrived(s)') = Elems(Arrived(s)) \cup {b} /\ Distinct(Arrived(s)')
  BY <1>1, <1>2, Joins
<1>4. InOneQueue(s)'
  <2> HIDE DEF QueueInv
  <2>1. InOneQueue(s)
    BY DEF QueueInv
  <2>2. QED
    BY <1>1, <1>3, <2>1 DEF InOneQueue
<1>5. BlocksOK(s)'
  BY <1>1 DEF BlocksOK
<1>6. BuffersHoldPages(s)'
  <2>1. data[s] \in [Bufs -> Content] /\ cq[s] \in Seq(Completion)
    BY DEF FarTypeOK
  <2>2. data'[s][b] = p /\ \A a \in Bufs : a # b => data'[s][a] = data[s][a]
    BY <1>1, <2>1
  <2>3. \A w \in Elems(cq[s]) : w.buf \in Bufs /\ w.buf # b
    <3>1. Elems(cq[s]) \subseteq Completion
      BY <2>1, ElemsOfSeq
    <3>2. \A w \in Elems(cq[s]) : w.buf \in Elems(Arrived(s))
      BY <2>1, BufsOfSeq DEF Arrived
    <3>3. QED
      BY <1>2, <3>1, <3>2 DEF Completion
  <2>4. \A a \in Elems(commitList[s]) : a \in Bufs /\ a # b
    BY <1>1, ElemsOfSeq DEF FarTypeOK, InOneQueue
  <2>5. QED
    BY <1>1, <2>2, <2>3, <2>4 DEF BuffersHoldPages
<1>7. ~clash[s]' => FlowListed(s)' /\ OnlyListedMarked(s)'
  BY <1>1 DEF FlowListed, OnlyListedMarked
<1>8. QED
  BY <1>4, <1>5, <1>6, <1>7

LEMMA FlowAddKeepsQueues ==
    ASSUME FarTypeOK, NEW s \in Servers, QueueInv(s), FlowAdd(s)
    PROVE  QueueInv(s)'
<1> DEFINE w == Head(cq[s])
<1>1. InOneQueue(s)
  BY DEF QueueInv
<1>2. /\ w \in Completion /\ w \in Elems(cq[s]) /\ w.buf \in Elems(Arrived(s))
      /\ Elems(cq[s]) = {w} \cup Elems(cq'[s])
      /\ Elems(Arrived(s)') = Elems(Arrived(s)) \ {w.buf} /\ Distinct(Arrived(s)')
      /\ Elems(commitList'[s]) = Elems(commitList[s]) \cup {w.buf}
      /\ Distinct(commitList'[s]) /\ w.buf \notin Elems(commitList[s])
      /\ imm'[s] = [imm[s] EXCEPT ![w.buf] = w.off]
      /\ flow'[s] = w
      /\ posted' = posted /\ data' = data /\ convey' = convey /\ blocks' = blocks
      /\ mem' = mem /\ delivered' = delivered /\ clash' = clash
  BY <1>1, FlowAddDoes
<1> HIDE DEF w
<1>3. w.buf \in Bufs
  BY <1>2 DEF Completion
<1>4. InOneQueue(s)'
  BY <1>1, <1>2 DEF InOneQueue
<1>5. BlocksOK(s)'
  BY <1>2 DEF BlocksOK, QueueInv
<1>6. imm'[s][w.buf] = w.off /\ \A a \in Bufs : a # w.buf => imm'[s][a] = imm[s][a]
  BY <1>2, <1>3 DEF FarTypeOK
<1>7. \A a \in Elems(commitList[s]) : a \in Bufs /\ a # w.buf
  BY <1>2, ElemsOfSeq DEF FarTypeOK
<1>8. BuffersHoldPages(s)'
  BY <1>2, <1>6, <1>7 DEF BuffersHoldPages, QueueInv
<1>9. ~clash[s]' => FlowListed(s)' /\ OnlyListedMarked(s)'
  BY <1>2, <1>6 DEF FlowListed, OnlyListedMarked, QueueInv
<1>10. QED
  BY <1>4, <1>5, <1>8, <1>9 DEF QueueInv

LEMMA ConveyKeepsQueues ==
    ASSUME FarTypeOK, NEW s \in Servers, QueueInv(s), FlowConvey(s) \/ CommitConvey(s)
    PROVE  QueueInv(s)'
<1>1. CASE FlowConvey(s)
  <2>1. InOneQueue(s)'
    BY <1>1, FlowConveyDoes DEF InOneQueue, Arrived, QueueInv
  <2>2. BuffersHoldPages(s)'
    BY <1>1, FlowConveyDoes DEF BuffersHoldPages, QueueInv
  <2>3. BlocksOK(s)'
    BY <1>1, FlowConveyDoes DEF BlocksOK, QueueInv, CanConvey
  <2>4. ~clash[s]' => FlowListed(s)' /\ OnlyListedMarked(s)'
    <3>1. \A b \in Bufs : convey'[s][b] => convey[s][b] \/ b = flow[s].buf
      <4>1. convey' = convey \/ convey'[s] = [convey[s] EXCEPT ![flow[s].buf] = TRUE]
        BY <1>1, FlowConveyDoes
      <4>2. convey[s] \in [Bufs -> BOOLEAN]
        BY DEF FarTypeOK
      <4>3. QED
        BY <4>1, <4>2
    <3>2. flow[s] # None /\ flow'[s] = None /\ commitList' = commitList /\ clash' = clash
      BY <1>1, FlowConveyDoes
    <3>3. QED
      BY <3>1, <3>2 DEF FlowListed, OnlyListedMarked, QueueInv
  <2>5. QED
    BY <2>1, <2>2, <2>3, <2>4 DEF QueueInv
<1>2. CASE CommitConvey(s)
  <2>1. InOneQueue(s)'
    BY <1>2, CommitConveyDoes DEF InOneQueue, Arrived, QueueInv
  <2>2. BuffersHoldPages(s)'
    BY <1>2, CommitConveyDoes DEF BuffersHoldPages, QueueInv
  <2>3. BlocksOK(s)'
    BY <1>2, CommitConveyDoes DEF BlocksOK, QueueInv, CanConvey
  <2>4. ~clash[s]' => FlowListed(s)' /\ OnlyListedMarked(s)'
    BY <1>2, CommitConveyDoes DEF FlowListed, OnlyListedMarked, QueueInv
  <2>5. QED
    BY <2>1, <2>2, <2>3, <2>4 DEF QueueInv
<1>3. QED
  BY <1>1, <1>2

LEMMA PutbackKeepsQueues ==
    ASSUME FarTypeOK, NEW s \in Servers, QueueInv(s), CommitPutback(s)
    PROVE  QueueInv(s)'
<1>1. InOneQueue(s)
  BY DEF QueueInv
<1>2. /\ Elems(posted'[s]) = Elems(posted[s]) \cup Elems(commitList[s])
      /\ Distinct(posted'[s]) /\ commitList'[s] = <<>> /\ Elems(commitList'[s]) = {}
      /\ \A b \in Bufs : convey'[s][b] <=> convey[s][b] /\ b \notin Elems(commitList[s])
      /\ clash'[s] <=> clash[s] \/ (flow[s] # None /\ flow[s].buf \in Elems(commitList[s]))
      /\ data' = data /\ cq' = cq /\ imm' = imm /\ flow' = flow /\ blocks' = blocks
      /\ mem' = mem /\ delivered' = delivered
  BY <1>1, CommitPutbackDoes
<1>3. InOneQueue(s)'
  <2>1. Distinct(<<>>)
    BY DEF Distinct
  <2>2. QED
    BY <1>1, <1>2, <2>1 DEF InOneQueue, Arrived
<1>4. BlocksOK(s)' /\ BuffersHoldPages(s)'
  BY <1>2 DEF BlocksOK, BuffersHoldPages, QueueInv
<1>5. ~clash[s]' => FlowListed(s)' /\ OnlyListedMarked(s)'
  BY <1>2 DEF FlowListed, OnlyListedMarked, QueueInv
<1>6. QED
  BY <1>3, <1>4, <1>5 DEF QueueInv

LEMMA QueueStep ==
    ASSUME ServerInv, NEW s \in Servers, StepOf(s)
    PROVE  ServerInv'
<1>1. FarTypeOK /\ \A t \in Servers : QueueInv(t)
  BY DEF ServerInv
<1>2. FarTypeOK'
  BY <1>1, FarTypeStep DEF QueueInv
<1>3. ASSUME NEW t \in Servers, t # s PROVE QueueInv(t)'
  BY <1>1, <1>3, OneServer, UntouchedKeeps
<1>4. QueueInv(s)'
  <2>1. CASE \/ CommitEmpty(s) \/ CommitBegin(s) \/ CommitReset(s) \/ TakeReply(s)
             \/ \E r \in Requests : Call(s, r)
    BY <1>1, <2>1, OnlyTheCall, UntouchedKeeps
  <2>2. CASE ServeOpen(s)
    <3>1. /\ blocks'[s] = blocks[s] \cup {req[s].block} /\ req[s].block \notin Unallocatable \ blocks[s]
          /\ UNCHANGED <<queueVars, listVars, mem, historyVars>>
      BY <1>1, <2>2 DEF ServeOpen, FarTypeOK
    <3>2. BlocksOK(s)'
      BY <1>1, <3>1 DEF QueueInv, BlocksOK
    <3>3. InOneQueue(s)' /\ BuffersHoldPages(s)'
      BY <1>1, <3>1 DEF QueueInv, InOneQueue, Arrived, BuffersHoldPages, queueVars, listVars,
                        historyVars
    <3>4. ~clash[s]' => FlowListed(s)' /\ OnlyListedMarked(s)'
      BY <1>1, <3>1 DEF QueueInv, FlowListed, OnlyListedMarked, queueVars, listVars, historyVars
    <3>5. QED
      BY <3>2, <3>3, <3>4 DEF QueueInv
  <2>3. QED
    BY <1>1, <2>1, <2>2, ReceiveKeepsQueues, FlowAddKeepsQueues, ConveyKeepsQueues,
       PutbackKeepsQueues DEF StepOf, MulticastThread, RdmaThread
<1>5. QED
  BY <1>2, <1>3, <1>4 DEF ServerInv

LEMMA ServerInvStep ==
    ASSUME ServerInv, [\E s \in Servers : StepOf(s)]_serverVars
    PROVE  ServerInv'
<1>1. CASE \E s \in Servers : StepOf(s)
  BY <1>1, QueueStep
<1>2. CASE UNCHANGED serverVars
  <2>1. FarTypeOK'
    BY <1>2 DEF ServerInv, FarTypeOK, serverVars, queueVars, listVars, rmhVars, rpcVars,
                historyVars
  <2>2. \A t \in Servers : Untouched(t)
    BY <1>2 DEF Untouched, serverVars, queueVars, listVars, rmhVars, historyVars
  <2>3. QED
    BY <2>1, <2>2, UntouchedKeeps DEF ServerInv
<1>3. QED
  BY <1>1, <1>2

----------------------------------------------------------------------------
(* What the invariant says of the buffers. *)

LEMMA OncePerQueue ==
    ASSUME NEW q, Distinct(q), NEW e
    PROVE  Cardinality({i \in DOMAIN q : q[i] = e}) = IF e \in Elems(q) THEN 1 ELSE 0
<1>1. CASE e \in Elems(q)
  <2>1. PICK i \in DOMAIN q : q[i] = e
    BY <1>1 DEF Elems
  <2>2. {j \in DOMAIN q : q[j] = e} = {i}
    BY <2>1 DEF Distinct
  <2>3. QED
    BY <1>1, <2>2, FS_Singleton
<1>2. CASE e \notin Elems(q)
  <2>1. {i \in DOMAIN q : q[i] = e} = {}
    BY <1>2 DEF Elems
  <2>2. QED
    BY <1>2, <2>1, FS_EmptySet
<1>3. QED
  BY <1>1, <1>2

LEMMA InvConserves == ServerInv => BuffersConserved
<1> SUFFICES ASSUME ServerInv, NEW s \in Servers, NEW b \in Bufs PROVE Places(s, b) = 1
  BY DEF BuffersConserved
<1>1. InOneQueue(s)
  BY DEF ServerInv, QueueInv
<1>2. {i \in DOMAIN cq[s] : cq[s][i].buf = b} = {i \in DOMAIN Arrived(s) : Arrived(s)[i] = b}
  BY DEF Arrived, BufsOf
<1>3. Places(s, b) = (IF b \in Elems(posted[s]) THEN 1 ELSE 0)
                     + (IF b \in Elems(Arrived(s)) THEN 1 ELSE 0)
                     + (IF b \in Elems(commitList[s]) THEN 1 ELSE 0)
  BY <1>1, <1>2, OncePerQueue DEF Places, InOneQueue
<1>4. QED
  BY <1>1, <1>3 DEF InOneQueue

LEMMA InvClean == ServerInv => PostedBuffersCleanUnlessClash
<1> SUFFICES ASSUME ServerInv, NEW s \in Servers, ~clash[s], NEW b \in Elems(posted[s])
             PROVE  ~convey[s][b]
  BY DEF PostedBuffersCleanUnlessClash
<1>1. b \in Bufs
  BY ElemsOfSeq DEF ServerInv, FarTypeOK
<1>2. b \notin Elems(commitList[s]) /\ OnlyListedMarked(s)
  BY DEF ServerInv, QueueInv, InOneQueue
<1>3. QED
  BY <1>1, <1>2 DEF OnlyListedMarked

----------------------------------------------------------------------------
(* In which order pages reach the memory. *)

LEMMA OrderInit ==
    ASSUME FarInit, NEW s \in Servers
    PROVE  OrderInv(s)
<1>1. /\ DOMAIN cq[s] = {} /\ Elems(cq[s]) = {} /\ Elems(commitList[s]) = {}
      /\ flow[s] = None /\ delivered[s] = {} /\ \A o \in Offsets : mem[s][o] = None
  BY DEF FarInit, Elems
<1>2. QED
  BY <1>1 DEF OrderInv, MarkedAreConveyed, Ordered, NothingDropped

\* The pages that arrived are pages; their buffers are buffers.
LEMMA PagesHeld ==
    ASSUME ServerInv, NEW s \in Servers
    PROVE  /\ delivered[s] \subseteq Page /\ cq[s] \in Seq(Completion)
           /\ \A p \in Page : p # None /\ p.off \in Offsets /\ p.ver \in Int
           /\ \A w \in Elems(cq[s]) : /\ w.buf \in Bufs /\ w.buf \in Elems(Arrived(s))
                                      /\ data[s][w.buf] \in delivered[s]
                                      /\ data[s][w.buf].off = w.off
           /\ \A b \in Elems(commitList[s]) :
                /\ b \in Bufs /\ data[s][b] \in delivered[s] /\ data[s][b].off = imm[s][b]
<1>1. /\ delivered[s] \subseteq Page /\ cq[s] \in Seq(Completion)
      /\ commitList[s] \in Seq(Bufs)
  BY DEF ServerInv, FarTypeOK
<1>2. \A p \in Page : p # None /\ p.off \in Offsets /\ p.ver \in Int
  BY MaxStoresAssumption, NoneAssumption DEF Page
<1>3. BuffersHoldPages(s)
  BY DEF ServerInv, QueueInv
<1>4. \A w \in Elems(cq[s]) : w.buf \in Bufs
  <2>1. Elems(cq[s]) \subseteq Completion
    BY <1>1, ElemsOfSeq
  <2>2. QED
    BY <2>1 DEF Completion
<1>5. \A w \in Elems(cq[s]) : w.buf \in Elems(Arrived(s))
  BY <1>1, BufsOfSeq DEF Arrived
<1>6. \A b \in Elems(commitList[s]) : b \in Bufs
  BY <1>1, ElemsOfSeq
<1>7. QED
  BY <1>1, <1>2, <1>3, <1>4, <1>5, <1>6 DEF BuffersHoldPages

LEMMA ReceiveKeepsOrder ==
    ASSUME ServerInv, NEW s \in Servers, OrderInv(s), ~clash[s],
           NEW p \in Page, NewestHere(s, p), Receive(s, p)
    PROVE  OrderInv(s)'
<1>1. FarTypeOK /\ InOneQueue(s) /\ FlowListed(s)
  BY DEF ServerInv, QueueInv
<1>2. PICK b \in Bufs :
        LET w == [buf |-> b, off |-> p.off] IN
        /\ b \in Elems(posted[s])
        /\ cq'[s] = Append(cq[s], w) /\ w \in Completion
        /\ Elems(cq'[s]) = Elems(cq[s]) \cup {w}
        /\ data'[s] = [data[s] EXCEPT ![b] = p]
        /\ delivered'[s] = delivered[s] \cup {p}
        /\ commitList' = commitList /\ convey' = convey /\ flow' = flow
        /\ mem' = mem /\ clash' = clash
  BY <1>1, ReceiveDoes
<1> DEFINE w == [buf |-> b, off |-> p.off]
<1>3. data'[s][b] = p /\ \A a \in Bufs : a # b => data'[s][a] = data[s][a]
  BY <1>1, <1>2 DEF FarTypeOK
<1>4. \A v \in Elems(cq[s]) : data'[s][v.buf] = data[s][v.buf]
  BY <1>1, <1>2, <1>3, PagesHeld DEF InOneQueue
<1>5. \A a \in Elems(commitList[s]) : data'[s][a] = data[s][a]
  BY <1>1, <1>2, <1>3, PagesHeld DEF InOneQueue
<1>6. MarkedAreConveyed(s) /\ Ordered(s) /\ NothingDropped(s)
  BY DEF OrderInv
<1>7. MarkedAreConveyed(s)'
  BY <1>2, <1>5, <1>6 DEF MarkedAreConveyed, HasAtLeast, AtLeast
<1>8. NewerThanMem(s, p)
  BY <1>6, PagesHeld DEF Ordered, NewestHere, Before, NewerThanMem
<1>9. Ordered(s)'
  <2>1. \A o \in Offsets : mem'[s][o] # None => mem'[s][o] \in delivered'[s] /\ mem'[s][o].off = o
    BY <1>2, <1>6 DEF Ordered
  <2>2. ASSUME NEW i \in DOMAIN cq'[s], NEW j \in DOMAIN cq'[s], i < j
        PROVE  Before(data'[s][cq'[s][i].buf], data'[s][cq'[s][j].buf])
    <3>1. /\ DOMAIN cq[s] = 1 .. Len(cq[s]) /\ DOMAIN cq'[s] = 1 .. Len(cq[s]) + 1
          /\ Len(cq[s]) \in Nat /\ cq'[s][Len(cq[s]) + 1] = w
          /\ \A k \in 1 .. Len(cq[s]) : cq'[s][k] = cq[s][k]
      BY <1>2, PagesHeld, AppendProperties, LenProperties
    <3>2. i \in DOMAIN cq[s] /\ cq'[s][i] = cq[s][i] /\ cq[s][i] \in Elems(cq[s])
      BY <2>2, <3>1 DEF Elems
    <3>3. CASE j = Len(cq[s]) + 1
      <4>1. data'[s][cq'[s][j].buf] = p
        BY <1>3, <3>1, <3>3
      <4>2. data'[s][cq'[s][i].buf] \in delivered[s]
        BY <1>4, <3>2, PagesHeld
      <4>3. QED
        BY <4>1, <4>2 DEF NewestHere
    <3>4. CASE j # Len(cq[s]) + 1
      <4>1. j \in DOMAIN cq[s] /\ cq'[s][j] = cq[s][j] /\ cq[s][j] \in Elems(cq[s])
        BY <3>1, <3>4 DEF Elems
      <4>2. Before(data[s][cq[s][i].buf], data[s][cq[s][j].buf])
        BY <1>6, <2>2, <3>2, <4>1 DEF Ordered
      <4>3. QED
        BY <1>4, <3>2, <4>1, <4>2
    <3>5. QED
      BY <3>3, <3>4
  <2>3. \A v \in Elems(cq'[s]) : NewerThanMem(s, data[s][v.buf])'
    <3>1. w.buf = b /\ \A v \in Elems(cq'[s]) : v \in Elems(cq[s]) \/ v = w
      BY <1>2
    <3>2. \A v \in Elems(cq[s]) : NewerThanMem(s, data[s][v.buf])
      BY <1>6 DEF Ordered
    <3>3. QED
      BY <1>2, <1>3, <1>4, <1>8, <3>1, <3>2 DEF NewerThanMem
  <2>4. ASSUME flow'[s] # None
        PROVE  /\ \A v \in Elems(cq'[s]) : Before(data'[s][flow'[s].buf], data'[s][v.buf])
               /\ convey'[s][flow'[s].buf] \/ NewerThanMem(s, data[s][flow[s].buf])'
    <3>1. /\ flow[s] # None /\ data'[s][flow'[s].buf] = data[s][flow[s].buf]
          /\ data[s][flow[s].buf] \in delivered[s]
      BY <1>1, <1>2, <1>5, <2>4, PagesHeld DEF FlowListed
    <3>2. \A v \in Elems(cq[s]) : Before(data[s][flow[s].buf], data[s][v.buf])
      BY <1>6, <3>1 DEF Ordered
    <3>3. Before(data[s][flow[s].buf], p)
      BY <3>1 DEF NewestHere
    <3>4. convey[s][flow[s].buf] \/ NewerThanMem(s, data[s][flow[s].buf])
      BY <1>6, <3>1 DEF Ordered
    <3>5. w.buf = b /\ \A v \in Elems(cq'[s]) : v \in Elems(cq[s]) \/ v = w
      BY <1>2
    <3>6. QED
      BY <1>2, <1>3, <1>4, <3>1, <3>2, <3>3, <3>4, <3>5 DEF NewerThanMem
  <2> HIDE DEF w
  <2>5. QED
    BY <2>1, <2>2, <2>3, <2>4 DEF Ordered
<1>10. NothingDropped(s)'
  <2> SUFFICES ASSUME NEW q \in delivered'[s]
               PROVE  \/ HasAtLeast(s, q)'
                      \/ \E v \in Elems(cq'[s]) : data'[s][v.buf] = q
                      \/ \E a \in Elems(commitList'[s]) : data'[s][a] = q
                      \/ BlockOf[q.off] \in Unallocatable
    BY DEF NothingDropped
  <2>1. CASE q = p
    <3>1. w \in Elems(cq'[s]) /\ w.buf = b
      BY <1>2
    <3>2. QED
      BY <1>3, <2>1, <3>1
  <2>2. CASE q \in delivered[s]
    BY <1>2, <1>4, <1>5, <1>6, <2>2 DEF NothingDropped, HasAtLeast, AtLeast
  <2>3. QED
    BY <1>2, <2>1, <2>2
<1>11. QED
  BY <1>7, <1>9, <1>10 DEF OrderInv

LEMMA FlowAddKeepsOrder ==
    ASSUME ServerInv, NEW s \in Servers, OrderInv(s), ~clash[s], FlowAdd(s)
    PROVE  OrderInv(s)'
<1> DEFINE w == Head(cq[s])
<1>1. FarTypeOK /\ InOneQueue(s) /\ OnlyListedMarked(s)
  BY DEF ServerInv, QueueInv
<1>2. /\ w \in Completion /\ w \in Elems(cq[s])
      /\ cq[s] \in Seq(Completion) /\ cq[s] # <<>> /\ cq'[s] = Tail(cq[s])
      /\ Elems(cq[s]) = {w} \cup Elems(cq'[s])
      /\ Elems(commitList'[s]) = Elems(commitList[s]) \cup {w.buf}
      /\ w.buf \notin Elems(commitList[s])
      /\ flow[s] = None /\ flow'[s] = w /\ w # None
      /\ data' = data /\ convey' = convey
      /\ mem' = mem /\ delivered' = delivered /\ clash' = clash
  BY <1>1, FlowAddDoes
<1>3. /\ Len(cq[s]) \in Nat \ {0} /\ DOMAIN cq[s] = 1 .. Len(cq[s]) /\ w = cq[s][1]
      /\ DOMAIN cq'[s] = 1 .. Len(cq[s]) - 1
      /\ \A i \in 1 .. Len(cq[s]) - 1 : cq'[s][i] = cq[s][i + 1]
  BY <1>2, HeadTailProperties, LenProperties, EmptySeq
<1> HIDE DEF w
<1>4. ~convey[s][w.buf]
  BY <1>1, <1>2 DEF OnlyListedMarked, Completion
<1>5. MarkedAreConveyed(s) /\ Ordered(s) /\ NothingDropped(s)
  BY DEF OrderInv
<1>6. MarkedAreConveyed(s)'
  BY <1>2, <1>4, <1>5 DEF MarkedAreConveyed, HasAtLeast, AtLeast
<1>7. Ordered(s)'
  <2>1. \A o \in Offsets : mem'[s][o] # None => mem'[s][o] \in delivered'[s] /\ mem'[s][o].off = o
    BY <1>2, <1>5 DEF Ordered
  <2>2. ASSUME NEW i \in DOMAIN cq'[s], NEW j \in DOMAIN cq'[s], i < j
        PROVE  Before(data'[s][cq'[s][i].buf], data'[s][cq'[s][j].buf])
    <3>1. i + 1 \in DOMAIN cq[s] /\ j + 1 \in DOMAIN cq[s] /\ i + 1 < j + 1
      BY <1>3, <2>2
    <3>2. Before(data[s][cq[s][i + 1].buf], data[s][cq[s][j + 1].buf])
      BY <1>5, <3>1 DEF Ordered
    <3>3. QED
      BY <1>2, <1>3, <3>2
  <2>3. \A v \in Elems(cq'[s]) : NewerThanMem(s, data[s][v.buf])'
    BY <1>2, <1>5 DEF Ordered, NewerThanMem
  <2>4. ASSUME NEW v \in Elems(cq'[s])
        PROVE  Before(data'[s][flow'[s].buf], data'[s][v.buf])
    <3>1. PICK i \in 1 .. Len(cq[s]) - 1 : v = cq[s][i + 1]
      BY <1>3 DEF Elems
    <3>2. 1 \in DOMAIN cq[s] /\ i + 1 \in DOMAIN cq[s] /\ 1 < i + 1
      BY <1>3, <3>1
    <3>3. Before(data[s][cq[s][1].buf], data[s][cq[s][i + 1].buf])
      BY <1>5, <3>2 DEF Ordered
    <3>4. QED
      BY <1>2, <1>3, <3>1, <3>3
  <2>5. NewerThanMem(s, data[s][flow[s].buf])'
    BY <1>2, <1>5 DEF Ordered, NewerThanMem
  <2>6. QED
    BY <2>1, <2>2, <2>3, <2>4, <2>5 DEF Ordered
<1>8. NothingDropped(s)'
  <2> SUFFICES ASSUME NEW q \in delivered'[s]
               PROVE  \/ HasAtLeast(s, q)'
                      \/ \E v \in Elems(cq'[s]) : data'[s][v.buf] = q
                      \/ \E a \in Elems(commitList'[s]) : data'[s][a] = q
                      \/ BlockOf[q.off] \in Unallocatable
    BY DEF NothingDropped
  <2>1. \/ HasAtLeast(s, q)
        \/ \E v \in Elems(cq[s]) : data[s][v.buf] = q
        \/ \E a \in Elems(commitList[s]) : data[s][a] = q
        \/ BlockOf[q.off] \in Unallocatable
    BY <1>2, <1>5 DEF NothingDropped
  <2>2. ASSUME NEW v \in Elems(cq[s]), data[s][v.buf] = q
        PROVE  \/ \E u \in Elems(cq'[s]) : data'[s][u.buf] = q
               \/ \E a \in Elems(commitList'[s]) : data'[s][a] = q
    BY <1>2, <2>2
  <2>3. QED
    BY <1>2, <2>1, <2>2 DEF HasAtLeast, AtLeast
<1>9. QED
  BY <1>6, <1>7, <1>8 DEF OrderInv

\* The multicast thread's page is conveyed, by itself or by a commit ...
ConveysFlow(s) ==
    LET b == flow[s].buf  o == flow[s].off IN
    /\ flow[s] # None /\ ~convey[s][b]
    /\ mem'[s] = [mem[s] EXCEPT ![o] = data[s][b]]
    /\ \A a \in Bufs : convey'[s][a] <=> convey[s][a] \/ a = b
    /\ flow'[s] \in {flow[s], None}

\* ... or nothing is.
ConveysNone(s) ==
    /\ mem'[s] = mem[s] /\ \A a \in Bufs : convey'[s][a] <=> convey[s][a]
    /\ \/ flow'[s] = flow[s]
       \/ /\ flow'[s] = None /\ flow[s] # None
          /\ convey[s][flow[s].buf] \/ BlockOf[flow[s].off] \in Unallocatable

QueuesUnchanged(s) ==
    /\ data'[s] = data[s] /\ cq'[s] = cq[s] /\ commitList'[s] = commitList[s]
    /\ delivered'[s] = delivered[s] /\ clash'[s] = clash[s]

\* What conveying the multicast thread's page does to the memory.
LEMMA ConveyedPage ==
    ASSUME ServerInv, NEW s \in Servers, OrderInv(s), ~clash[s], ConveysFlow(s)
    PROVE  LET b == flow[s].buf  o == flow[s].off  p == data[s][b] IN
           /\ b \in Elems(commitList[s]) /\ b \in Bufs /\ o \in Offsets
           /\ p \in delivered[s] /\ p \in Page /\ p.off = o /\ p # None
           /\ mem'[s][o] = p /\ \A x \in Offsets : x # o => mem'[s][x] = mem[s][x]
           /\ NewerThanMem(s, p)
           /\ \A w \in Elems(cq[s]) : Before(p, data[s][w.buf])
           /\ \A q \in Page : HasAtLeast(s, q) => HasAtLeast(s, q)'
<1> DEFINE b == flow[s].buf  o == flow[s].off  p == data[s][b]
<1>1. flow[s] # None /\ FlowListed(s)
  BY DEF ConveysFlow, ServerInv, QueueInv
<1>2. b \in Elems(commitList[s]) /\ imm[s][b] = o
  BY <1>1 DEF FlowListed
<1>3. b \in Bufs /\ p \in delivered[s] /\ p \in Page /\ p.off = o /\ o \in Offsets /\ p # None
  BY <1>2, PagesHeld
<1>4. mem'[s][o] = p /\ \A x \in Offsets : x # o => mem'[s][x] = mem[s][x]
  BY <1>3 DEF ConveysFlow, ServerInv, FarTypeOK
<1>5. NewerThanMem(s, p) /\ \A w \in Elems(cq[s]) : Before(p, data[s][w.buf])
  BY <1>1 DEF OrderInv, Ordered, ConveysFlow
<1>6. ASSUME NEW q \in Page, HasAtLeast(s, q) PROVE HasAtLeast(s, q)'
  <2>1. q.off \in Offsets /\ q.ver \in Int /\ p.ver \in Int
    BY <1>3, PagesHeld
  <2>2. CASE q.off # o
    BY <1>4, <1>6, <2>1, <2>2 DEF HasAtLeast, AtLeast
  <2>3. CASE q.off = o
    <3>1. mem[s][o] # None /\ mem[s][o].ver >= q.ver /\ mem[s][o].ver < p.ver
      BY <1>3, <1>5, <1>6, <2>3 DEF HasAtLeast, AtLeast, NewerThanMem
    <3>2. mem[s][o].ver \in Int
      <4>1. mem[s][o] \in Content
        BY <1>3 DEF ServerInv, FarTypeOK
      <4>2. QED
        BY <3>1, <4>1, PagesHeld DEF Content
    <3>3. p.ver >= q.ver
      BY <2>1, <3>1, <3>2
    <3>4. QED
      BY <1>3, <1>4, <2>3, <3>3 DEF HasAtLeast, AtLeast
  <2>4. QED
    BY <2>2, <2>3
<1>7. QED
  BY <1>2, <1>3, <1>4, <1>5, <1>6

LEMMA ConveysFlowKeepsOrder ==
    ASSUME ServerInv, NEW s \in Servers, OrderInv(s), ~clash[s],
           ConveysFlow(s), QueuesUnchanged(s)
    PROVE  OrderInv(s)'
<1> DEFINE b == flow[s].buf  o == flow[s].off  p == data[s][b]
<1>1. /\ b \in Elems(commitList[s]) /\ b \in Bufs /\ o \in Offsets
      /\ p \in delivered[s] /\ p \in Page /\ p.off = o /\ p # None
      /\ mem'[s][o] = p /\ \A x \in Offsets : x # o => mem'[s][x] = mem[s][x]
      /\ NewerThanMem(s, p)
      /\ \A w \in Elems(cq[s]) : Before(p, data[s][w.buf])
      /\ \A q \in Page : HasAtLeast(s, q) => HasAtLeast(s, q)'
  BY ConveyedPage
<1>2. /\ flow[s] # None /\ \A a \in Bufs : convey'[s][a] <=> convey[s][a] \/ a = b
      /\ flow'[s] \in {flow[s], None}
      /\ data'[s] = data[s] /\ cq'[s] = cq[s] /\ commitList'[s] = commitList[s]
      /\ delivered'[s] = delivered[s] /\ clash'[s] = clash[s]
  BY DEF ConveysFlow, QueuesUnchanged
<1>3. MarkedAreConveyed(s) /\ Ordered(s) /\ NothingDropped(s)
  BY DEF OrderInv
<1> HIDE DEF b, o, p
<1>4. MarkedAreConveyed(s)'
  <2> SUFFICES ASSUME NEW a \in Elems(commitList[s])
               PROVE  IF convey'[s][a] THEN HasAtLeast(s, data[s][a])'
                      ELSE BlockOf[data[s][a].off] \in Unallocatable
    BY <1>2 DEF MarkedAreConveyed, HasAtLeast, AtLeast
  <2>1. a \in Bufs /\ data[s][a] \in Page
    BY PagesHeld
  <2>2. CASE a = b
    <3>1. p.ver >= p.ver
      BY <1>1, PagesHeld
    <3>2. AtLeast(mem'[s][p.off], p.ver)
      BY <1>1, <1>2, <3>1 DEF AtLeast
    <3>3. HasAtLeast(s, data[s][a])'
      BY <3>2, <2>2, <1>2 DEF p, HasAtLeast, AtLeast
    <3>4. QED
      BY <1>2, <2>1, <2>2, <3>3
  <2>3. CASE a # b /\ convey[s][a]
    <3>1. HasAtLeast(s, data[s][a])
      BY <1>3, <2>3 DEF MarkedAreConveyed
    <3>2. HasAtLeast(s, data[s][a])'
      BY <1>1, <1>2, <2>1, <3>1 DEF HasAtLeast, AtLeast
    <3>3. QED
      BY <1>2, <2>1, <2>3, <3>2
  <2>4. CASE a # b /\ ~convey[s][a]
    BY <1>2, <1>3, <2>1, <2>4 DEF MarkedAreConveyed, b
  <2>5. QED
    BY <2>2, <2>3, <2>4
<1>5. Ordered(s)'
  <2>1. \A x \in Offsets : mem'[s][x] # None => mem'[s][x] \in delivered'[s] /\ mem'[s][x].off = x
    BY <1>1, <1>2, <1>3 DEF Ordered
  <2>2. \A i, j \in DOMAIN cq'[s] :
          i < j => Before(data'[s][cq'[s][i].buf], data'[s][cq'[s][j].buf])
    BY <1>2, <1>3 DEF Ordered
  <2>3. ASSUME NEW v \in Elems(cq[s]) PROVE NewerThanMem(s, data[s][v.buf])'
    <3>1. data[s][v.buf].off \in Offsets
      BY PagesHeld
    <3>2. NewerThanMem(s, data[s][v.buf]) /\ Before(p, data[s][v.buf])
      BY <1>1, <1>3 DEF Ordered
    <3>3. QED
      BY <1>1, <1>2, <3>1, <3>2 DEF NewerThanMem, Before
  <2>4. flow'[s] # None =>
          /\ \A w \in Elems(cq'[s]) : Before(data'[s][flow'[s].buf], data'[s][w.buf])
          /\ convey'[s][flow'[s].buf]
    BY <1>1, <1>2 DEF b, p
  <2>5. QED
    BY <1>2, <2>1, <2>2, <2>3, <2>4 DEF Ordered
<1>6. NothingDropped(s)'
  <2> SUFFICES ASSUME NEW q \in delivered[s]
               PROVE  \/ HasAtLeast(s, q)'
                      \/ \E v \in Elems(cq[s]) : data[s][v.buf] = q
                      \/ \E a \in Elems(commitList[s]) : data[s][a] = q
                      \/ BlockOf[q.off] \in Unallocatable
    BY <1>2 DEF NothingDropped, HasAtLeast, AtLeast
  <2>1. q \in Page
    BY PagesHeld
  <2>2. QED
    BY <1>1, <1>3, <2>1 DEF NothingDropped
<1>7. QED
  BY <1>4, <1>5, <1>6 DEF OrderInv

LEMMA ConveysNoneKeepsOrder ==
    ASSUME ServerInv, NEW s \in Servers, OrderInv(s), ~clash[s],
           ConveysNone(s), QueuesUnchanged(s)
    PROVE  OrderInv(s)'
<1>1. /\ mem'[s] = mem[s] /\ \A a \in Bufs : convey'[s][a] <=> convey[s][a]
      /\ data'[s] = data[s] /\ cq'[s] = cq[s] /\ commitList'[s] = commitList[s]
      /\ delivered'[s] = delivered[s] /\ clash'[s] = clash[s]
      /\ flow'[s] # None => flow'[s] = flow[s]
  BY DEF ConveysNone, QueuesUnchanged
<1>2. MarkedAreConveyed(s) /\ Ordered(s) /\ NothingDropped(s)
  BY DEF OrderInv
<1>3. FlowListed(s)
  BY DEF ServerInv, QueueInv
<1>4. MarkedAreConveyed(s)'
  <2> SUFFICES ASSUME NEW a \in Elems(commitList[s])
               PROVE  IF convey'[s][a] THEN HasAtLeast(s, data[s][a])
                      ELSE \/ flow'[s] # None /\ flow'[s].buf = a
                           \/ BlockOf[data[s][a].off] \in Unallocatable
    BY <1>1 DEF MarkedAreConveyed, HasAtLeast, AtLeast
  <2>1. a \in Bufs /\ data[s][a].off = imm[s][a]
    BY PagesHeld
  <2>2. CASE convey[s][a]
    BY <1>1, <1>2, <2>1, <2>2 DEF MarkedAreConveyed
  <2>3. CASE ~convey[s][a] /\ flow[s] # None /\ flow[s].buf = a
    <3>1. \/ flow'[s] = flow[s]
          \/ BlockOf[flow[s].off] \in Unallocatable
      BY <2>3 DEF ConveysNone
    <3>2. data[s][a].off = flow[s].off
      BY <1>3, <2>1, <2>3 DEF FlowListed
    <3>3. QED
      BY <1>1, <2>1, <2>3, <3>1, <3>2
  <2>4. CASE ~convey[s][a] /\ ~(flow[s] # None /\ flow[s].buf = a)
    BY <1>1, <1>2, <2>1, <2>4 DEF MarkedAreConveyed
  <2>5. QED
    BY <2>2, <2>3, <2>4
<1>5. Ordered(s)'
  <2>1. flow[s] # None => flow[s].buf \in Bufs
    BY <1>3, PagesHeld DEF FlowListed
  <2>2. QED
    BY <1>1, <1>2, <2>1 DEF Ordered, NewerThanMem
<1>6. NothingDropped(s)'
  BY <1>1, <1>2 DEF NothingDropped, HasAtLeast, AtLeast
<1>7. QED
  BY <1>4, <1>5, <1>6 DEF OrderInv

LEMMA FlowConveyIs ==
    ASSUME ServerInv, NEW s \in Servers, FlowConvey(s)
    PROVE  QueuesUnchanged(s) /\ (ConveysFlow(s) \/ ConveysNone(s))
<1> DEFINE b == flow[s].buf  o == flow[s].off
<1>1. FarTypeOK
  BY DEF ServerInv
<1>2. /\ flow[s] # None /\ b \in Bufs /\ flow'[s] = None
      /\ QueuesUnchanged(s)
      /\ IF ~convey[s][b] /\ CanConvey(s, o)
         THEN /\ mem'[s] = [mem[s] EXCEPT ![o] = data[s][b]]
              /\ convey'[s] = [convey[s] EXCEPT ![b] = TRUE]
         ELSE mem' = mem /\ convey' = convey
  BY <1>1, FlowConveyDoes DEF QueuesUnchanged
<1>3. CASE ~convey[s][b] /\ CanConvey(s, o)
  <2>1. convey[s] \in [Bufs -> BOOLEAN] /\ convey'[s] = [convey[s] EXCEPT ![b] = TRUE]
    BY <1>1, <1>2, <1>3 DEF FarTypeOK
  <2>2. \A a \in Bufs : convey'[s][a] <=> convey[s][a] \/ a = b
    BY <2>1
  <2>3. ConveysFlow(s)
    BY <1>2, <1>3, <2>2 DEF ConveysFlow
  <2>4. QED
    BY <1>2, <2>3
<1>4. CASE ~(~convey[s][b] /\ CanConvey(s, o))
  <2>1. convey[s][b] \/ BlockOf[o] \in Unallocatable
    BY <1>4 DEF CanConvey
  <2>2. ConveysNone(s)
    BY <1>2, <1>4, <2>1 DEF ConveysNone
  <2>3. QED
    BY <1>2, <2>2
<1>5. QED
  BY <1>3, <1>4

\* All a commit can find to convey is the page the multicast thread is at.
LEMMA CommitConveyIs ==
    ASSUME ServerInv, NEW s \in Servers, OrderInv(s), ~clash[s], CommitConvey(s)
    PROVE  QueuesUnchanged(s) /\ (ConveysFlow(s) \/ ConveysNone(s))
<1> DEFINE l == commitList[s]
           lastFor(o) == {i \in ToConvey(s) :
                            /\ imm[s][l[i]] = o
                            /\ \A j \in ToConvey(s) : imm[s][l[j]] = o => j <= i}
           page(o) == IF lastFor(o) = {} THEN mem[s][o]
                      ELSE data[s][l[CHOOSE i \in lastFor(o) : TRUE]]
<1>1. FarTypeOK /\ InOneQueue(s) /\ FlowListed(s) /\ BlocksOK(s)
  BY DEF ServerInv, QueueInv
<1>2. /\ QueuesUnchanged(s) /\ flow' = flow
      /\ l \in Seq(Bufs) /\ ToConvey(s) \subseteq DOMAIN l
      /\ \A i \in ToConvey(s) : /\ l[i] \in Elems(l) /\ ~convey[s][l[i]]
                                /\ CanConvey(s, imm[s][l[i]])
      /\ \A b \in Bufs : convey'[s][b] <=> convey[s][b] \/ \E i \in ToConvey(s) : l[i] = b
  BY <1>1, CommitConveyDoes DEF QueuesUnchanged
<1>3. mem[s] \in [Offsets -> Content] /\ mem'[s] = [o \in Offsets |-> page(o)]
  BY <1>1 DEF CommitConvey, FarTypeOK
<1>4. ASSUME NEW i \in ToConvey(s)
      PROVE  /\ flow[s] # None /\ l[i] = flow[s].buf /\ imm[s][l[i]] = flow[s].off
             /\ flow[s].off \in Offsets /\ i \in Int
  <2>1. /\ data[s][l[i]].off = imm[s][l[i]] /\ imm[s][l[i]] \in Offsets
    BY <1>2, PagesHeld
  <2>2. BlockOf[data[s][l[i]].off] \notin Unallocatable
    BY <1>1, <1>2, <2>1 DEF CanConvey, BlocksOK
  <2>3. flow[s] # None /\ l[i] = flow[s].buf
    BY <1>2, <2>2 DEF OrderInv, MarkedAreConveyed
  <2>4. i \in Int
    BY <1>2, LenProperties
  <2>5. QED
    BY <1>1, <2>1, <2>3, <2>4 DEF FlowListed
<1>5. CASE ToConvey(s) = {}
  <2>1. \A o \in Offsets : page(o) = mem[s][o]
    BY <1>5
  <2> HIDE DEF page
  <2>2. mem'[s] = mem[s]
    BY <1>3, <2>1
  <2>3. ConveysNone(s)
    BY <1>2, <1>5, <2>2 DEF ConveysNone
  <2>4. QED
    BY <1>2, <2>3
<1>6. ASSUME NEW i \in ToConvey(s) PROVE ConveysFlow(s)
  <2>1. ToConvey(s) = {i}
    BY <1>1, <1>2, <1>4 DEF InOneQueue, Distinct
  <2>2. /\ flow[s] # None /\ l[i] = flow[s].buf /\ imm[s][l[i]] = flow[s].off
        /\ flow[s].off \in Offsets /\ i \in Int
    BY <1>4
  <2>3. lastFor(flow[s].off) = {i} /\ \A o \in Offsets : o # flow[s].off => lastFor(o) = {}
    <3>1. i <= i
      BY <2>2
    <3>2. QED
      BY <2>1, <2>2, <3>1
  <2> HIDE DEF lastFor
  <2>4. (CHOOSE j \in {i} : TRUE) = i
    OBVIOUS
  <2>5. \A o \in Offsets :
          page(o) = IF o = flow[s].off THEN data[s][flow[s].buf] ELSE mem[s][o]
    BY <2>2, <2>3, <2>4
  <2> HIDE DEF page
  <2>6. mem'[s] = [mem[s] EXCEPT ![flow[s].off] = data[s][flow[s].buf]]
    BY <1>3, <2>2, <2>5
  <2>7. \A b \in Bufs : convey'[s][b] <=> convey[s][b] \/ b = flow[s].buf
    BY <1>2, <2>1, <2>2
  <2>8. ~convey[s][flow[s].buf]
    BY <1>2, <2>2
  <2>9. QED
    BY <1>2, <2>2, <2>6, <2>7, <2>8 DEF ConveysFlow
<1>7. QED
  BY <1>2, <1>5, <1>6

LEMMA PutbackKeepsOrder ==
    ASSUME ServerInv, NEW s \in Servers, OrderInv(s), CommitPutback(s), ~clash'[s]
    PROVE  OrderInv(s)'
<1>1. FarTypeOK /\ InOneQueue(s) /\ (~clash[s] => FlowListed(s))
  BY DEF ServerInv, QueueInv
<1>2. /\ Elems(commitList'[s]) = {}
      /\ ~clash[s] /\ ~(flow[s] # None /\ flow[s].buf \in Elems(commitList[s]))
      /\ data' = data /\ cq' = cq /\ flow' = flow /\ mem' = mem /\ delivered' = delivered
  BY <1>1, CommitPutbackDoes
<1>3. flow[s] = None
  BY <1>1, <1>2 DEF FlowListed
<1>4. MarkedAreConveyed(s) /\ Ordered(s) /\ NothingDropped(s)
  BY <1>2 DEF OrderInv
<1>5. MarkedAreConveyed(s)'
  BY <1>2 DEF MarkedAreConveyed
<1>6. Ordered(s)'
  BY <1>2, <1>3, <1>4 DEF Ordered, NewerThanMem
<1>7. NothingDropped(s)'
  <2> SUFFICES ASSUME NEW q \in delivered[s]
               PROVE  \/ HasAtLeast(s, q)
                      \/ \E v \in Elems(cq[s]) : data[s][v.buf] = q
                      \/ BlockOf[q.off] \in Unallocatable
    BY <1>2 DEF NothingDropped, HasAtLeast, AtLeast
  <2>1. \A b \in Elems(commitList[s]) :
          HasAtLeast(s, data[s][b]) \/ BlockOf[data[s][b].off] \in Unallocatable
    BY <1>3, <1>4 DEF MarkedAreConveyed
  <2>2. QED
    BY <1>4, <2>1 DEF NothingDropped
<1>8. QED
  BY <1>5, <1>6, <1>7 DEF OrderInv

----------------------------------------------------------------------------
(* A step of a server at which the pages of an offset arrive in the order  *)
(* of their numbers.                                                       *)

OrderedStepOf(s) ==
    \/ MulticastThread(s) \/ RdmaThread(s) \/ TakeReply(s)
    \/ \E r \in Requests : Call(s, r)
    \/ \E p \in Page : NewestHere(s, p) /\ Receive(s, p)

\* MemoryMovesForwardUnlessClash says this of every step, but that what changes is a page.
Forward(s) ==
    \A o \in Offsets : ~clash'[s] /\ mem'[s][o] # mem[s][o] =>
        /\ mem'[s][o] # None /\ mem'[s][o].off = o
        /\ mem[s][o] # None => mem'[s][o].ver > mem[s][o].ver

LEMMA ConveyMovesForward ==
    ASSUME ServerInv, NEW s \in Servers, OrderInv(s), ~clash[s],
           ConveysFlow(s) \/ ConveysNone(s)
    PROVE  Forward(s)
<1>1. CASE ConveysFlow(s)
  <2> DEFINE o == flow[s].off  p == data[s][flow[s].buf]
  <2>1. /\ p \in Page /\ p.off = o /\ p # None
        /\ mem'[s][o] = p /\ \A x \in Offsets : x # o => mem'[s][x] = mem[s][x]
        /\ NewerThanMem(s, p)
    BY <1>1, ConveyedPage
  <2> SUFFICES ASSUME NEW x \in Offsets, mem'[s][x] # mem[s][x]
               PROVE  /\ mem'[s][x] # None /\ mem'[s][x].off = x
                      /\ mem[s][x] # None => mem'[s][x].ver > mem[s][x].ver
    BY DEF Forward
  <2>2. x = o /\ mem'[s][x] = p
    BY <2>1
  <2>3. ASSUME mem[s][x] # None PROVE p.ver > mem[s][x].ver
    <3>1. mem[s][x] \in Page
      BY <2>3 DEF ServerInv, FarTypeOK, Content
    <3>2. p.ver \in Int /\ mem[s][x].ver \in Int /\ mem[s][x].ver < p.ver
      BY <2>1, <2>3, <3>1, PagesHeld DEF NewerThanMem
    <3>3. QED
      BY <3>2
  <2>4. QED
    BY <2>1, <2>2, <2>3
<1>2. CASE ConveysNone(s)
  BY <1>2 DEF ConveysNone, Forward
<1>3. QED
  BY <1>1, <1>2

\* The step of one server keeps its own part of the invariant.
LEMMA OrderKept ==
    ASSUME ServerInv, NEW s \in Servers, OrderInv(s), OrderedStepOf(s)
    PROVE  OrderInv(s)' /\ Forward(s)
<1>1. FarTypeOK /\ InOneQueue(s)
  BY DEF ServerInv, QueueInv
<1>2. CASE \/ CommitEmpty(s) \/ CommitBegin(s) \/ CommitReset(s) \/ TakeReply(s)
           \/ \E r \in Requests : Call(s, r)
  BY <1>2, OnlyTheCall, UntouchedKeeps DEF Forward, Untouched
<1>3. CASE ServeOpen(s)
  <2>1. UNCHANGED <<queueVars, listVars, mem, historyVars>>
    BY <1>3 DEF ServeOpen
  <2>2. MarkedAreConveyed(s) => MarkedAreConveyed(s)'
    BY <2>1 DEF MarkedAreConveyed, HasAtLeast, AtLeast, queueVars, listVars
  <2>3. Ordered(s) => Ordered(s)'
    BY <2>1 DEF Ordered, NewerThanMem, queueVars, listVars, historyVars
  <2>4. NothingDropped(s) => NothingDropped(s)'
    BY <2>1 DEF NothingDropped, HasAtLeast, AtLeast, queueVars, listVars, historyVars
  <2>5. QED
    BY <2>1, <2>2, <2>3, <2>4 DEF OrderInv, Forward, historyVars
<1>4. CASE FlowAdd(s) \/ \E p \in Page : NewestHere(s, p) /\ Receive(s, p)
  <2>1. clash' = clash /\ mem' = mem
    BY <1>1, <1>4 DEF FlowAdd, Receive, rmhVars, historyVars
  <2>2. CASE clash[s]
    BY <2>1, <2>2 DEF OrderInv, Forward
  <2>3. CASE ~clash[s]
    BY <1>4, <2>1, <2>3, FlowAddKeepsOrder, ReceiveKeepsOrder DEF Forward
  <2>4. QED
    BY <2>2, <2>3
<1>5. CASE FlowConvey(s) \/ CommitConvey(s)
  <2>1. CASE clash[s]
    <3>1. clash'[s]
      BY <1>5, <2>1 DEF FlowConvey, CommitConvey, historyVars
    <3>2. QED
      BY <3>1 DEF OrderInv, Forward
  <2>2. CASE ~clash[s]
    <3>1. QueuesUnchanged(s) /\ (ConveysFlow(s) \/ ConveysNone(s))
      BY <1>5, <2>2, FlowConveyIs, CommitConveyIs
    <3>2. QED
      BY <2>2, <3>1, ConveysFlowKeepsOrder, ConveysNoneKeepsOrder, ConveyMovesForward
  <2>3. QED
    BY <2>1, <2>2
<1>6. CASE CommitPutback(s)
  <2>1. mem' = mem
    BY <1>6 DEF CommitPutback, rmhVars
  <2>2. QED
    BY <1>6, <2>1, PutbackKeepsOrder DEF Forward, OrderInv
<1>7. QED
  BY <1>2, <1>3, <1>4, <1>5, <1>6 DEF OrderedStepOf, MulticastThread, RdmaThread

LEMMA OrderStep ==
    ASSUME OrderedServerInv, [\E s \in Servers : OrderedStepOf(s)]_serverVars
    PROVE  OrderedServerInv' /\ \A t \in Servers : Forward(t)
<1>1. ServerInv /\ \A t \in Servers : OrderInv(t)
  BY DEF OrderedServerInv
<1>2. ASSUME NEW s \in Servers, OrderedStepOf(s)
      PROVE  OrderedServerInv' /\ \A t \in Servers : Forward(t)
  <2>1. StepOf(s)
    BY <1>2 DEF StepOf, OrderedStepOf
  <2>2. ServerInv'
    BY <1>1, <2>1, QueueStep
  <2>3. OrderInv(s)' /\ Forward(s)
    BY <1>1, <1>2, OrderKept
  <2>4. ASSUME NEW t \in Servers, t # s PROVE OrderInv(t)' /\ Forward(t)
    <3>1. Untouched(t)
      BY <1>1, <2>1, <2>4, OneServer DEF ServerInv
    <3>2. QED
      BY <1>1, <3>1, UntouchedKeeps DEF Untouched, Forward
  <2>5. QED
    BY <2>2, <2>3, <2>4 DEF OrderedServerInv
<1>3. CASE UNCHANGED serverVars
  <2>1. ServerInv'
    BY <1>1, <1>3, ServerInvStep
  <2>2. \A t \in Servers : Untouched(t)
    BY <1>3 DEF Untouched, serverVars, queueVars, listVars, rmhVars, historyVars
  <2>3. QED
    BY <1>1, <2>1, <2>2, UntouchedKeeps DEF OrderedServerInv, Untouched, Forward
<1>4. QED
  BY <1>2, <1>3

----------------------------------------------------------------------------
(* The servers under any client. *)

\* The pages are numbered in the order they arrive.
DeliveredCounted(s) ==
    /\ IsFiniteSet(delivered[s])
    /\ \A p \in delivered[s] : p.ver <= Cardinality(delivered[s])

FarInv == OrderedServerInv /\ \A s \in Servers : DeliveredCounted(s)

LEMMA FarInvInit == FarInit => FarInv
<1> SUFFICES ASSUME FarInit PROVE FarInv
  OBVIOUS
<1>1. \A s \in Servers : DeliveredCounted(s)
  BY FS_EmptySet DEF FarInit, DeliveredCounted
<1>2. QED
  BY <1>1, FarTypeInit, QueueInit, OrderInit DEF FarInv, OrderedServerInv, ServerInv

LEMMA AnyClientStep ==
    ASSUME FarInv, NEW s \in Servers, ClientStep(s)
    PROVE  OrderedStepOf(s) /\ DeliveredCounted(s)'
<1>1. FarTypeOK /\ DeliveredCounted(s) /\ IsFiniteSet(delivered[s]) /\ Cardinality(delivered[s]) \in Nat
  BY FS_CardinalityType DEF FarInv, OrderedServerInv, ServerInv, DeliveredCounted
<1>2. CASE TakeReply(s) \/ \E r \in Requests : Call(s, r)
  BY <1>1, <1>2 DEF OrderedStepOf, TakeReply, Call, historyVars, DeliveredCounted
<1>3. ASSUME NEW o \in Offsets, Cardinality(delivered[s]) < MaxStores,
             Receive(s, [off |-> o, ver |-> Cardinality(delivered[s]) + 1])
      PROVE  OrderedStepOf(s) /\ DeliveredCounted(s)'
  <2> DEFINE n == Cardinality(delivered[s])  p == [off |-> o, ver |-> n + 1]
  <2>1. p \in Page /\ p.ver = n + 1
    BY <1>1, <1>3, MaxStoresAssumption DEF Page
  <2>2. \A q \in delivered[s] : q.ver \in Int /\ q.ver <= n
    <3>1. delivered[s] \subseteq Page
      BY <1>1 DEF FarTypeOK
    <3>2. QED
      BY <1>1, <3>1 DEF DeliveredCounted, Page
  <2>3. NewestHere(s, p)
    BY <1>1, <2>1, <2>2 DEF NewestHere, Before
  <2>4. delivered'[s] = delivered[s] \cup {p} /\ p \notin delivered[s]
    <3>1. delivered'[s] = delivered[s] \cup {p}
      BY <1>1, <1>3 DEF Receive, FarTypeOK
    <3>2. QED
      BY <1>1, <2>1, <2>2, <3>1
  <2> HIDE DEF p
  <2>5. IsFiniteSet(delivered'[s]) /\ Cardinality(delivered'[s]) = n + 1
    BY <1>1, <2>4, FS_AddElement
  <2>6. \A q \in delivered'[s] : q.ver <= n + 1
    BY <1>1, <2>1, <2>2, <2>4
  <2>7. DeliveredCounted(s)'
    BY <2>5, <2>6 DEF DeliveredCounted
  <2>8. QED
    BY <1>3, <2>1, <2>3, <2>7 DEF OrderedStepOf, p
<1>4. QED
  BY <1>2, <1>3 DEF ClientStep

LEMMA FarInvStep == FarInv /\ [FarNext]_serverVars => FarInv' /\ \A s \in Servers : Forward(s)
<1> SUFFICES ASSUME FarInv, [FarNext]_serverVars PROVE FarInv' /\ \A s \in Servers : Forward(s)
  OBVIOUS
<1>1. OrderedServerInv /\ ServerInv /\ FarTypeOK /\ \A s \in Servers : DeliveredCounted(s)
  BY DEF FarInv, OrderedServerInv, ServerInv
<1>2. ASSUME NEW s \in Servers, MulticastThread(s) \/ RdmaThread(s) \/ ClientStep(s)
      PROVE  FarInv' /\ \A t \in Servers : Forward(t)
  <2>1. OrderedStepOf(s)
    BY <1>2, AnyClientStep DEF OrderedStepOf
  <2>2. OrderedServerInv' /\ \A t \in Servers : Forward(t)
    BY <1>1, <2>1, OrderStep
  <2>3. DeliveredCounted(s)'
    <3>1. CASE ClientStep(s)
      BY <3>1, AnyClientStep
    <3>2. CASE MulticastThread(s) \/ RdmaThread(s)
      <4>1. delivered' = delivered
        BY <3>2 DEF MulticastThread, RdmaThread, FlowAdd, FlowConvey, ServeOpen, CommitEmpty,
                    CommitBegin, CommitConvey, CommitPutback, CommitReset, historyVars
      <4>2. QED
        BY <1>1, <4>1 DEF DeliveredCounted
    <3>3. QED
      BY <1>2, <3>1, <3>2
  <2>4. ASSUME NEW t \in Servers, t # s PROVE DeliveredCounted(t)'
    <3>1. Untouched(t)
      BY <1>1, <2>1, <2>4, OneServer DEF StepOf, OrderedStepOf
    <3>2. QED
      BY <1>1, <3>1 DEF Untouched, DeliveredCounted
  <2>5. QED
    BY <2>2, <2>3, <2>4 DEF FarInv
<1>3. CASE UNCHANGED serverVars
  <2>1. OrderedServerInv' /\ \A t \in Servers : Forward(t)
    BY <1>1, <1>3, OrderStep
  <2>2. \A t \in Servers : DeliveredCounted(t)'
    BY <1>1, <1>3 DEF DeliveredCounted, serverVars, historyVars
  <2>3. QED
    BY <2>1, <2>2 DEF FarInv
<1>4. QED
  BY <1>2, <1>3 DEF FarNext

LEMMA InvDropsNothing == OrderedServerInv => NoPageDroppedUnlessClash
<1> SUFFICES ASSUME OrderedServerInv, NEW s \in Servers, ~clash[s], NEW p \in delivered[s]
             PROVE  NotDropped(s, p)
  BY DEF NoPageDroppedUnlessClash
<1>1. ServerInv /\ p \in Page /\ NothingDropped(s)
  BY DEF OrderedServerInv, ServerInv, FarTypeOK, OrderInv
<1>2. Replaces(p, p)
  BY <1>1, PagesHeld DEF Replaces, Page
<1>3. QED
  BY <1>1, <1>2 DEF NothingDropped, NotDropped, HasAtLeast

\* In every state the servers reach, their invariant holds.
THEOREM FarInvariant == FarSpec => []FarInv
BY FarInvInit, FarInvStep, PTL DEF FarSpec

\* Every variable of the servers holds a value of its type.
THEOREM FarTypeCorrect == FarSpec => []FarTypeOK
<1>1. FarInv => FarTypeOK
  BY DEF FarInv, OrderedServerInv, ServerInv
<1>2. QED
  BY <1>1, FarInvariant, PTL

\* No receive buffer is lost or posted twice, however list_add of the multicast
\* thread and the two loops of the commit handler interleave (lib/handler.c).
THEOREM BuffersAreConserved == FarSpec => []BuffersConserved
<1>1. FarInv => BuffersConserved
  BY InvConserves DEF FarInv, OrderedServerInv
<1>2. QED
  BY <1>1, FarInvariant, PTL

\* A buffer waits for its next page with its convey mark cleared
\* (ib_putback_recv_work), until a commit puts back the buffer the multicast thread
\* is about to convey; any client that sends during a commit can bring that about.
THEOREM PostedBuffersAreClean == FarSpec => []PostedBuffersCleanUnlessClash
<1>1. FarInv => PostedBuffersCleanUnlessClash
  BY InvClean DEF FarInv, OrderedServerInv
<1>2. QED
  BY <1>1, FarInvariant, PTL

\* Until a commit puts back the buffer the multicast thread is about to convey, a
\* page that arrived, or a newer one of its offset, is in the memory or in a buffer
\* some thread will come to, unless its block cannot be had.
THEOREM NoPageIsDropped == FarSpec => []NoPageDroppedUnlessClash
<1>1. FarInv => NoPageDroppedUnlessClash
  BY InvDropsNothing DEF FarInv
<1>2. QED
  BY <1>1, FarInvariant, PTL

\* Until a commit puts back the buffer the multicast thread is about to convey,
\* ib_convey_page never overwrites a page with an older one, whichever thread calls it.
THEOREM MemoryMoves == FarSpec => MemoryMovesForwardUnlessClash
<1>1. FarInv /\ [FarNext]_serverVars =>
        [\A s \in Servers, o \in Offsets :
           ~clash'[s] /\ mem'[s][o] # mem[s][o] =>
             /\ mem'[s][o].off = o
             /\ mem[s][o] # None => mem'[s][o].ver > mem[s][o].ver]_serverVars
  BY FarInvStep DEF Forward
<1>2. QED
  BY <1>1, FarInvariant, PTL DEF FarSpec, MemoryMovesForwardUnlessClash
=============================================================================
