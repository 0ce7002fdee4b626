-------------------------- MODULE TestClient_proofs --------------------------
(***************************************************************************)
(* Proofs about the servers and the test client, for any number of         *)
(* servers, buffers, offsets and blocks and any batch size: what the       *)
(* servers promise holds of them here too, and the test reads back what it *)
(* sent unless a commit found commit_list empty.                           *)
(***************************************************************************)
EXTENDS TestClient, FarServer_proofs

----------------------------------------------------------------------------
(* The invariant. *)

\* The pages of the batch, by their number, that arrived at the server.
Seen == {v \in ia + 1 .. sent : \E p \in delivered[Main] : p.ver = v}

Increasing(q) == \A i, j \in DOMAIN q : i < j => q[i].ver < q[j].ver

\* Page p is newer than every page that arrived.
Newest(s, p) == \A q \in delivered[s] : q.ver < p.ver

\* Pages arrive in the order they were sent, if they do.
Numbered ==
    \A s \in Servers :
      /\ \A p \in delivered[s] : p.ver <= sent
      /\ \A p \in Elems(net[s]) : p.ver <= sent /\ Newest(s, p)
      /\ Increasing(net[s])

\* Before which call, or at what answer, the test is.
CallsOK ==
    /\ step \in {"open", "send", "sending", "commit", "check"} =>
         req[Main] = None /\ rep[Main] = None /\ rpcPc[Main] = "idle"
    /\ step = "opening" =>
         /\ rpcPc[Main] = "idle"
         /\ \/ /\ req[Main] # None /\ rep[Main] = None
               /\ req[Main].op = "open" /\ req[Main].block = BlockOrder[opened + 1]
            \/ /\ req[Main] = None /\ rep[Main] = "opened"
               /\ BlockOrder[opened + 1] \in blocks[Main]
    /\ step = "committing" =>
         \/ req[Main] # None /\ rep[Main] = None /\ req[Main].op = "commit"
         \/ req[Main] = None /\ rep[Main] = "committed" /\ rpcPc[Main] = "idle"

\* The batches it has sent.
BatchesOK ==
    /\ step \in {"open", "opening"} => ia = 0 /\ sent = 0 /\ opened < Len(BlockOrder)
    /\ step \in {"open", "opening", "send", "sending", "commit", "committing"} =>
         SlotOf(ia) = 0 /\ ia + SERVER_BATCH <= MaxStores
    /\ step = "send" => sent < ia + SERVER_BATCH
    /\ step = "sending" => ia < sent /\ sent <= ia + SERVER_BATCH
    /\ step \in {"commit", "committing"} => sent = ia + SERVER_BATCH
    /\ step = "check" => ia < sent /\ sent <= ia + SERVER_BATCH /\ SlotOf(sent) = 0

\* What it has opened, and noted of the pages of the batch.
NotesOK ==
    /\ \A k \in 1 .. opened : BlockOrder[k] \in blocks[Main]
    /\ step \in Steps \ {"open", "opening"} => opened = Len(BlockOrder)
    /\ \A p \in delivered[Main] \cup Elems(net[Main]) : p.ver > ia =>
         p.off = offsetlist[SlotOf(p.ver - 1)] /\ p.off \in TestOffsets

Uncommitted ==
    \/ step \in {"open", "opening", "send", "sending", "commit"}
    \/ step = "committing" /\ rep[Main] = None /\ rpcPc[Main] \notin {"putback", "reset"}

\* The pages the server has counted, and those it may count yet.
Pending == srvBatch[Main] + (IF flow[Main] = None THEN 0 ELSE 1) + Len(cq[Main])

\* Until the commit gets through, the server counts no page that did not arrive;
\* then it has counted every page of the batch, and is at none.
BatchCounted ==
    /\ ~clash[Main]
    /\ Uncommitted =>
         /\ Pending <= Cardinality(Seen)
         /\ flow[Main] # None => ~convey[Main][flow[Main].buf]
         /\ \A p \in Elems(net[Main]) : p.ver > ia
    /\ step \in Steps /\ ~Uncommitted =>
         /\ flow[Main] = None /\ cq[Main] = <<>> /\ net[Main] = <<>>
         /\ Seen = ia + 1 .. sent
         /\ rpcPc[Main] \in {"idle", "reset"} => commitList[Main] = <<>>
         /\ rpcPc[Main] = "idle" => srvBatch[Main] = 0

\* When the test is over nobody calls its server.
EndsQuiet ==
    step \in Ends => ~clash[Main] /\ rpcPc[Main] = "idle" /\ req[Main] = None

TestInv ==
    /\ TestTypeOK /\ OrderedServerInv
    /\ client = "any" => \A s \in Servers : DeliveredCounted(s) /\ net[s] = <<>>
    /\ client = "any" => step = "open"
    /\ client = "test" => /\ Numbered
                          /\ step \in Steps => CallsOK /\ BatchesOK /\ NotesOK
                          /\ step \in Steps /\ ~early[Main] => BatchCounted
                          /\ ~early[Main] => step # "mismatch" /\ EndsQuiet

----------------------------------------------------------------------------
(* The slots of offsetlist. *)

LEMMA Multiples ==
    ASSUME NEW k \in Int, NEW n \in Nat \ {0}
    PROVE  /\ k > 0 => n * k >= n
           /\ k < 0 => n * k <= -n
<1>1. ASSUME k > 0 PROVE n * k >= n
  <2>1. n * (k - 1) >= 0
    BY <1>1
  <2>2. n * k = n * (k - 1) + n
    OBVIOUS
  <2>3. QED
    BY <2>1, <2>2
<1>2. ASSUME k < 0 PROVE n * k <= -n
  <2>1. n * (-k - 1) >= 0
    BY <1>2
  <2>2. n * k = -(n * (-k - 1)) - n
    OBVIOUS
  <2>3. QED
    BY <2>1, <2>2
<1>3. QED
  BY <1>1, <1>2

LEMMA Division ==
    ASSUME NEW v \in Nat
    PROVE  \E q \in Int : v = SERVER_BATCH * q + SlotOf(v) /\ SlotOf(v) \in 0 .. SERVER_BATCH - 1
<1>1. SERVER_BATCH \in Nat \ {0}
  BY ServerBatchAssumption
<1>2. v \div SERVER_BATCH \in Int /\ v % SERVER_BATCH \in 0 .. SERVER_BATCH - 1
  BY <1>1
<1>3. v = SERVER_BATCH * (v \div SERVER_BATCH) + (v % SERVER_BATCH)
  BY <1>1
<1>4. QED
  BY <1>2, <1>3 DEF SlotOf

\* The pages of a batch have slots of their own, and the next batch starts again.
LEMMA SlotsOfBatch ==
    /\ \A v \in Nat : SlotOf(v) \in 0 .. SERVER_BATCH - 1
    /\ \A v, w \in Nat : v < w /\ w < v + SERVER_BATCH => SlotOf(v) # SlotOf(w)
    /\ \A v \in Nat : SlotOf(v + SERVER_BATCH) = SlotOf(v)
<1>1. SERVER_BATCH \in Nat \ {0}
  BY ServerBatchAssumption
<1>2. ASSUME NEW v \in Nat, NEW w \in Nat, SlotOf(v) = SlotOf(w), v < w PROVE w >= v + SERVER_BATCH
  <2>1. PICK q \in Int : v = SERVER_BATCH * q + SlotOf(v)
    BY Division
  <2>2. PICK r \in Int : w = SERVER_BATCH * r + SlotOf(w)
    BY Division
  <2>3. SlotOf(v) \in Int
    BY Division
  <2>4. w - v = SERVER_BATCH * (r - q)
    BY <1>1, <1>2, <2>1, <2>2, <2>3
  <2>5. r - q > 0
    BY <1>1, <1>2, <2>4, Multiples
  <2>6. QED
    BY <1>1, <1>2, <2>4, <2>5, Multiples
<1>3. ASSUME NEW v \in Nat PROVE SlotOf(v + SERVER_BATCH) = SlotOf(v)
  <2> DEFINE w == v + SERVER_BATCH
  <2>1. w \in Nat
    BY <1>1
  <2>2. PICK q \in Int : v = SERVER_BATCH * q + SlotOf(v)
    BY Division
  <2>3. PICK r \in Int : w = SERVER_BATCH * r + SlotOf(w)
    BY <2>1, Division
  <2>4. SlotOf(v) \in 0 .. SERVER_BATCH - 1 /\ SlotOf(w) \in 0 .. SERVER_BATCH - 1
    BY <2>1, Division
  <2>5. SlotOf(w) - SlotOf(v) = SERVER_BATCH * (q - r + 1)
    <3>1. SERVER_BATCH * (q - r + 1) = SERVER_BATCH * q - SERVER_BATCH * r + SERVER_BATCH
      BY <1>1
    <3> DEFINE m == SERVER_BATCH * q  n == SERVER_BATCH * r  a == SlotOf(v)  b == SlotOf(w)
    <3>2. m \in Int /\ n \in Int /\ a \in Int /\ b \in Int /\ v = m + a /\ v + SERVER_BATCH = n + b
      BY <1>1, <2>2, <2>3, <2>4
    <3> HIDE DEF m, n, a, b
    <3>3. b - a = m - n + SERVER_BATCH
      BY <1>1, <3>2
    <3>4. QED
      BY <3>1, <3>3 DEF m, n, a, b
  <2>6. q - r + 1 = 0
    BY <1>1, <2>4, <2>5, Multiples
  <2>7. QED
    BY <1>1, <2>4, <2>5, <2>6
<1>4. ASSUME NEW v \in Nat, NEW w \in Nat, v < w, w < v + SERVER_BATCH
      PROVE  SlotOf(v) # SlotOf(w)
  BY <1>1, <1>2, <1>4
<1>5. \A v \in Nat : SlotOf(v) \in 0 .. SERVER_BATCH - 1
  BY Division
<1>6. QED
  BY <1>3, <1>4, <1>5

----------------------------------------------------------------------------
(* The pages on their way. *)

LEMMA IncreasingTail ==
    ASSUME NEW q \in Seq(Page), q # <<>>, Increasing(q)
    PROVE  Increasing(Tail(q)) /\ \A e \in Elems(Tail(q)) : Head(q).ver < e.ver
<1>1. /\ Len(q) \in Nat \ {0} /\ DOMAIN q = 1 .. Len(q) /\ Head(q) = q[1]
      /\ DOMAIN Tail(q) = 1 .. Len(q) - 1
      /\ \A i \in 1 .. Len(q) - 1 : Tail(q)[i] = q[i + 1]
  BY HeadTailProperties, LenProperties, EmptySeq
<1>2. ASSUME NEW i \in DOMAIN Tail(q), NEW j \in DOMAIN Tail(q), i < j
      PROVE  Tail(q)[i].ver < Tail(q)[j].ver
  <2>1. i + 1 \in DOMAIN q /\ j + 1 \in DOMAIN q /\ i + 1 < j + 1
    BY <1>1, <1>2
  <2>2. q[i + 1].ver < q[j + 1].ver
    BY <2>1 DEF Increasing
  <2>3. QED
    BY <1>1, <2>2
<1>3. ASSUME NEW e \in Elems(Tail(q)) PROVE Head(q).ver < e.ver
  <2>1. PICK i \in 1 .. Len(q) - 1 : e = q[i + 1]
    BY <1>1 DEF Elems
  <2>2. 1 \in DOMAIN q /\ i + 1 \in DOMAIN q /\ 1 < i + 1
    BY <1>1, <2>1
  <2>3. QED
    BY <1>1, <2>1, <2>2 DEF Increasing
<1>4. QED
  BY <1>2, <1>3 DEF Increasing

LEMMA IncreasingAppend ==
    ASSUME NEW q \in Seq(Page), NEW p \in Page, Increasing(q), \A e \in Elems(q) : e.ver < p.ver
    PROVE  Increasing(Append(q, p))
<1>1. /\ Append(q, p) \in Seq(Page) /\ Len(q) \in Nat /\ DOMAIN q = 1 .. Len(q)
      /\ Len(Append(q, p)) = Len(q) + 1 /\ Append(q, p)[Len(q) + 1] = p
      /\ \A i \in 1 .. Len(q) : Append(q, p)[i] = q[i]
  BY AppendProperties, LenProperties
<1>2. DOMAIN Append(q, p) = 1 .. Len(q) + 1
  BY <1>1, LenProperties
<1> DEFINE a == Append(q, p)
<1> HIDE DEF a
<1>3. ASSUME NEW i \in DOMAIN a, NEW j \in DOMAIN a, i < j PROVE a[i].ver < a[j].ver
  <2>1. i \in DOMAIN q /\ a[i] = q[i] /\ q[i] \in Elems(q)
    BY <1>1, <1>2, <1>3 DEF a, Elems
  <2>2. CASE j = Len(q) + 1
    BY <1>1, <2>1, <2>2 DEF a
  <2>3. CASE j # Len(q) + 1
    <3>1. j \in DOMAIN q /\ a[j] = q[j]
      BY <1>1, <1>2, <2>3 DEF a
    <3>2. QED
      BY <1>3, <2>1, <3>1 DEF Increasing
  <2>4. QED
    BY <2>2, <2>3
<1>4. QED
  BY <1>3 DEF Increasing, a

\* Whoever the client is, the pages arrive in order.
LEMMA TestIsOrdered ==
    ASSUME TestInv, [TestNext]_testSystemVars
    PROVE  [\E s \in Servers : OrderedStepOf(s)]_serverVars
<1>1. CASE client = "test" /\ TestStep
  <2>1. CASE OpenBlock
    <3>1. opened + 1 \in 1 .. Len(BlockOrder) /\ BlockOrder[opened + 1] \in Blocks
      <4>1. opened \in Nat /\ opened < Len(BlockOrder)
        BY <1>1, <2>1, BlockOrderAssumption, LenProperties
           DEF TestInv, BatchesOK, OpenBlock, Steps, TestTypeOK
      <4>2. QED
        BY <4>1, BlockOrderAssumption, ElementOfSeq, LenProperties
    <3>2. [op |-> "open", block |-> BlockOrder[opened + 1], count |-> 0] \in Requests
      BY <3>1 DEF Requests
    <3>3. QED
      BY <2>1, <3>2, MainAssumption DEF OpenBlock, OrderedStepOf
  <2>2. CASE CommitBatch
    <3>1. [op |-> "commit", block |-> None, count |-> 0] \in Requests
      BY ServerBatchAssumption DEF Requests
    <3>2. QED
      BY <2>2, <3>1, MainAssumption DEF CommitBatch, OrderedStepOf
  <2>3. CASE OpenedBlock \/ CommittedBatch
    BY <2>3, MainAssumption DEF OpenedBlock, CommittedBatch, OrderedStepOf
  <2>4. QED
    BY <1>1, <2>1, <2>2, <2>3 DEF TestStep, SendPage, SentPage, CheckPage
<1>2. ASSUME client = "any", NEW s \in Servers, ClientStep(s) PROVE OrderedStepOf(s)
  <2>1. FarInv
    BY <1>2 DEF TestInv, FarInv
  <2>2. QED
    BY <1>2, <2>1, AnyClientStep
<1>3. ASSUME NEW s \in Servers, Deliver(s) PROVE OrderedStepOf(s)
  <2>1. net[s] \in Seq(Page) /\ net[s] # <<>> /\ client = "test"
    BY <1>3 DEF TestInv, TestTypeOK, Deliver
  <2>2. Head(net[s]) \in Page /\ Head(net[s]) \in Elems(net[s])
    BY <2>1, HeadAndTail
  <2>3. NewestHere(s, Head(net[s]))
    BY <2>1, <2>2 DEF TestInv, Numbered, Newest, NewestHere, Before
  <2>4. QED
    BY <1>3, <2>2, <2>3 DEF Deliver, OrderedStepOf
<1>4. ASSUME NEW s \in Servers, MulticastThreadRuns(s) \/ RdmaThreadRuns(s) PROVE OrderedStepOf(s)
  BY <1>4 DEF MulticastThreadRuns, RdmaThreadRuns, OrderedStepOf
<1>5. QED
  BY <1>1, <1>2, <1>3, <1>4 DEF TestNext, ClientRuns, Drop, testSystemVars

----------------------------------------------------------------------------
(* What a step leaves alone. *)

\* A thread of a server, or a page that arrives there.
ServerStep(s) == MulticastThread(s) \/ RdmaThread(s) \/ \E p \in Page : Receive(s, p)

\* It concerns that server.
LEMMA OtherServer ==
    ASSUME FarTypeOK, NEW s \in Servers, ServerStep(s), NEW t \in Servers, t # s
    PROVE  /\ Untouched(t) /\ srvBatch'[t] = srvBatch[t] /\ rpcPc'[t] = rpcPc[t]
           /\ req'[t] = req[t] /\ rep'[t] = rep[t] /\ early'[t] = early[t]
<1>1. Untouched(t)
  BY OneServer DEF ServerStep, StepOf
<1> USE DEF FarTypeOK, queueVars, listVars, rmhVars, historyVars, rpcVars
<1>2. CASE FlowAdd(s)
  BY <1>1, <1>2 DEF FlowAdd
<1>3. CASE FlowConvey(s)
  BY <1>1, <1>3 DEF FlowConvey
<1>4. CASE ServeOpen(s) \/ CommitEmpty(s) \/ CommitBegin(s)
  BY <1>1, <1>4 DEF ServeOpen, CommitEmpty, CommitBegin
<1>5. CASE CommitConvey(s)
  BY <1>1, <1>5 DEF CommitConvey
<1>6. CASE CommitPutback(s) \/ CommitReset(s)
  BY <1>1, <1>6 DEF CommitPutback, CommitReset
<1>7. ASSUME NEW p \in Page, Receive(s, p)
      PROVE  /\ srvBatch'[t] = srvBatch[t] /\ rpcPc'[t] = rpcPc[t]
             /\ req'[t] = req[t] /\ rep'[t] = rep[t] /\ early'[t] = early[t]
  BY <1>7 DEF Receive
<1>8. QED
  BY <1>1, <1>2, <1>3, <1>4, <1>5, <1>6, <1>7 DEF ServerStep, MulticastThread, RdmaThread

\* Only an arriving page is delivered; the multicast thread leaves the calls alone;
\* what happened early is not forgotten; blocks stay.
LEMMA ThreadsLeave ==
    ASSUME FarTypeOK, NEW s \in Servers, ServerStep(s)
    PROVE  /\ MulticastThread(s) \/ RdmaThread(s) => delivered' = delivered
           /\ ~RdmaThread(s) => rpcPc' = rpcPc /\ req' = req /\ rep' = rep /\ early' = early
           /\ \A t \in Servers : early[t] => early'[t]
           /\ \A t \in Servers : blocks[t] \subseteq blocks'[t]
<1> USE DEF FarTypeOK, queueVars, listVars, rmhVars, historyVars, rpcVars
<1>1. CASE FlowAdd(s)
  BY <1>1 DEF FlowAdd
<1>2. CASE FlowConvey(s)
  <2>1. blocks' = blocks \/ \E b \in Blocks : blocks' = [blocks EXCEPT ![s] = @ \cup {b}]
    <3>1. BlockOf[flow[s].off] \in Blocks
      BY <1>2, BlockOfAssumption DEF FlowConvey, Completion
    <3>2. QED
      BY <1>2, <3>1 DEF FlowConvey
  <2>2. \A t \in Servers : blocks[t] \subseteq blocks'[t]
    BY <2>1
  <2>3. QED
    BY <1>2, <2>2 DEF FlowConvey
<1>3. CASE ServeOpen(s) \/ CommitEmpty(s) \/ CommitBegin(s)
  <2>1. blocks' = blocks \/ blocks' = [blocks EXCEPT ![s] = @ \cup {req[s].block}]
    BY <1>3 DEF ServeOpen, CommitEmpty, CommitBegin
  <2>2. \A t \in Servers : blocks[t] \subseteq blocks'[t]
    BY <2>1
  <2>3. delivered' = delivered /\ \A t \in Servers : early[t] => early'[t]
    BY <1>3 DEF ServeOpen, CommitEmpty, CommitBegin
  <2>4. RdmaThread(s)
    BY <1>3 DEF RdmaThread
  <2>5. QED
    BY <2>2, <2>3, <2>4
<1>4. CASE CommitConvey(s)
  BY <1>4 DEF CommitConvey, RdmaThread
<1>5. CASE CommitPutback(s) \/ CommitReset(s)
  BY <1>5 DEF CommitPutback, CommitReset, RdmaThread
<1>6. ASSUME NEW p \in Page, Receive(s, p)
      PROVE  /\ rpcPc' = rpcPc /\ req' = req /\ rep' = rep /\ early' = early
             /\ blocks' = blocks
  BY <1>6 DEF Receive
<1>7. QED
  BY <1>1, <1>2, <1>3, <1>4, <1>5, <1>6 DEF ServerStep, MulticastThread, RdmaThread

\* The pages a network step takes are those of its queue.
LEMMA NetworkTakes ==
    ASSUME TestTypeOK, NEW s \in Servers, Deliver(s) \/ Drop(s)
    PROVE  /\ net[s] \in Seq(Page) /\ net[s] # <<>> /\ Head(net[s]) \in Page
           /\ net'[s] = Tail(net[s]) /\ net'[s] \in Seq(Page)
           /\ Elems(net[s]) = {Head(net[s])} \cup Elems(net'[s])
           /\ \A t \in Servers : t # s => net'[t] = net[t]
           /\ net' \in [Servers -> Seq(Page)]
<1>1. net[s] \in Seq(Page) /\ net[s] # <<>> /\ net \in [Servers -> Seq(Page)]
  BY DEF TestTypeOK, Deliver, Drop
<1>2. net' = [net EXCEPT ![s] = Tail(@)]
  BY DEF Deliver, Drop
<1>3. /\ Head(net[s]) \in Page /\ Tail(net[s]) \in Seq(Page)
      /\ Elems(net[s]) = {Head(net[s])} \cup Elems(Tail(net[s]))
  BY <1>1, HeadAndTail
<1>4. QED
  BY <1>1, <1>2, <1>3

----------------------------------------------------------------------------
(* The start. *)

LEMMA TestInvInit == TestInit => TestInv
<1> SUFFICES ASSUME TestInit PROVE TestInv
  OBVIOUS
<1>1. FarInit /\ OrderedServerInv /\ FarTypeOK /\ \A s \in Servers : DeliveredCounted(s)
  BY FarInvInit DEF TestInit, FarInv, OrderedServerInv, ServerInv
<1>2. Len(BlockOrder) \in Nat /\ 0 < Len(BlockOrder)
  BY BlockOrderAssumption, LenProperties, EmptySeq
<1>3. /\ \A s \in Servers : net[s] = <<>> /\ <<>> \in Seq(Page) /\ Elems(net[s]) = {}
      /\ Increasing(<<>>)
  BY DEF TestInit, Elems, Increasing
<1>4. TestTypeOK
  <2>1. offsetlist \in [0 .. SERVER_BATCH - 1 -> Offsets \cup {None}]
    BY DEF TestInit
  <2>2. net \in [Servers -> Seq(Page)]
    BY DEF TestInit
  <2>3. /\ client \in {"any", "test"} /\ step \in Steps /\ dropped \in BOOLEAN
        /\ opened = 0 /\ sent = 0 /\ ia = 0
    BY DEF TestInit, Steps
  <2>4. 0 \in 0 .. Len(BlockOrder) /\ 0 \in 0 .. MaxStores /\ 0 \in 0 .. 0
    BY <1>2, MaxStoresAssumption
  <2>5. QED
    BY <1>1, <2>1, <2>2, <2>3, <2>4 DEF TestTypeOK
<1>5. /\ \A s \in Servers : delivered[s] = {} /\ req[s] = None /\ rep[s] = None
      /\ \A s \in Servers : rpcPc[s] = "idle" /\ srvBatch[s] = 0 /\ flow[s] = None /\ ~clash[s]
      /\ \A s \in Servers : cq[s] = <<>>
  BY <1>1 DEF FarInit
<1>6. Numbered
  BY <1>3, <1>5 DEF Numbered, TestInit
<1>7. CallsOK
  BY <1>5, MainAssumption DEF CallsOK, TestInit
<1>8. BatchesOK
  <2>1. SlotOf(0) = 0
    BY ServerBatchAssumption DEF SlotOf
  <2>2. step = "open" /\ ia = 0 /\ sent = 0 /\ opened = 0
    BY DEF TestInit
  <2>3. 0 + SERVER_BATCH <= MaxStores
    BY OneBatchAssumption, ServerBatchAssumption
  <2>4. QED
    BY <1>2, <2>1, <2>2, <2>3 DEF BatchesOK
<1>9. NotesOK
  BY <1>3, <1>5, MainAssumption DEF NotesOK, TestInit
<1>10. BatchCounted
  <2>1. Seen = {} /\ Cardinality(Seen) = 0
    BY <1>5, MainAssumption, FS_EmptySet DEF Seen
  <2>2. Uncommitted
    BY DEF Uncommitted, TestInit
  <2>3. Len(cq[Main]) = 0
    BY <1>5, MainAssumption
  <2>4. Pending = 0
    BY <1>5, <2>3, MainAssumption DEF Pending
  <2>5. QED
    BY <1>3, <1>5, <2>1, <2>2, <2>4, MainAssumption DEF BatchCounted
<1>11. EndsQuiet
  BY DEF EndsQuiet, TestInit, Ends
<1>12. QED
  BY <1>1, <1>3, <1>4, <1>6, <1>7, <1>8, <1>9, <1>10, <1>11 DEF TestInv, TestInit

----------------------------------------------------------------------------
(* Types. *)

LEMMA TestTypeStep ==
    ASSUME TestInv, [TestNext]_testSystemVars
    PROVE  TestTypeOK'
<1>1. FarTypeOK'
  BY TestIsOrdered, OrderStep DEF TestInv, OrderedServerInv, ServerInv
<1>2. TestTypeOK
  BY DEF TestInv
<1> USE <1>1, <1>2 DEF TestTypeOK
<1>3. SERVER_BATCH \in Nat \ {0} /\ MaxStores \in Nat /\ Len(BlockOrder) \in Nat
  BY ServerBatchAssumption, MaxStoresAssumption, BlockOrderAssumption, LenProperties
<1>4. CASE UNCHANGED testVars
  BY <1>4 DEF testVars
<1>5. ASSUME NEW s \in Servers, Deliver(s) \/ Drop(s) PROVE TestTypeOK'
  BY <1>5, NetworkTakes DEF Deliver, Drop
<1>6. ASSUME client = "test", OpenBlock \/ OpenedBlock PROVE TestTypeOK'
  <2>1. CASE OpenBlock
    BY <2>1 DEF OpenBlock, Steps
  <2>2. CASE OpenedBlock
    <3>1. opened + 1 \in 0 .. Len(BlockOrder)
      BY <1>3, <1>6, <2>2 DEF TestInv, BatchesOK, OpenedBlock, Steps
    <3>2. QED
      BY <2>2, <3>1 DEF OpenedBlock, Steps
  <2>3. QED
    BY <1>6, <2>1, <2>2
<1>7. ASSUME client = "test", NEW o \in TestOffsets, SendPage(o) PROVE TestTypeOK'
  <2>1. sent + 1 \in 1 .. MaxStores
    BY <1>3, <1>7 DEF TestInv, BatchesOK, SendPage, Steps
  <2>2. o \in Offsets /\ [off |-> o, ver |-> sent + 1] \in Page
    BY <2>1 DEF TestOffsets, Page
  <2>3. offsetlist' \in [0 .. SERVER_BATCH - 1 -> Offsets \cup {None}]
    BY <1>7, <2>2 DEF SendPage
  <2>4. net' \in [Servers -> Seq(Page)]
    <3>1. \A s \in Servers : Append(net[s], [off |-> o, ver |-> sent + 1]) \in Seq(Page)
      BY <2>2, AppendProperties
    <3>2. QED
      BY <1>7, <3>1 DEF SendPage
  <2>5. QED
    BY <1>3, <1>7, <2>1, <2>3, <2>4 DEF SendPage, Steps
<1>8. ASSUME NEW ok \in BOOLEAN, SentPage(ok) PROVE TestTypeOK'
  BY <1>8 DEF SentPage, Steps, Ends
<1>9. ASSUME client = "test", NEW ok \in BOOLEAN, CheckPage(ok) PROVE TestTypeOK'
  <2>1. ia + 1 \in 0 .. sent
    BY <1>3, <1>9 DEF TestInv, BatchesOK, CheckPage, Steps
  <2>2. step' \in Steps \cup Ends
    BY <1>9 DEF CheckPage, Steps, Ends
  <2>3. ia' \in 0 .. sent'
    BY <1>9, <2>1 DEF CheckPage
  <2>4. QED
    BY <1>9, <2>2, <2>3 DEF CheckPage
<1>10. CASE CommitBatch \/ CommittedBatch
  BY <1>10 DEF CommitBatch, CommittedBatch, Steps
<1>11. QED
  BY <1>4, <1>5, <1>6, <1>7, <1>8, <1>9, <1>10
     DEF TestNext, ClientRuns, TestStep, MulticastThreadRuns, RdmaThreadRuns, testSystemVars,
         testVars

----------------------------------------------------------------------------
(* The order of the pages on their way. *)

LEMMA NumberedStep ==
    ASSUME TestInv, client = "test", [TestNext]_testSystemVars
    PROVE  Numbered'
<1>1. TestTypeOK /\ FarTypeOK /\ Numbered /\ sent \in Nat
  BY MaxStoresAssumption DEF TestInv, TestTypeOK
<1>2. ASSUME NEW s \in Servers
      PROVE  /\ net[s] \in Seq(Page) /\ delivered[s] \subseteq Page
             /\ Elems(net[s]) \subseteq Page
             /\ \A p \in Page : p.ver \in Int
  <2>1. net[s] \in Seq(Page) /\ delivered[s] \subseteq Page
    BY <1>1 DEF TestTypeOK, FarTypeOK
  <2>2. \A p \in Page : p.ver \in Int
    BY MaxStoresAssumption DEF Page
  <2>3. QED
    BY <2>1, <2>2, ElemsOfSeq
<1>3. ASSUME delivered' = delivered, net' = net, sent' = sent PROVE Numbered'
  BY <1>1, <1>3 DEF Numbered, Newest
<1>4. ASSUME NEW o \in TestOffsets, SendPage(o) PROVE Numbered'
  <2> DEFINE p == [off |-> o, ver |-> sent + 1]
  <2>1. sent' = sent + 1 /\ delivered' = delivered /\ p.ver = sent + 1
    BY <1>4 DEF SendPage, serverVars, historyVars
  <2>2. p \in Page
    <3>1. sent' \in 0 .. MaxStores
      BY TestTypeStep DEF TestTypeOK
    <3>2. QED
      BY <1>1, <2>1, <3>1, MaxStoresAssumption DEF Page, TestOffsets
  <2>3. \A s \in Servers : net'[s] = Append(net[s], p)
    BY <1>4 DEF SendPage
  <2> HIDE DEF p
  <2> SUFFICES ASSUME NEW s \in Servers
               PROVE  /\ \A q \in delivered[s] : q.ver <= sent + 1
                      /\ \A q \in Elems(net'[s]) :
                           q.ver <= sent + 1 /\ \A r \in delivered[s] : r.ver < q.ver
                      /\ Increasing(net'[s])
    BY <2>1 DEF Numbered, Newest
  <2>4. \A q \in delivered[s] : q.ver <= sent + 1 /\ q.ver < sent + 1
    BY <1>1, <1>2 DEF Numbered
  <2>5. \A q \in Elems(net[s]) : q.ver < sent + 1 /\ q.ver <= sent + 1
    <3>1. \A q \in Elems(net[s]) : q.ver \in Int /\ q.ver <= sent
      BY <1>1, <1>2 DEF Numbered
    <3>2. QED
      BY <1>1, <3>1
  <2>6. Elems(net'[s]) = Elems(net[s]) \cup {p}
    <3>1. Elems(Append(net[s], p)) = Elems(net[s]) \cup {p}
      <4>1. net[s] \in Seq(Page)
        BY <1>2
      <4>2. QED
        BY <2>2, <4>1, ElemsOfAppend
    <3>2. QED
      BY <2>3, <3>1
  <2>7. Increasing(net'[s])
    <3>1. Increasing(net[s]) /\ \A e \in Elems(net[s]) : e.ver < p.ver
      BY <1>1, <2>1, <2>5 DEF Numbered
    <3>2. QED
      BY <1>2, <2>2, <2>3, <3>1, IncreasingAppend
  <2>8. \A q \in Elems(net'[s]) :
          q.ver <= sent + 1 /\ \A r \in delivered[s] : r.ver < q.ver
    BY <1>1, <2>1, <2>4, <2>5, <2>6 DEF Numbered, Newest
  <2>9. QED
    BY <2>4, <2>7, <2>8
<1>5. ASSUME NEW s \in Servers, Deliver(s) \/ Drop(s) PROVE Numbered'
  <2> DEFINE p == Head(net[s])
  <2>1. /\ p \in Page /\ net'[s] = Tail(net[s]) /\ net[s] # <<>>
        /\ Elems(net[s]) = {p} \cup Elems(net'[s])
        /\ \A t \in Servers : t # s => net'[t] = net[t]
    BY <1>1, <1>5, NetworkTakes
  <2>2. sent' = sent
    BY <1>5 DEF Deliver, Drop
  <2>3. /\ delivered'[s] = delivered[s] \/ delivered'[s] = delivered[s] \cup {p}
        /\ \A t \in Servers : t # s => delivered'[t] = delivered[t]
    BY <1>1, <1>5 DEF Deliver, Drop, Receive, serverVars, historyVars, FarTypeOK
  <2> HIDE DEF p
  <2>4. Increasing(net'[s]) /\ \A e \in Elems(net'[s]) : p.ver < e.ver
    BY <1>1, <1>2, <2>1, IncreasingTail DEF Numbered, p
  <2>5. /\ \A q \in delivered'[s] : q.ver <= sent
        /\ \A e \in Elems(net'[s]) : e.ver <= sent /\ \A q \in delivered'[s] : q.ver < e.ver
    BY <1>1, <2>1, <2>3, <2>4 DEF Numbered, Newest
  <2>6. ASSUME NEW t \in Servers, t # s
        PROVE  /\ \A q \in delivered'[t] : q.ver <= sent
               /\ \A e \in Elems(net'[t]) : e.ver <= sent /\ \A q \in delivered'[t] : q.ver < e.ver
               /\ Increasing(net'[t])
    BY <1>1, <2>1, <2>3, <2>6 DEF Numbered, Newest
  <2>7. QED
    BY <2>2, <2>4, <2>5, <2>6 DEF Numbered, Newest
<1>6. ASSUME NEW s \in Servers, MulticastThreadRuns(s) \/ RdmaThreadRuns(s) PROVE Numbered'
  BY <1>1, <1>3, <1>6, ThreadsLeave
     DEF MulticastThreadRuns, RdmaThreadRuns, ServerStep, testVars
<1>7. CASE TestStep
  <2>1. ASSUME \A o \in TestOffsets : ~SendPage(o) PROVE Numbered'
    BY <1>3, <1>7, <2>1
       DEF TestStep, OpenBlock, OpenedBlock, SentPage, CommitBatch, CommittedBatch, CheckPage,
           Call, TakeReply, serverVars, historyVars
  <2>2. QED
    BY <1>4, <2>1
<1>8. CASE UNCHANGED testSystemVars
  BY <1>3, <1>8 DEF testSystemVars, serverVars, historyVars, testVars
<1>9. QED
  BY <1>5, <1>6, <1>7, <1>8 DEF TestNext, ClientRuns

----------------------------------------------------------------------------
(* The calls and the batches. *)

\* The test does not go on after its end.
LEMMA EndsStay ==
    ASSUME TestInv, [TestNext]_testSystemVars
    PROVE  /\ client' = client
           /\ step' \in Steps => step \in Steps
           /\ step \notin Steps => step' = step
           /\ \A s \in Servers : early[s] => early'[s]
           /\ \A s \in Servers : blocks[s] \subseteq blocks'[s]
<1>1. FarTypeOK /\ TestTypeOK
  BY DEF TestInv, TestTypeOK
<1>2. ASSUME client = "test", TestStep
      PROVE  /\ client' = client /\ step \in Steps /\ early' = early /\ blocks' = blocks
  BY <1>2 DEF TestStep, OpenBlock, OpenedBlock, SendPage, SentPage, CommitBatch, CommittedBatch,
              CheckPage, Call, TakeReply, Steps, serverVars, rmhVars, historyVars
<1>3. ASSUME NEW s \in Servers,
             Deliver(s) \/ MulticastThreadRuns(s) \/ RdmaThreadRuns(s)
      PROVE  ServerStep(s) /\ client' = client /\ step' = step
  <2>1. CASE Deliver(s)
    BY <1>1, <2>1, NetworkTakes DEF Deliver, ServerStep
  <2>2. QED
    BY <1>3, <2>1 DEF MulticastThreadRuns, RdmaThreadRuns, ServerStep, testVars
<1>4. ASSUME NEW s \in Servers, client = "any", UNCHANGED testVars, ClientStep(s)
      PROVE  /\ client' = client /\ step' = step
             /\ \A t \in Servers : early[t] => early'[t]
             /\ \A t \in Servers : blocks[t] \subseteq blocks'[t]
  <2>1. early' = early /\ blocks' = blocks
    BY <1>4 DEF ClientStep, Receive, Call, TakeReply, rmhVars, historyVars
  <2>2. QED
    BY <1>4, <2>1 DEF testVars
<1>5. ASSUME NEW s \in Servers, Drop(s) PROVE UNCHANGED <<client, step, early, blocks>>
  BY <1>5 DEF Drop, serverVars, rmhVars, historyVars
<1>6. CASE UNCHANGED testSystemVars
  BY <1>6 DEF testSystemVars, testVars, serverVars, rmhVars, historyVars
<1>7. QED
  BY <1>1, <1>2, <1>3, <1>4, <1>5, <1>6, ThreadsLeave DEF TestNext, ClientRuns

LEMMA CallsStep ==
    ASSUME TestInv, client = "test", step \in Steps, [TestNext]_testSystemVars
    PROVE  CallsOK'
<1>1. TestTypeOK /\ FarTypeOK /\ CallsOK /\ Main \in Servers
  BY MainAssumption DEF TestInv, TestTypeOK
<1>2. blocks[Main] \subseteq blocks'[Main]
  BY <1>1, EndsStay
<1>3. ASSUME step' = step, opened' = opened,
             req'[Main] = req[Main], rep'[Main] = rep[Main], rpcPc'[Main] = rpcPc[Main]
      PROVE  CallsOK'
  BY <1>1, <1>2, <1>3 DEF CallsOK
<1>4. CASE TestStep
  <2>1. CASE OpenBlock
    <3>1. opened + 1 \in 1 .. Len(BlockOrder)
      <4>1. opened \in Nat /\ opened < Len(BlockOrder)
        BY <1>1, <2>1, BlockOrderAssumption, LenProperties
           DEF TestInv, BatchesOK, OpenBlock, Steps, TestTypeOK
      <4>2. QED
        BY <4>1, BlockOrderAssumption, LenProperties
    <3>2. BlockOrder[opened + 1] \in Blocks
      BY <3>1, BlockOrderAssumption, ElementOfSeq
    <3>3. [op |-> "open", block |-> BlockOrder[opened + 1], count |-> 0] # None
      BY <3>2, NoRequestAssumption DEF Requests
    <3>4. QED
      BY <1>1, <2>1, <3>3 DEF OpenBlock, Call, CallsOK, FarTypeOK
  <2>2. CASE OpenedBlock
    BY <1>1, <2>2 DEF OpenedBlock, TakeReply, CallsOK, FarTypeOK
  <2>3. ASSUME NEW o \in TestOffsets, SendPage(o) PROVE CallsOK'
    BY <1>1, <2>3 DEF SendPage, CallsOK, serverVars, rpcVars
  <2>4. ASSUME NEW ok \in BOOLEAN, SentPage(ok) PROVE CallsOK'
    BY <1>1, <2>4 DEF SentPage, CallsOK, serverVars, rpcVars
  <2>5. ASSUME NEW ok \in BOOLEAN, CheckPage(ok) PROVE CallsOK'
    BY <1>1, <2>5 DEF CheckPage, CallsOK, serverVars, rpcVars
  <2>6. CASE CommitBatch
    <3>1. [op |-> "commit", block |-> None, count |-> 0] \in Requests
      BY ServerBatchAssumption DEF Requests
    <3>2. [op |-> "commit", block |-> None, count |-> 0] # None
      BY <3>1, NoRequestAssumption
    <3>3. QED
      BY <1>1, <2>6, <3>2 DEF CommitBatch, Call, CallsOK, FarTypeOK
  <2>7. CASE CommittedBatch
    BY <1>1, <2>7 DEF CommittedBatch, TakeReply, CallsOK, FarTypeOK
  <2>8. QED
    BY <1>4, <2>1, <2>2, <2>3, <2>4, <2>5, <2>6, <2>7 DEF TestStep
<1>5. ASSUME NEW s \in Servers, Deliver(s) \/ MulticastThreadRuns(s) PROVE CallsOK'
  <2>1. rpcVars' = rpcVars /\ step' = step /\ opened' = opened
    BY <1>5 DEF Deliver, MulticastThreadRuns, MulticastThread, FlowAdd, FlowConvey, Receive,
                testVars
  <2>2. QED
    BY <1>3, <2>1 DEF rpcVars
<1>6. ASSUME NEW s \in Servers, Drop(s) PROVE CallsOK'
  BY <1>3, <1>6 DEF Drop, serverVars, rpcVars
<1>7. ASSUME NEW s \in Servers, RdmaThreadRuns(s) PROVE CallsOK'
  <2>1. step' = step /\ opened' = opened /\ RdmaThread(s) /\ ServerStep(s)
    BY <1>7 DEF RdmaThreadRuns, testVars, ServerStep
  <2>2. CASE s # Main
    BY <1>1, <1>3, <2>1, <2>2, OtherServer
  <2>3. CASE s = Main
    <3> USE <1>1, <1>2, <2>1, <2>3
    <3>1. CASE ServeOpen(Main)
      BY <3>1 DEF ServeOpen, CallsOK, FarTypeOK, Steps
    <3>2. CASE CommitEmpty(Main)
      BY <3>2 DEF CommitEmpty, IsCommit, CallsOK, FarTypeOK, Steps
    <3>3. CASE CommitBegin(Main)
      BY <3>3 DEF CommitBegin, IsCommit, CallsOK, FarTypeOK, Steps
    <3>4. CASE CommitConvey(Main)
      BY <3>4 DEF CommitConvey, CallsOK, FarTypeOK, Steps
    <3>5. CASE CommitPutback(Main)
      BY <3>5 DEF CommitPutback, CallsOK, FarTypeOK, Steps
    <3>6. CASE CommitReset(Main)
      BY <3>6 DEF CommitReset, CallsOK, FarTypeOK, Steps
    <3>7. QED
      BY <3>1, <3>2, <3>3, <3>4, <3>5, <3>6 DEF RdmaThread
  <2>4. QED
    BY <2>2, <2>3
<1>8. CASE UNCHANGED testSystemVars
  BY <1>3, <1>8 DEF testSystemVars, testVars, serverVars, rpcVars
<1>9. QED
  BY <1>4, <1>5, <1>6, <1>7, <1>8 DEF TestNext, ClientRuns

LEMMA BatchesStep ==
    ASSUME TestInv, client = "test", step \in Steps, [TestNext]_testSystemVars
    PROVE  BatchesOK'
<1>1. TestTypeOK /\ BatchesOK
  BY DEF TestInv
<1>2. /\ SERVER_BATCH \in Nat \ {0} /\ MaxStores \in Nat /\ Len(BlockOrder) \in Nat
      /\ sent \in Nat /\ ia \in Nat /\ opened \in Nat
  BY <1>1, ServerBatchAssumption, MaxStoresAssumption, BlockOrderAssumption, LenProperties
     DEF TestTypeOK
<1>3. ASSUME UNCHANGED <<step, opened, sent, ia>> PROVE BatchesOK'
  BY <1>1, <1>3 DEF BatchesOK, SlotOf
<1>4. CASE TestStep
  <2>1. CASE OpenBlock
    BY <1>1, <2>1 DEF OpenBlock, BatchesOK, SlotOf
  <2>2. CASE OpenedBlock
    <3>1. /\ opened' = opened + 1 /\ ia' = ia /\ sent' = sent /\ ia = 0 /\ sent = 0
          /\ step' = IF opened' = Len(BlockOrder) THEN "send" ELSE "open"
          /\ SlotOf(ia) = 0 /\ ia + SERVER_BATCH <= MaxStores /\ opened < Len(BlockOrder)
      BY <1>1, <2>2 DEF OpenedBlock, BatchesOK
    <3>2. opened' < Len(BlockOrder) \/ opened' = Len(BlockOrder)
      BY <1>2, <3>1
    <3>3. QED
      BY <1>2, <3>1, <3>2 DEF BatchesOK, SlotOf
  <2>3. ASSUME NEW o \in TestOffsets, SendPage(o) PROVE BatchesOK'
    <3>1. /\ step' = "sending" /\ sent' = sent + 1 /\ ia' = ia
          /\ SlotOf(ia) = 0 /\ ia + SERVER_BATCH <= MaxStores /\ sent < ia + SERVER_BATCH
      BY <1>1, <2>3 DEF SendPage, BatchesOK
    <3>2. ia <= sent
      BY <1>1 DEF TestTypeOK
    <3>3. ia < sent + 1 /\ sent + 1 <= ia + SERVER_BATCH
      BY <1>2, <3>1, <3>2
    <3>4. QED
      BY <3>1, <3>3 DEF BatchesOK, SlotOf
  <2>4. ASSUME NEW ok \in BOOLEAN, SentPage(ok) PROVE BatchesOK'
    <3>1. /\ sent' = sent /\ ia' = ia
          /\ SlotOf(ia) = 0 /\ ia + SERVER_BATCH <= MaxStores
          /\ ia < sent /\ sent <= ia + SERVER_BATCH
      BY <1>1, <2>4 DEF SentPage, BatchesOK
    <3>2. SlotOf(ia + SERVER_BATCH) = 0
      BY <1>2, <3>1, SlotsOfBatch
    <3>3. SlotOf(sent) = 0 => sent = ia + SERVER_BATCH
      <4>1. ia < sent /\ sent < ia + SERVER_BATCH => SlotOf(ia) # SlotOf(sent)
        BY <1>2, SlotsOfBatch
      <4>2. QED
        BY <1>2, <3>1, <4>1
    <3>4. SlotOf(sent) # 0 => sent < ia + SERVER_BATCH
      BY <1>2, <3>1, <3>2
    <3>5. \/ step' = "aborted"
          \/ step' = "commit" /\ sent = ia + SERVER_BATCH
          \/ step' = "send" /\ sent < ia + SERVER_BATCH
      BY <2>4, <3>3, <3>4 DEF SentPage
    <3>6. QED
      BY <3>1, <3>5 DEF BatchesOK, SlotOf
  <2>5. CASE CommitBatch
    BY <1>1, <2>5 DEF CommitBatch, BatchesOK, SlotOf
  <2>6. CASE CommittedBatch
    <3>1. /\ step' = "check" /\ sent' = sent /\ ia' = ia
          /\ SlotOf(ia) = 0 /\ sent = ia + SERVER_BATCH
      BY <1>1, <2>6 DEF CommittedBatch, BatchesOK
    <3>2. SlotOf(sent) = 0
      BY <1>2, <3>1, SlotsOfBatch
    <3>3. ia < sent /\ sent <= ia + SERVER_BATCH
      BY <1>2, <3>1
    <3>4. QED
      BY <3>1, <3>2, <3>3 DEF BatchesOK, SlotOf
  <2>7. ASSUME NEW ok \in BOOLEAN, CheckPage(ok) PROVE BatchesOK'
    <3>1. /\ sent' = sent /\ ia < sent /\ sent <= ia + SERVER_BATCH /\ SlotOf(sent) = 0
      BY <1>1, <2>7 DEF CheckPage, BatchesOK
    <3>2. \/ step' \in {"mismatch", "aborted", "passed"}
          \/ step' = "check" /\ ia' = ia + 1 /\ ia + 1 < sent
          \/ step' = "send" /\ ia' = ia + 1 /\ ~(ia + 1 < sent) /\ sent + SERVER_BATCH <= MaxStores
      <4>1. ~(sent + SERVER_BATCH > MaxStores) => sent + SERVER_BATCH <= MaxStores
        BY <1>2
      <4>2. QED
        BY <2>7, <4>1 DEF CheckPage, LastBatch
    <3>3. CASE step' \in {"mismatch", "aborted", "passed"}
      BY <3>3 DEF BatchesOK
    <3>4. CASE step' = "check" /\ ia' = ia + 1 /\ ia + 1 < sent
      <4>1. ia + 1 < sent /\ sent <= ia + 1 + SERVER_BATCH
        BY <1>2, <3>1, <3>4
      <4>2. QED
        BY <3>1, <3>4, <4>1 DEF BatchesOK, SlotOf
    <3>5. CASE step' = "send" /\ ia' = ia + 1 /\ ~(ia + 1 < sent) /\ sent + SERVER_BATCH <= MaxStores
      <4>1. ia' = sent
        BY <1>2, <3>1, <3>5
      <4>2. sent < ia' + SERVER_BATCH /\ ia' + SERVER_BATCH <= MaxStores
        BY <1>2, <3>5, <4>1
      <4>3. QED
        BY <3>1, <3>5, <4>1, <4>2 DEF BatchesOK, SlotOf
    <3>6. QED
      BY <3>2, <3>3, <3>4, <3>5
  <2>8. QED
    BY <1>4, <2>1, <2>2, <2>3, <2>4, <2>5, <2>6, <2>7 DEF TestStep
<1>5. QED
  BY <1>3, <1>4 DEF TestNext, ClientRuns, Deliver, Drop, MulticastThreadRuns, RdmaThreadRuns,
                    testSystemVars, testVars

\* The pages on their way to the server the test calls, and those that arrived.
Pages == delivered[Main] \cup Elems(net[Main])

LEMMA PagesStep ==
    ASSUME TestInv, client = "test", [TestNext]_testSystemVars,
           \A o \in TestOffsets : ~SendPage(o)
    PROVE  Pages' \subseteq Pages
<1>1. TestTypeOK /\ FarTypeOK /\ Main \in Servers
  BY MainAssumption DEF TestInv, TestTypeOK
<1>2. ASSUME NEW s \in Servers, Deliver(s) \/ Drop(s) PROVE Pages' \subseteq Pages
  <2>1. /\ Elems(net[s]) = {Head(net[s])} \cup Elems(net'[s])
        /\ \A t \in Servers : t # s => net'[t] = net[t]
    BY <1>1, <1>2, NetworkTakes
  <2>2. /\ delivered'[s] = delivered[s] \/ delivered'[s] = delivered[s] \cup {Head(net[s])}
        /\ \A t \in Servers : t # s => delivered'[t] = delivered[t]
    BY <1>1, <1>2 DEF Deliver, Drop, Receive, serverVars, historyVars, FarTypeOK
  <2>3. QED
    BY <1>1, <2>1, <2>2 DEF Pages
<1>3. ASSUME NEW s \in Servers, MulticastThreadRuns(s) \/ RdmaThreadRuns(s)
      PROVE  Pages' \subseteq Pages
  <2>1. delivered' = delivered /\ net' = net
    BY <1>1, <1>3, ThreadsLeave DEF MulticastThreadRuns, RdmaThreadRuns, ServerStep, testVars
  <2>2. QED
    BY <2>1 DEF Pages
<1>4. CASE TestStep
  <2>1. delivered' = delivered /\ net' = net
    BY <1>4 DEF TestStep, OpenBlock, OpenedBlock, SentPage, CommitBatch, CommittedBatch, CheckPage,
                Call, TakeReply, serverVars, historyVars
  <2>2. QED
    BY <2>1 DEF Pages
<1>5. CASE UNCHANGED testSystemVars
  BY <1>5 DEF testSystemVars, testVars, serverVars, historyVars, Pages
<1>6. QED
  BY <1>2, <1>3, <1>4, <1>5 DEF TestNext, ClientRuns

LEMMA NotesStep ==
    ASSUME TestInv, client = "test", step \in Steps, [TestNext]_testSystemVars
    PROVE  NotesOK'
<1>1. TestTypeOK /\ FarTypeOK /\ NotesOK /\ BatchesOK /\ CallsOK /\ Numbered /\ Main \in Servers
  BY MainAssumption DEF TestInv, TestTypeOK
<1>2. /\ SERVER_BATCH \in Nat \ {0} /\ Len(BlockOrder) \in Nat
      /\ sent \in Nat /\ ia \in Nat /\ opened \in Nat /\ sent' \in Nat /\ ia' \in Nat
  BY <1>1, TestTypeStep, ServerBatchAssumption, MaxStoresAssumption, BlockOrderAssumption,
     LenProperties DEF TestTypeOK
<1>3. \A p \in Pages : p \in Page /\ p.ver \in Nat /\ p.ver <= sent
  <2>1. delivered[Main] \subseteq Page /\ Elems(net[Main]) \subseteq Page
    BY <1>1, ElemsOfSeq DEF TestTypeOK, FarTypeOK
  <2>2. \A p \in Page : p.ver \in Nat
    BY MaxStoresAssumption DEF Page
  <2>3. QED
    BY <1>1, <2>1, <2>2 DEF Pages, Numbered
<1>4. \A p \in Pages : p.ver > ia => p.off = offsetlist[SlotOf(p.ver - 1)] /\ p.off \in TestOffsets
  BY <1>1 DEF NotesOK, Pages
<1>5. /\ \A k \in 1 .. opened' : BlockOrder[k] \in blocks'[Main]
      /\ step' \in Steps \ {"open", "opening"} => opened' = Len(BlockOrder)
  <2>1. blocks[Main] \subseteq blocks'[Main] /\ \A k \in 1 .. opened : BlockOrder[k] \in blocks[Main]
    BY <1>1, EndsStay DEF NotesOK
  <2>2. CASE OpenedBlock
    <3>1. BlockOrder[opened + 1] \in blocks[Main] /\ opened' = opened + 1
      BY <1>1, <2>2 DEF OpenedBlock, TakeReply, CallsOK
    <3>2. \A k \in 1 .. opened + 1 : k \in 1 .. opened \/ k = opened + 1
      BY <1>2
    <3>3. \A k \in 1 .. opened' : BlockOrder[k] \in blocks'[Main]
      BY <2>1, <3>1, <3>2
    <3>4. step' \in Steps \ {"open", "opening"} => opened' = Len(BlockOrder)
      BY <2>2 DEF OpenedBlock
    <3>5. QED
      BY <3>3, <3>4
  <2>3. CASE ~OpenedBlock
    <3>1. opened' = opened
      BY <2>3 DEF TestNext, ClientRuns, TestStep, OpenBlock, SendPage, SentPage, CommitBatch,
                  CommittedBatch, CheckPage, Deliver, Drop, MulticastThreadRuns, RdmaThreadRuns,
                  testSystemVars, testVars
    <3>2. step' \in Steps \ {"open", "opening"} => step \in Steps \ {"open", "opening"}
      BY <2>3 DEF TestNext, ClientRuns, TestStep, OpenBlock, SendPage, SentPage, CommitBatch,
                  CommittedBatch, CheckPage, Deliver, Drop, MulticastThreadRuns, RdmaThreadRuns,
                  testSystemVars, testVars, Steps
    <3>3. QED
      BY <1>1, <2>1, <3>1, <3>2 DEF NotesOK
  <2>4. QED
    BY <2>2, <2>3
<1>6. \A p \in Pages' : p.ver > ia' =>
         p.off = offsetlist'[SlotOf(p.ver - 1)] /\ p.off \in TestOffsets
  <2>1. ASSUME NEW o \in TestOffsets, SendPage(o)
        PROVE  \A p \in Pages' : p.ver > ia' =>
                 p.off = offsetlist'[SlotOf(p.ver - 1)] /\ p.off \in TestOffsets
    <3> DEFINE e == [off |-> o, ver |-> sent + 1]
    <3>1. /\ ia' = ia /\ sent < ia + SERVER_BATCH /\ delivered' = delivered
          /\ net'[Main] = Append(net[Main], e) /\ e \in Page
          /\ offsetlist' = [offsetlist EXCEPT ![SlotOf(sent)] = o]
      <4>1. sent + 1 \in 0 .. MaxStores
        BY <2>1, TestTypeStep DEF TestTypeOK, SendPage
      <4>2. e \in Page
        BY <1>2, <4>1, MaxStoresAssumption DEF Page, TestOffsets
      <4>3. QED
        BY <1>1, <2>1, <4>2 DEF SendPage, BatchesOK, serverVars, historyVars
    <3>2. e.off = o /\ e.ver = sent + 1
      OBVIOUS
    <3> HIDE DEF e
    <3>3. Elems(Append(net[Main], e)) = Elems(net[Main]) \cup {e}
      <4>1. net[Main] \in Seq(Page)
        BY <1>1 DEF TestTypeOK
      <4>2. QED
        BY <3>1, <4>1, ElemsOfAppend
    <3>4. Pages' = Pages \cup {e}
      BY <3>1, <3>3 DEF Pages
    <3>5. SlotOf(sent) \in 0 .. SERVER_BATCH - 1
      BY <1>2, SlotsOfBatch
    <3>6. offsetlist'[SlotOf(sent)] = o
      BY <1>1, <3>1, <3>5 DEF TestTypeOK
    <3>7. ASSUME NEW p \in Pages, p.ver > ia
          PROVE  p.off = offsetlist'[SlotOf(p.ver - 1)] /\ p.off \in TestOffsets
      <4>1. p.ver - 1 \in Nat /\ p.ver - 1 < sent /\ sent < p.ver - 1 + SERVER_BATCH
        BY <1>2, <1>3, <3>1, <3>7
      <4>2. /\ SlotOf(p.ver - 1) # SlotOf(sent)
            /\ SlotOf(p.ver - 1) \in 0 .. SERVER_BATCH - 1
        BY <1>2, <4>1, SlotsOfBatch
      <4>3. offsetlist'[SlotOf(p.ver - 1)] = offsetlist[SlotOf(p.ver - 1)]
        BY <1>1, <3>1, <4>2 DEF TestTypeOK
      <4>4. QED
        BY <1>4, <3>7, <4>3
    <3>8. SlotOf(e.ver - 1) = SlotOf(sent)
      <4>1. e.ver - 1 = sent
        BY <1>2, <3>2
      <4>2. QED
        BY <4>1
    <3>9. QED
      BY <2>1, <3>1, <3>2, <3>4, <3>6, <3>7, <3>8
  <2>2. ASSUME \A o \in TestOffsets : ~SendPage(o)
        PROVE  \A p \in Pages' : p.ver > ia' =>
                 p.off = offsetlist'[SlotOf(p.ver - 1)] /\ p.off \in TestOffsets
    <3>1. Pages' \subseteq Pages
      BY <2>2, PagesStep
    <3>2. offsetlist' = offsetlist
      BY <2>2 DEF TestNext, ClientRuns, TestStep, OpenBlock, OpenedBlock, SentPage, CommitBatch,
                  CommittedBatch, CheckPage, Deliver, Drop, MulticastThreadRuns, RdmaThreadRuns,
                  testSystemVars, testVars
    <3>3. ia' = ia \/ ia' = ia + 1
      BY <2>2 DEF TestNext, ClientRuns, TestStep, OpenBlock, OpenedBlock, SentPage, CommitBatch,
                  CommittedBatch, CheckPage, Deliver, Drop, MulticastThreadRuns, RdmaThreadRuns,
                  testSystemVars, testVars
    <3>4. \A p \in Pages' : p.ver > ia' => p.ver > ia
      BY <1>2, <1>3, <3>1, <3>3
    <3>5. QED
      BY <1>4, <3>1, <3>2, <3>4
  <2>3. QED
    BY <2>1, <2>2
<1>7. QED
  BY <1>5, <1>6 DEF NotesOK, Pages

----------------------------------------------------------------------------
(* What the server counts. *)

LEMMA SomeOf ==
    ASSUME NEW a \in Nat, NEW b \in Nat, a <= b, NEW S \in SUBSET (a + 1 .. b)
    PROVE  /\ IsFiniteSet(S) /\ Cardinality(S) \in Nat /\ Cardinality(S) <= b - a
           /\ Cardinality(S) = b - a => S = a + 1 .. b
           /\ \A T \in SUBSET S : Cardinality(T) <= Cardinality(S)
<1> DEFINE all == a + 1 .. b
<1>1. IsFiniteSet(all) /\ Cardinality(all) = b - a
  <2>1. IsFiniteSet(all) /\ Cardinality(all) = IF a + 1 > b THEN 0 ELSE b - (a + 1) + 1
    <3>1. a + 1 \in Int /\ b \in Int
      OBVIOUS
    <3>2. QED
      BY <3>1, FS_Interval
  <2>2. QED
    BY <2>1
<1> HIDE DEF all
<1>2. S \in SUBSET all
  BY DEF all
<1>3. /\ IsFiniteSet(S) /\ Cardinality(S) <= Cardinality(all)
      /\ Cardinality(all) = Cardinality(S) => all = S
  BY <1>1, <1>2, FS_Subset
<1>4. \A T \in SUBSET S : Cardinality(T) <= Cardinality(S)
  BY <1>3, FS_Subset
<1>5. Cardinality(S) \in Nat
  BY <1>3, FS_CardinalityType
<1>6. QED
  BY <1>1, <1>3, <1>4, <1>5 DEF all

\* The test's steps leave what the server counts alone.
CountsKept ==
    /\ clash'[Main] = clash[Main] /\ srvBatch'[Main] = srvBatch[Main] /\ flow'[Main] = flow[Main]
    /\ cq'[Main] = cq[Main] /\ convey'[Main] = convey[Main] /\ commitList'[Main] = commitList[Main]
    /\ delivered'[Main] = delivered[Main]

LEMMA CountsKeptWhenOthersRun ==
    ASSUME TestInv, client = "test", step \in Steps, CountsKept, step' = step,
           UNCHANGED <<ia, sent>>, rep'[Main] = rep[Main], rpcPc'[Main] = rpcPc[Main],
           Elems(net'[Main]) \subseteq Elems(net[Main]), net[Main] = <<>> => net'[Main] = <<>>,
           BatchCounted
    PROVE  BatchCounted'
<1>1. Seen' = Seen /\ Pending' = Pending /\ (Uncommitted' <=> Uncommitted)
  BY DEF CountsKept, Seen, Pending, Uncommitted
<1>2. QED
  BY <1>1 DEF BatchCounted, CountsKept

LEMMA TestCounts ==
    ASSUME TestInv, client = "test", TestStep, step' \in Steps, BatchCounted, TestTypeOK'
    PROVE  BatchCounted'
<1>1. TestTypeOK /\ FarTypeOK /\ CallsOK /\ BatchesOK /\ Numbered /\ Main \in Servers
      /\ step \in Steps
  BY EndsStay, MainAssumption DEF TestInv, TestTypeOK, TestNext, ClientRuns
<1>2. ia \in Nat /\ sent \in Nat /\ ia <= sent
  BY <1>1, MaxStoresAssumption DEF TestTypeOK
<1>3. CountsKept
  BY <1>1 DEF TestStep, OpenBlock, OpenedBlock, SendPage, SentPage, CommitBatch, CommittedBatch,
              CheckPage, Call, TakeReply, serverVars, queueVars, listVars, rmhVars, historyVars,
              CountsKept
<1>4. Pending' = Pending
  BY <1>3 DEF CountsKept, Pending
<1>5. ASSUME OpenBlock \/ OpenedBlock \/ CommitBatch \/ \E ok \in BOOLEAN : SentPage(ok)
      PROVE  BatchCounted'
  <2>1. Uncommitted
    BY <1>1, <1>5 DEF Uncommitted, OpenBlock, OpenedBlock, CommitBatch, SentPage
  <2>2. Uncommitted'
    <3>1. CASE OpenBlock
      BY <3>1 DEF OpenBlock, Uncommitted, Steps
    <3>2. CASE OpenedBlock
      BY <3>2 DEF OpenedBlock, Uncommitted, Steps
    <3>3. CASE CommitBatch
      BY <1>1, <3>3 DEF CommitBatch, Call, CallsOK, Uncommitted
    <3>4. ASSUME NEW ok \in BOOLEAN, SentPage(ok) PROVE Uncommitted'
      BY <3>4 DEF SentPage, Uncommitted, Steps
    <3>5. QED
      BY <1>5, <3>1, <3>2, <3>3, <3>4
  <2>3. net' = net /\ ia' = ia /\ sent' = sent
    BY <1>5 DEF OpenBlock, OpenedBlock, CommitBatch, SentPage
  <2>4. Seen' = Seen
    BY <1>3, <2>3 DEF Seen, CountsKept
  <2>5. QED
    BY <1>3, <1>4, <2>1, <2>2, <2>3, <2>4 DEF BatchCounted, CountsKept
<1>6. ASSUME NEW o \in TestOffsets, SendPage(o) PROVE BatchCounted'
  <2> DEFINE e == [off |-> o, ver |-> sent + 1]
  <2>1. /\ Uncommitted /\ Uncommitted' /\ ia' = ia /\ sent' = sent + 1
        /\ net'[Main] = Append(net[Main], e)
    BY <1>1, <1>6 DEF SendPage, Uncommitted
  <2>2. e \in Page /\ e.ver > ia
    <3>1. sent + 1 \in 0 .. MaxStores /\ o \in Offsets
      BY <2>1 DEF TestTypeOK, TestOffsets
    <3>2. QED
      BY <1>2, <3>1, MaxStoresAssumption DEF Page
  <2> HIDE DEF e
  <2>3. Elems(Append(net[Main], e)) = Elems(net[Main]) \cup {e}
    <3>1. net[Main] \in Seq(Page)
      BY <1>1 DEF TestTypeOK
    <3>2. QED
      BY <2>2, <3>1, ElemsOfAppend
  <2>4. Seen \in SUBSET Seen' /\ Seen' \in SUBSET (ia + 1 .. sent + 1)
    BY <1>2, <1>3, <2>1 DEF Seen, CountsKept
  <2>5. Cardinality(Seen) <= Cardinality(Seen') /\ Cardinality(Seen') \in Int
    BY <1>2, <2>4, SomeOf
  <2>6. Seen \in SUBSET (ia + 1 .. sent)
    BY DEF Seen
  <2>7. Pending \in Int /\ Cardinality(Seen) \in Int
    <3>1. srvBatch[Main] \in Nat /\ cq[Main] \in Seq(Completion)
      BY <1>1 DEF FarTypeOK
    <3>2. Len(cq[Main]) \in Nat
      BY <3>1, LenProperties
    <3>3. Pending \in Int
      BY <3>1, <3>2 DEF Pending
    <3>4. QED
      BY <1>2, <2>6, <3>3, SomeOf
  <2>8. Pending <= Cardinality(Seen')
    BY <2>1, <2>5, <2>7 DEF BatchCounted
  <2>9. QED
    BY <1>3, <1>4, <2>1, <2>2, <2>3, <2>8 DEF BatchCounted, CountsKept
<1>7. CASE CommittedBatch
  <2>1. rep[Main] # None /\ step = "committing" /\ step' = "check"
    BY <1>7 DEF CommittedBatch, TakeReply
  <2>2. rpcPc[Main] = "idle" /\ rpcPc' = rpcPc
    BY <1>1, <1>7, <2>1 DEF CallsOK, CommittedBatch, TakeReply
  <2>3. ~Uncommitted /\ ~Uncommitted'
    BY <2>1 DEF Uncommitted
  <2>4. net' = net /\ ia' = ia /\ sent' = sent
    BY <1>7 DEF CommittedBatch
  <2>5. Seen' = Seen
    BY <1>3, <2>4 DEF Seen, CountsKept
  <2>6. QED
    BY <1>1, <1>3, <2>2, <2>3, <2>4, <2>5 DEF BatchCounted, CountsKept
<1>8. ASSUME NEW ok \in BOOLEAN, CheckPage(ok) PROVE BatchCounted'
  <2>1. /\ step = "check" /\ step' \in {"check", "send"} /\ ia' = ia + 1 /\ sent' = sent
        /\ net' = net /\ rpcPc' = rpcPc
    BY <1>8 DEF CheckPage, Steps, serverVars, rpcVars
  <2>2. ~Uncommitted /\ rpcPc[Main] = "idle"
    BY <1>1, <2>1 DEF Uncommitted, CallsOK
  <2>3. /\ ~clash[Main] /\ flow[Main] = None /\ cq[Main] = <<>> /\ net[Main] = <<>>
        /\ Seen = ia + 1 .. sent /\ commitList[Main] = <<>> /\ srvBatch[Main] = 0
    BY <1>1, <2>2 DEF BatchCounted
  <2>4. Seen' = ia' + 1 .. sent
    BY <1>2, <1>3, <2>1, <2>3 DEF Seen, CountsKept
  <2>5. Cardinality(Seen') \in Nat
    BY <1>2, <2>1, <2>4, FS_Interval, FS_CardinalityType
  <2>6. Pending' = 0 /\ Elems(net'[Main]) = {}
    BY <1>4, <2>1, <2>3 DEF Pending, Elems
  <2>7. QED
    BY <1>3, <2>1, <2>3, <2>4, <2>5, <2>6 DEF BatchCounted, CountsKept
<1>9. QED
  BY <1>5, <1>6, <1>7, <1>8 DEF TestStep

\* A page of the batch arrives: until the commit, and it has not been counted.
LEMMA ArrivalCounts ==
    ASSUME TestInv, client = "test", step \in Steps, BatchCounted, Deliver(Main)
    PROVE  BatchCounted'
<1> DEFINE p == Head(net[Main])
<1>1. TestTypeOK /\ FarTypeOK /\ Numbered /\ Main \in Servers
  BY MainAssumption DEF TestInv, TestTypeOK
<1>2. ia \in Nat /\ sent \in Nat /\ ia <= sent
  BY <1>1, MaxStoresAssumption DEF TestTypeOK
<1>3. /\ net[Main] # <<>> /\ p \in Page /\ p \in Elems(net[Main])
      /\ Elems(net'[Main]) \subseteq Elems(net[Main])
  BY <1>1, NetworkTakes
<1>4. Receive(Main, p) /\ UNCHANGED <<step, sent, ia>>
  BY DEF Deliver
<1> HIDE DEF p
<1>5. Uncommitted
  BY <1>3 DEF BatchCounted
<1>6. /\ srvBatch' = srvBatch /\ flow' = flow /\ convey' = convey /\ clash' = clash
      /\ rep' = rep /\ rpcPc' = rpcPc /\ delivered'[Main] = delivered[Main] \cup {p}
      /\ \E w : cq'[Main] = Append(cq[Main], w)
  BY <1>1, <1>4 DEF Receive, FarTypeOK, listVars, rmhVars, rpcVars
<1>7. Uncommitted'
  BY <1>4, <1>5, <1>6 DEF Uncommitted
<1>8. srvBatch[Main] \in Nat /\ Len(cq[Main]) \in Nat /\ Len(cq'[Main]) = Len(cq[Main]) + 1
  <2>1. cq[Main] \in Seq(Completion) /\ cq'[Main] \in Seq(Completion)
    <3>1. cq' \in [Servers -> Seq(Completion)]
      BY <1>1, <1>3, <1>4, ReceiveTypes DEF FarTypeOK
    <3>2. QED
      BY <1>1, <3>1 DEF FarTypeOK
  <2>2. QED
    BY <1>1, <1>6, <2>1, LenProperties DEF FarTypeOK
<1>9. Pending \in Int /\ Pending' = Pending + 1
  <2>1. flow' = flow /\ srvBatch' = srvBatch
    BY <1>6
  <2>2. Pending' = srvBatch[Main] + (IF flow[Main] = None THEN 0 ELSE 1) + (Len(cq[Main]) + 1)
    BY <1>8, <2>1 DEF Pending
  <2>3. QED
    BY <1>8, <2>2 DEF Pending
<1>10. p.ver \in Int /\ p.ver > ia /\ p.ver <= sent /\ \A q \in delivered[Main] : q.ver < p.ver
  <2>1. p.ver \in Int
    BY <1>3, MaxStoresAssumption DEF Page
  <2>2. QED
    BY <1>1, <1>3, <1>5, <2>1 DEF BatchCounted, Numbered, Newest
<1>11. p.ver \notin Seen /\ Seen' = Seen \cup {p.ver}
  <2>1. p.ver \notin Seen
    <3>1. \A q \in delivered[Main] : q.ver # p.ver
      <4>1. \A q \in delivered[Main] : q.ver \in Int
        BY <1>1, MaxStoresAssumption DEF FarTypeOK, Page
      <4>2. QED
        BY <1>10, <4>1
    <3>2. QED
      BY <3>1 DEF Seen
  <2>2. p.ver \in ia + 1 .. sent
    BY <1>2, <1>10
  <2>3. QED
    BY <1>4, <1>6, <2>1, <2>2 DEF Seen
<1>12. IsFiniteSet(Seen) /\ Cardinality(Seen) \in Nat
  <2>1. Seen \in SUBSET (ia + 1 .. sent)
    BY DEF Seen
  <2>2. QED
    BY <1>2, <2>1, SomeOf
<1>13. Cardinality(Seen') = Cardinality(Seen) + 1
  BY <1>11, <1>12, FS_AddElement
<1>14. Pending' <= Cardinality(Seen')
  BY <1>5, <1>9, <1>12, <1>13 DEF BatchCounted
<1>15. QED
  BY <1>3, <1>4, <1>5, <1>6, <1>7, <1>14 DEF BatchCounted

\* The multicast thread takes a completion, and counts its page at most once.
LEMMA FlowCounts ==
    ASSUME TestInv, client = "test", step \in Steps, BatchCounted,
           MulticastThread(Main), UNCHANGED testVars
    PROVE  BatchCounted'
<1>1. TestTypeOK /\ FarTypeOK /\ InOneQueue(Main) /\ OnlyListedMarked(Main) /\ Main \in Servers
  BY MainAssumption
     DEF TestInv, TestTypeOK, OrderedServerInv, ServerInv, QueueInv, BatchCounted
<1>2. ia \in Nat /\ sent \in Nat /\ ia <= sent
  BY <1>1, MaxStoresAssumption DEF TestTypeOK
<1>3. srvBatch[Main] \in Nat /\ cq[Main] \in Seq(Completion) /\ Len(cq[Main]) \in Nat
  BY <1>1, LenProperties DEF FarTypeOK
<1>4. /\ UNCHANGED <<step, sent, ia, net>> /\ rep' = rep /\ rpcPc' = rpcPc
      /\ delivered' = delivered /\ clash' = clash
  BY DEF testVars, MulticastThread, FlowAdd, FlowConvey, rpcVars, historyVars
<1>5. Seen' = Seen /\ (Uncommitted' <=> Uncommitted)
  BY <1>4 DEF Seen, Uncommitted
<1>6. Cardinality(Seen) \in Nat
  <2>1. Seen \in SUBSET (ia + 1 .. sent)
    BY DEF Seen
  <2>2. QED
    BY <1>2, <2>1, SomeOf
<1>7. Uncommitted
  BY DEF BatchCounted, MulticastThread, FlowAdd, FlowConvey
<1>8. /\ Pending' \in Int /\ Pending \in Int /\ Pending' <= Pending
      /\ flow'[Main] # None => ~convey'[Main][flow'[Main].buf]
  <2>1. CASE FlowAdd(Main)
    <3> DEFINE w == Head(cq[Main])
    <3>1. /\ w \in Completion /\ cq[Main] # <<>> /\ cq'[Main] = Tail(cq[Main])
          /\ w.buf \notin Elems(commitList[Main])
          /\ flow[Main] = None /\ flow'[Main] = w /\ w # None /\ convey' = convey
      BY <1>1, <2>1, FlowAddDoes
    <3> HIDE DEF w
    <3>2. Len(cq'[Main]) = Len(cq[Main]) - 1
      BY <1>3, <3>1, HeadTailProperties
    <3>3. srvBatch' = srvBatch
      BY <2>1 DEF FlowAdd, rmhVars
    <3>4. Pending' = Pending /\ Pending \in Int
      BY <1>3, <3>1, <3>2, <3>3 DEF Pending
    <3>5. ~convey[Main][w.buf]
      BY <1>1, <3>1 DEF OnlyListedMarked, Completion
    <3>6. QED
      BY <3>1, <3>4, <3>5
  <2>2. CASE FlowConvey(Main)
    <3>1. flow[Main] # None /\ flow'[Main] = None /\ cq' = cq
      BY <1>1, <2>2, FlowConveyDoes
    <3>2. srvBatch'[Main] = srvBatch[Main] \/ srvBatch'[Main] = srvBatch[Main] + 1
      BY <1>1, <2>2 DEF FlowConvey, FarTypeOK
    <3>3. QED
      BY <1>3, <3>1, <3>2 DEF Pending
  <2>3. QED
    BY <2>1, <2>2 DEF MulticastThread
<1>9. Pending' <= Cardinality(Seen')
  BY <1>5, <1>6, <1>7, <1>8 DEF BatchCounted
<1>10. QED
  BY <1>4, <1>5, <1>7, <1>8, <1>9 DEF BatchCounted

\* A commit that does not find commit_list empty gets through when the whole batch
\* arrived and was counted.
LEMMA CommitCounts ==
    ASSUME TestInv, client = "test", step \in Steps, BatchCounted, ~early'[Main],
           RdmaThread(Main), UNCHANGED testVars
    PROVE  BatchCounted'
<1>1. /\ TestTypeOK /\ FarTypeOK /\ CallsOK /\ BatchesOK /\ Numbered /\ Main \in Servers
      /\ InOneQueue(Main)
  BY MainAssumption DEF TestInv, TestTypeOK, OrderedServerInv, ServerInv, QueueInv
<1>2. ia \in Nat /\ sent \in Nat /\ ia <= sent /\ SERVER_BATCH \in Nat
  BY <1>1, MaxStoresAssumption, ServerBatchAssumption DEF TestTypeOK
<1>3. UNCHANGED <<step, sent, ia, net>> /\ delivered' = delivered
  BY <1>1, ThreadsLeave DEF testVars, ServerStep
<1>4. Seen' = Seen
  BY <1>3 DEF Seen
<1>5. CASE ServeOpen(Main)
  <2>1. step = "opening"
    BY <1>1, <1>5 DEF ServeOpen, CallsOK, Steps
  <2>2. /\ Uncommitted /\ Uncommitted' /\ Pending' = Pending
        /\ UNCHANGED <<convey, flow, clash>>
    BY <1>3, <1>5, <2>1
       DEF ServeOpen, Uncommitted, Pending, queueVars, listVars, historyVars
  <2>3. QED
    BY <1>3, <1>4, <2>2 DEF BatchCounted
<1>6. CASE CommitEmpty(Main)
  BY <1>1, <1>6 DEF CommitEmpty, FarTypeOK
<1>7. CASE CommitBegin(Main)
  <2>1. /\ step = "committing" /\ rep[Main] = None /\ rpcPc[Main] = "idle"
    BY <1>1, <1>7 DEF CommitBegin, IsCommit, CallsOK, Steps
  <2>2. /\ Uncommitted /\ Uncommitted' /\ Pending' = Pending
        /\ UNCHANGED <<convey, flow, clash>>
    BY <1>1, <1>3, <1>7, <2>1
       DEF CommitBegin, Uncommitted, Pending, queueVars, listVars, rmhVars, historyVars, FarTypeOK
  <2>3. QED
    BY <1>3, <1>4, <2>2 DEF BatchCounted
<1>8. CASE CommitConvey(Main)
  <2>1. /\ step = "committing" /\ rep[Main] = None /\ rpcPc[Main] = "wait"
        /\ req[Main].op = "commit" /\ srvBatch[Main] >= SERVER_BATCH /\ rpcPc'[Main] = "putback"
    BY <1>1, <1>8 DEF CommitConvey, CallsOK, Steps, Awaited, FarTypeOK
  <2>2. Uncommitted /\ sent = ia + SERVER_BATCH
    BY <1>1, <2>1 DEF Uncommitted, BatchesOK
  <2>3. /\ Seen \in SUBSET (ia + 1 .. sent) /\ Cardinality(Seen) \in Nat
        /\ Cardinality(Seen) <= SERVER_BATCH
        /\ Cardinality(Seen) = SERVER_BATCH => Seen = ia + 1 .. sent
    <3>1. Seen \in SUBSET (ia + 1 .. sent) /\ sent - ia = SERVER_BATCH
      BY <1>2, <2>2 DEF Seen
    <3>2. QED
      BY <1>2, <3>1, SomeOf
  <2>4. /\ flow[Main] = None /\ Len(cq[Main]) = 0 /\ Cardinality(Seen) = SERVER_BATCH
    <3>1. srvBatch[Main] \in Nat /\ Len(cq[Main]) \in Nat
      BY <1>1, LenProperties DEF FarTypeOK
    <3>2. srvBatch[Main] + (IF flow[Main] = None THEN 0 ELSE 1) + Len(cq[Main])
            <= Cardinality(Seen)
      BY <2>2 DEF BatchCounted, Pending
    <3>3. flow[Main] = None
      BY <1>2, <2>1, <2>3, <3>1, <3>2
    <3>4. srvBatch[Main] + Len(cq[Main]) <= Cardinality(Seen)
      BY <3>1, <3>2, <3>3
    <3>5. QED
      BY <1>2, <2>1, <2>3, <3>1, <3>3, <3>4
  <2>5. cq[Main] = <<>>
    BY <1>1, <2>4, EmptySeq DEF FarTypeOK
  <2>6. net[Main] = <<>>
    <3> SUFFICES ASSUME net[Main] # <<>> PROVE FALSE
      OBVIOUS
    <3> DEFINE p == Head(net[Main])
    <3>1. p \in Page /\ p \in Elems(net[Main])
      BY <1>1, HeadAndTail DEF TestTypeOK
    <3> HIDE DEF p
    <3>2. p.ver \in Int
      BY <3>1, MaxStoresAssumption DEF Page
    <3>3. p.ver \in Seen
      BY <1>1, <1>2, <2>2, <2>3, <2>4, <3>1, <3>2 DEF BatchCounted, Numbered
    <3>4. PICK q \in delivered[Main] : q.ver = p.ver
      BY <3>3 DEF Seen
    <3>5. p.ver < p.ver
      BY <1>1, <3>1, <3>4 DEF Numbered, Newest
    <3>6. QED
      BY <3>2, <3>5
  <2>7. ~Uncommitted' /\ rpcPc'[Main] \notin {"idle", "reset"}
    BY <1>3, <2>1 DEF Uncommitted
  <2>8. UNCHANGED <<cq, flow, clash>>
    BY <1>8 DEF CommitConvey, queueVars, historyVars
  <2>9. QED
    BY <1>3, <1>4, <2>3, <2>4, <2>5, <2>6, <2>7, <2>8 DEF BatchCounted
<1>9. CASE CommitPutback(Main)
  <2>1. step = "committing" /\ rpcPc[Main] = "putback"
    BY <1>1, <1>9 DEF CommitPutback, CallsOK, Steps
  <2>2. ~Uncommitted
    BY <2>1 DEF Uncommitted
  <2>3. /\ flow[Main] = None /\ cq[Main] = <<>> /\ net[Main] = <<>> /\ Seen = ia + 1 .. sent
        /\ ~clash[Main]
    BY <2>2 DEF BatchCounted
  <2>4. /\ cq' = cq /\ flow' = flow /\ ~clash'[Main] /\ commitList'[Main] = <<>>
        /\ rpcPc'[Main] = "reset"
    BY <1>1, <1>9, <2>3 DEF CommitPutback, FarTypeOK
  <2>5. ~Uncommitted'
    BY <1>3, <2>1, <2>4 DEF Uncommitted
  <2>6. QED
    BY <1>3, <1>4, <2>3, <2>4, <2>5 DEF BatchCounted
<1>10. CASE CommitReset(Main)
  <2>1. step = "committing" /\ rpcPc[Main] = "reset"
    BY <1>1, <1>10 DEF CommitReset, CallsOK, Steps
  <2>2. ~Uncommitted
    BY <2>1 DEF Uncommitted
  <2>3. /\ flow[Main] = None /\ cq[Main] = <<>> /\ net[Main] = <<>> /\ Seen = ia + 1 .. sent
        /\ ~clash[Main] /\ commitList[Main] = <<>>
    BY <2>1, <2>2 DEF BatchCounted
  <2>4. /\ cq' = cq /\ flow' = flow /\ clash' = clash /\ commitList' = commitList
        /\ srvBatch'[Main] = 0 /\ rep'[Main] = "committed"
    BY <1>1, <1>10 DEF CommitReset, BatchLeft, FarTypeOK, queueVars, historyVars
  <2>5. ~Uncommitted'
    <3>1. rep'[Main] # None
      BY <2>4, NoReplyAssumption
    <3>2. QED
      BY <1>3, <2>1, <3>1 DEF Uncommitted
  <2>6. QED
    BY <1>3, <1>4, <2>3, <2>4, <2>5 DEF BatchCounted
<1>11. QED
  BY <1>5, <1>6, <1>7, <1>8, <1>9, <1>10 DEF RdmaThread

LEMMA CountedStep ==
    ASSUME TestInv, client = "test", step' \in Steps, ~early'[Main], [TestNext]_testSystemVars
    PROVE  BatchCounted'
<1>1. TestTypeOK /\ FarTypeOK /\ Main \in Servers /\ step \in Steps /\ ~early[Main]
  BY EndsStay, MainAssumption DEF TestInv, TestTypeOK
<1>2. BatchCounted
  BY <1>1 DEF TestInv
<1>3. CASE TestStep
  BY <1>2, <1>3, TestTypeStep, TestCounts
<1>4. ASSUME NEW s \in Servers, Deliver(s) PROVE BatchCounted'
  <2>1. CASE s = Main
    BY <1>1, <1>2, <1>4, <2>1, ArrivalCounts
  <2>2. CASE s # Main
    <3>1. ServerStep(s) /\ net'[Main] = net[Main]
      BY <1>1, <1>4, <2>2, NetworkTakes DEF Deliver, ServerStep
    <3>2. CountsKept /\ rep'[Main] = rep[Main] /\ rpcPc'[Main] = rpcPc[Main]
      BY <1>1, <2>2, <3>1, OtherServer DEF Untouched, CountsKept
    <3>3. UNCHANGED <<step, ia, sent>>
      BY <1>4 DEF Deliver
    <3>4. QED
      BY <1>1, <1>2, <3>1, <3>2, <3>3, CountsKeptWhenOthersRun
  <2>3. QED
    BY <2>1, <2>2
<1>5. ASSUME NEW s \in Servers, Drop(s) PROVE BatchCounted'
  <2>1. /\ CountsKept /\ rep'[Main] = rep[Main] /\ rpcPc'[Main] = rpcPc[Main]
        /\ UNCHANGED <<step, ia, sent>>
    BY <1>5 DEF Drop, CountsKept, serverVars, queueVars, listVars, rmhVars, rpcVars, historyVars
  <2>2. Elems(net'[Main]) \subseteq Elems(net[Main]) /\ (net[Main] = <<>> => net'[Main] = <<>>)
    BY <1>1, <1>5, NetworkTakes
  <2>3. QED
    BY <1>1, <1>2, <2>1, <2>2, CountsKeptWhenOthersRun
<1>6. ASSUME NEW s \in Servers, MulticastThreadRuns(s) \/ RdmaThreadRuns(s) PROVE BatchCounted'
  <2>1. CASE s = Main
    BY <1>1, <1>2, <1>6, <2>1, FlowCounts, CommitCounts DEF MulticastThreadRuns, RdmaThreadRuns
  <2>2. CASE s # Main
    <3>1. ServerStep(s) /\ UNCHANGED testVars
      BY <1>6 DEF MulticastThreadRuns, RdmaThreadRuns, ServerStep
    <3>2. CountsKept /\ rep'[Main] = rep[Main] /\ rpcPc'[Main] = rpcPc[Main]
      BY <1>1, <2>2, <3>1, OtherServer DEF Untouched, CountsKept
    <3>3. QED
      BY <1>1, <1>2, <3>1, <3>2, CountsKeptWhenOthersRun DEF testVars
  <2>3. QED
    BY <2>1, <2>2
<1>7. CASE UNCHANGED testSystemVars
  <2>1. /\ CountsKept /\ rep'[Main] = rep[Main] /\ rpcPc'[Main] = rpcPc[Main]
        /\ UNCHANGED <<step, ia, sent, net>>
    BY <1>7 DEF testSystemVars, testVars, CountsKept, serverVars, queueVars, listVars, rmhVars,
                rpcVars, historyVars
  <2>2. QED
    BY <1>1, <1>2, <2>1, CountsKeptWhenOthersRun
<1>8. QED
  BY <1>3, <1>4, <1>5, <1>6, <1>7 DEF TestNext, ClientRuns

\* The test ends when no call is open, and makes none after.
LEMMA QuietStep ==
    ASSUME TestInv, client = "test", ~early'[Main], [TestNext]_testSystemVars
    PROVE  EndsQuiet'
<1>1. TestTypeOK /\ FarTypeOK /\ Main \in Servers /\ ~early[Main] /\ EndsQuiet
  BY EndsStay, MainAssumption DEF TestInv, TestTypeOK
<1>2. ASSUME UNCHANGED <<step, clash, rpcPc, req>> PROVE EndsQuiet'
  BY <1>1, <1>2 DEF EndsQuiet
<1>3. CASE TestStep
  <2> SUFFICES ASSUME step' \in Ends PROVE EndsQuiet'
    BY DEF EndsQuiet
  <2>1. step \in {"sending", "check"} /\ UNCHANGED serverVars
    BY <1>3 DEF TestStep, OpenBlock, OpenedBlock, SendPage, SentPage, CommitBatch,
                CommittedBatch, CheckPage, Ends
  <2>2. CallsOK /\ BatchCounted
    BY <1>1, <2>1 DEF TestInv, Steps
  <2>3. ~clash[Main] /\ rpcPc[Main] = "idle" /\ req[Main] = None
    BY <2>1, <2>2 DEF CallsOK, BatchCounted
  <2>4. QED
    BY <2>1, <2>3 DEF EndsQuiet, serverVars, rpcVars, historyVars
<1>4. ASSUME NEW s \in Servers, Deliver(s) \/ Drop(s) \/ MulticastThreadRuns(s)
      PROVE  EndsQuiet'
  BY <1>2, <1>4 DEF Deliver, Drop, MulticastThreadRuns, MulticastThread, FlowAdd, FlowConvey,
                    Receive, testVars, serverVars, rpcVars, historyVars
<1>5. ASSUME NEW s \in Servers, RdmaThreadRuns(s) PROVE EndsQuiet'
  <2> SUFFICES ASSUME step' \in Ends PROVE EndsQuiet'
    BY DEF EndsQuiet
  <2>1. step' = step /\ RdmaThread(s) /\ ServerStep(s)
    BY <1>5 DEF RdmaThreadRuns, testVars, ServerStep
  <2>2. ~clash[Main] /\ rpcPc[Main] = "idle" /\ req[Main] = None
    BY <1>1, <2>1 DEF EndsQuiet
  <2>3. s # Main
    BY <2>1, <2>2 DEF RdmaThread, ServeOpen, CommitEmpty, CommitBegin, CommitConvey,
                      CommitPutback, CommitReset, IsCommit
  <2>4. QED
    BY <1>1, <2>1, <2>2, <2>3, OtherServer DEF Untouched, EndsQuiet
<1>6. CASE UNCHANGED testSystemVars
  BY <1>2, <1>6 DEF testSystemVars, testVars, serverVars, rpcVars, historyVars
<1>7. QED
  BY <1>3, <1>4, <1>5, <1>6 DEF TestNext, ClientRuns

----------------------------------------------------------------------------
(* What is read back. *)

\* After the commit each page of the batch is where the test looks for it.
LEMMA PageIsThere ==
    ASSUME TestInv, client = "test", step = "check", ~early[Main]
    PROVE  ReadsBack(offsetlist[SlotOf(ia)])
<1>1. /\ TestTypeOK /\ FarTypeOK /\ CallsOK /\ BatchesOK /\ NotesOK /\ BatchCounted
      /\ Main \in Servers /\ ServerInv /\ OrderInv(Main) /\ BlocksOK(Main)
  BY MainAssumption DEF TestInv, TestTypeOK, OrderedServerInv, ServerInv, QueueInv, Steps
<1>2. ia \in Nat /\ sent \in Nat /\ ia < sent
  BY <1>1, MaxStoresAssumption DEF TestTypeOK, BatchesOK
<1>3. /\ ~clash[Main] /\ cq[Main] = <<>> /\ commitList[Main] = <<>> /\ Seen = ia + 1 .. sent
  BY <1>1 DEF BatchCounted, Uncommitted, CallsOK, Steps
<1>4. PICK p \in delivered[Main] : p.ver = ia + 1
  <2>1. ia + 1 \in Seen
    BY <1>2, <1>3
  <2>2. QED
    BY <2>1 DEF Seen
<1>5. p.off = offsetlist[SlotOf(ia)] /\ p.off \in TestOffsets
  <2>1. p.ver > ia /\ p.ver - 1 = ia
    BY <1>2, <1>4
  <2>2. QED
    BY <1>1, <2>1 DEF NotesOK
<1>6. BlockOf[p.off] \notin Unallocatable
  <2>1. PICK k \in DOMAIN BlockOrder : BlockOf[p.off] = BlockOrder[k]
    BY <1>5 DEF TestOffsets, Elems
  <2>2. k \in 1 .. opened
    BY <1>1, <2>1, BlockOrderAssumption, LenProperties DEF NotesOK, Steps
  <2>3. BlockOf[p.off] \in blocks[Main]
    BY <1>1, <2>1, <2>2 DEF NotesOK
  <2>4. QED
    BY <1>1, <2>3 DEF BlocksOK
<1>7. HasAtLeast(Main, p)
  <2>1. Elems(cq[Main]) = {} /\ Elems(commitList[Main]) = {}
    BY <1>3 DEF Elems
  <2>2. QED
    BY <1>1, <1>3, <1>6, <2>1 DEF OrderInv, NothingDropped
<1>8. mem[Main][p.off] # None /\ p.off \in Offsets
  BY <1>5, <1>7 DEF HasAtLeast, AtLeast, TestOffsets
<1>9. mem[Main][p.off].off = p.off
  BY <1>1, <1>3, <1>8 DEF OrderInv, Ordered
<1>10. QED
  BY <1>5, <1>8, <1>9 DEF ReadsBack

LEMMA MatchStep ==
    ASSUME TestInv, client = "test", ~early'[Main], [TestNext]_testSystemVars
    PROVE  step' # "mismatch"
<1>1. ~early[Main] /\ step # "mismatch"
  BY EndsStay, MainAssumption DEF TestInv
<1>2. ASSUME NEW ok \in BOOLEAN, CheckPage(ok) PROVE step' # "mismatch"
  BY <1>1, <1>2, PageIsThere DEF CheckPage
<1>3. QED
  BY <1>1, <1>2 DEF TestNext, ClientRuns, TestStep, OpenBlock, OpenedBlock, SendPage, SentPage,
                    CommitBatch, CommittedBatch, Deliver, Drop, MulticastThreadRuns,
                    RdmaThreadRuns, testSystemVars, testVars

----------------------------------------------------------------------------
(* The theorems. *)

\* Any other program numbers its pages as they arrive, and has none on the way.
LEMMA AnyClientKeeps ==
    ASSUME TestInv, client = "any", [TestNext]_testSystemVars
    PROVE  step' = "open" /\ \A s \in Servers : DeliveredCounted(s)' /\ net'[s] = <<>>
<1>1. TestTypeOK /\ FarTypeOK /\ FarInv /\ step = "open" /\ \A s \in Servers : net[s] = <<>>
  BY DEF TestInv, TestTypeOK, FarInv
<1>2. UNCHANGED testVars
  BY <1>1 DEF TestNext, ClientRuns, Deliver, Drop, MulticastThreadRuns, RdmaThreadRuns,
              testSystemVars
<1>3. [FarNext]_serverVars
  BY <1>1 DEF TestNext, ClientRuns, Deliver, Drop, MulticastThreadRuns, RdmaThreadRuns,
              testSystemVars, FarNext
<1>4. QED
  BY <1>1, <1>2, <1>3, FarInvStep DEF FarInv, testVars

LEMMA TestInvStep ==
    ASSUME TestInv, [TestNext]_testSystemVars
    PROVE  TestInv' /\ \A s \in Servers : Forward(s)
<1>1. TestTypeOK' /\ OrderedServerInv' /\ \A s \in Servers : Forward(s)
  BY TestTypeStep, TestIsOrdered, OrderStep DEF TestInv
<1>2. client' = client /\ (step' \in Steps => step \in Steps)
  BY EndsStay
<1>3. client \in {"any", "test"}
  BY DEF TestInv, TestTypeOK
<1>4. CASE client = "any"
  BY <1>1, <1>2, <1>4, AnyClientKeeps DEF TestInv
<1>5. CASE client = "test"
  BY <1>1, <1>2, <1>5, NumberedStep, CallsStep, BatchesStep, NotesStep, CountedStep, MatchStep,
     QuietStep DEF TestInv
<1>6. QED
  BY <1>3, <1>4, <1>5

\* In every state the servers and a client reach, the invariant holds.
THEOREM TestInvariant == TestSpec => []TestInv
<1>1. TestInv /\ [TestNext]_testSystemVars => TestInv'
  BY TestInvStep
<1>2. QED
  BY <1>1, TestInvInit, PTL DEF TestSpec

\* Every variable of the servers and of the test holds a value of its type: the test
\* never indexes offsetlist beyond CONFIG_BATCH, nor opens a block beyond the list's end.
THEOREM TestTypeCorrect == TestSpec => []TestTypeOK
<1>1. TestInv => TestTypeOK
  BY DEF TestInv
<1>2. QED
  BY <1>1, TestInvariant, PTL

\* Whoever the client is, the receive buffers of the servers are conserved.
THEOREM TestConservesBuffers == TestSpec => []BuffersConserved
<1>1. TestInv => BuffersConserved
  BY InvConserves DEF TestInv, OrderedServerInv
<1>2. QED
  BY <1>1, TestInvariant, PTL

\* Whoever the client is, the buffers that wait for pages are not marked, until a
\* commit puts back the buffer the multicast thread is about to convey.
THEOREM TestPostsCleanBuffers == TestSpec => []PostedBuffersCleanUnlessClash
<1>1. TestInv => PostedBuffersCleanUnlessClash
  BY InvClean DEF TestInv, OrderedServerInv
<1>2. QED
  BY <1>1, TestInvariant, PTL

\* Whoever the client is, no page that arrived is dropped, until a commit puts back
\* the buffer the multicast thread is about to convey.
THEOREM TestDropsNoPage == TestSpec => []NoPageDroppedUnlessClash
<1>1. TestInv => NoPageDroppedUnlessClash
  BY InvDropsNothing DEF TestInv
<1>2. QED
  BY <1>1, TestInvariant, PTL

\* Whoever the client is, the memory of a server moves forward, until a commit puts
\* back the buffer the multicast thread is about to convey.
THEOREM TestMovesForward == TestSpec => MemoryMovesForwardUnlessClash
<1>1. TestInv /\ [TestNext]_testSystemVars =>
        [\A s \in Servers, o \in Offsets :
           ~clash'[s] /\ mem'[s][o] # mem[s][o] =>
             /\ mem'[s][o].off = o
             /\ mem[s][o] # None => mem'[s][o].ver > mem[s][o].ver]_serverVars
  BY TestInvStep DEF Forward
<1>2. QED
  BY <1>1, TestInvariant, PTL DEF TestSpec, MemoryMovesForwardUnlessClash

\* What the test of the repository gets.
TestMeetsNoClash ==
    client = "test" /\ ~early[Main] =>
        ~clash[Main] /\ \A p \in delivered[Main] : NotDropped(Main, p)

\* test_rpc_open sends nothing during a commit and as many pages as the server
\* counts: unless its commit is answered on an empty list, no commit puts back the
\* buffer the multicast thread is about to convey, and its server drops no page.
THEOREM TestIsNotRaced == TestSpec => []TestMeetsNoClash
<1>1. TestInv => TestMeetsNoClash
  <2> SUFFICES ASSUME TestInv, client = "test", ~early[Main]
               PROVE  ~clash[Main] /\ \A p \in delivered[Main] : NotDropped(Main, p)
    BY DEF TestMeetsNoClash
  <2>1. ~clash[Main]
    BY DEF TestInv, TestTypeOK, BatchCounted, EndsQuiet
  <2>2. NoPageDroppedUnlessClash /\ Main \in Servers
    BY InvDropsNothing, MainAssumption DEF TestInv
  <2>3. QED
    BY <2>1, <2>2 DEF NoPageDroppedUnlessClash
<1>2. QED
  BY <1>1, TestInvariant, PTL

\* Each page test_rpc_open reads back after a commit is the page it sent, unless the
\* server answered a commit on an empty commit_list: when the commit gets through, the
\* counter shows that the whole batch arrived, and the list has been conveyed.
THEOREM TestReadsBackWhatItSent == TestSpec => []ReadBackMatchesUnlessEarly
<1>1. TestInv => ReadBackMatchesUnlessEarly
  BY DEF TestInv, ReadBackMatchesUnlessEarly, ReadBackMatches, TestTypeOK
<1>2. QED
  BY <1>1, TestInvariant, PTL
=============================================================================
