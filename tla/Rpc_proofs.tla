----------------------------- MODULE Rpc_proofs -----------------------------
(***************************************************************************)
(* The header, for every offset and count; the block an rkey is kept for,  *)
(* and the binders, for every set of servers, offsets and binders and      *)
(* every combination of failures.                                          *)
(***************************************************************************)
EXTENDS Rpc, FiniteSetTheorems, SequenceTheorems, TLAPS

----------------------------------------------------------------------------
(* What the two ends of the wire make of the same header, for every page      *)
(* number, binder and count.                                                  *)

\* The widths, as bounds and ratios: the SMT backend does not take literals of
\* their size.
LEMMA Widths ==
    /\ Half \in Nat /\ Half <= 65536 /\ Half >= 65536
    /\ BlockPages = 4 * Half /\ OffsetSpan = 1024 * BlockPages
<1>1. Half \in Nat /\ Half <= 65536 /\ Half >= 65536
  BY DEF Half
<1>2. BlockPages = 4 * Half
  BY DEF BlockPages
<1>3. OffsetSpan = 1024 * BlockPages
  BY DEF OffsetSpan
<1>4. QED
  BY <1>1, <1>2, <1>3

\* Or of two bytes is a byte.
LEMMA OrBytesFacts ==
    ASSUME NEW a \in Binder, NEW b \in Binder
    PROVE  /\ OrBytes(a, b) \in Binder
           /\ a = 0 => OrBytes(a, b) = b
BY SMTT(60) DEF OrBytes, Binder, NR_BINDERS

\* The binder goes over the low byte of the opcode.
LEMMA ImmDataFacts ==
    ASSUME NEW c \in Nat, NEW b \in Binder
    PROVE  /\ imm_data(c, b) \in Nat
           /\ imm_data(c, b) >= c - (c % 256) /\ imm_data(c, b) <= c - (c % 256) + 255
           /\ c % 256 = 0 => imm_data(c, b) = c + b
<1> DEFINE r == OrBytes(c % 256, b)
<1>1. c % 256 \in Binder
  BY DEF Binder, NR_BINDERS
<1>2. r \in Binder /\ (c % 256 = 0 => r = b)
  BY <1>1, OrBytesFacts
<1>3. imm_data(c, b) = (c - (c % 256)) + r
  BY DEF imm_data
<1> HIDE DEF r
<1>4. QED
  BY <1>2, <1>3 DEF Binder, NR_BINDERS

\* A page is conveyed to the block and the place in it where a load of its offset
\* reads (ib_convey_page, maruswap_rdma_read).
THEOREM FlowAndReadAgree ==
    ASSUME NEW o \in PageNo
    PROVE  interpret_header(flow_header(o)) =
             [opcode |-> FLOW, nr_buffer |-> get_num_memblock(o), offset |-> send_offset(o)]
BY Widths DEF interpret_header, flow_header, get_num_memblock, send_offset, PageNo, OffsetSpan, FLOW

\* No two pages share a place.
THEOREM PlacesDiffer ==
    ASSUME NEW o \in PageNo, NEW p \in PageNo,
           get_num_memblock(o) = get_num_memblock(p), send_offset(o) = send_offset(p)
    PROVE  o = p
BY Widths DEF get_num_memblock, send_offset, PageNo

\* The block of a page has an entry in the tables of both ends exactly up to 128
\* blocks of swap.
THEOREM TablesReach ==
    ASSUME NEW o \in PageNo
    PROVE  get_num_memblock(o) < MAX_MEMBLOCK <=> o < MAX_MEMBLOCK * BlockPages
BY Widths DEF get_num_memblock, PageNo, MAX_MEMBLOCK

\* Whatever binder is written over its low byte, an OPEN header names the block
\* of its offset (ib_rpc_open_unlocked, __process_rdma_rpc_open).
THEOREM OpenNamesBlock ==
    ASSUME NEW o \in PageNo, NEW b \in Binder
    PROVE  /\ interpret_header(imm_data(open_opcode(o), b)).opcode = OPEN
           /\ interpret_header(imm_data(open_opcode(o), b)).nr_buffer = get_num_memblock(o)
<1> DEFINE h == imm_data(open_opcode(o), b)
<1>1. open_opcode(o) = OffsetSpan + o /\ open_opcode(o) \in Nat
  BY Widths DEF open_opcode, OPEN, PageNo
<1>2. h \in Nat
  BY <1>1, ImmDataFacts
<1>3. PICK r \in 0 .. 255 : h = (OffsetSpan + o) - (o % 256) + r
  <2>1. open_opcode(o) % 256 = o % 256
    BY <1>1, Widths DEF PageNo
  <2> DEFINE c == open_opcode(o)
  <2>2. h >= c - (c % 256) /\ h <= c - (c % 256) + 255
    BY <1>1, ImmDataFacts
  <2> HIDE DEF h, c
  <2>3. h >= OffsetSpan + o - (o % 256) /\ h <= OffsetSpan + o - (o % 256) + 255
    BY <1>1, <2>1, <2>2, Widths DEF PageNo, c
  <2>4. h - (OffsetSpan + o - (o % 256)) \in 0 .. 255
    BY <1>2, <2>3, Widths DEF PageNo
  <2>5. QED
    BY <1>2, <2>4, Widths DEF PageNo
<1> HIDE DEF h
<1>4. h \div OffsetSpan = 1 /\ h % OffsetSpan = o - (o % 256) + r
  BY <1>3, Widths DEF PageNo
<1>5. ((h % OffsetSpan) \div BlockPages) % 4096 = (o \div BlockPages) % 1024
  BY <1>4, Widths DEF PageNo
<1>6. QED
  BY <1>4, <1>5 DEF interpret_header, get_num_memblock, OPEN, h

\* The reply to a call finds its caller when the low byte of the opcode is free for
\* the binder: for commits, and for OPENs of offsets that are multiples of 256.
THEOREM ReplyFindsCaller ==
    ASSUME NEW op \in {commit_opcode} \cup {open_opcode(o) : o \in PageNo},
           op % 256 = 0, NEW b \in Binder
    PROVE  reply_binder(imm_data(op, b)) = b
<1>1. op \in Nat
  BY Widths DEF PageNo, commit_opcode, open_opcode, COMMIT, OPEN
<1>2. imm_data(op, b) = op + b
  BY <1>1, ImmDataFacts
<1>3. QED
  BY <1>1, <1>2 DEF reply_binder, Binder, NR_BINDERS

\* A qcommit waits for the number of pages its caller names, if the number fits
\* its 20 bits (ib_rpc_qcommit_unlocked, __process_rdma_rpc_commit).
THEOREM QcommitCounts ==
    ASSUME NEW n \in 0 .. 16 * Half - 1, NEW b \in Binder
    PROVE  qcommit_count(imm_data(qcommit_opcode(n), b)) = n
<1>1. qcommit_opcode(n) = 7 * OffsetSpan + n * 256 /\ qcommit_opcode(n) \in Nat
  BY Widths DEF qcommit_opcode, QCOMMIT
<1>2. qcommit_opcode(n) % 256 = 0
  BY <1>1, Widths
<1>3. imm_data(qcommit_opcode(n), b) = 7 * OffsetSpan + n * 256 + b
  BY <1>1, <1>2, ImmDataFacts
<1>4. b \in 0 .. 255
  BY DEF Binder, NR_BINDERS
<1>5. QED
  BY <1>3, <1>4, Widths DEF qcommit_count

\* Of the 4096 receives a server posts on its RPC connection, exactly the first 1088
\* lie in the region registered for them; the others reach past it
\* (alloc_rdma_memory_handler).
THEOREM RpcReceivesRegistered ==
    ASSUME NEW i \in Receives
    PROVE  rpc_buffer(i) \subseteq 0 .. RPC_BUFFER_SIZE - 1 <=> i < 1088
<1>1. i \in Nat
  BY DEF Receives
<1>2. /\ rpc_buffer(i) = (i * 64) .. (i * 64 + 63)
      /\ RPC_BUFFER_SIZE \in Nat /\ RPC_BUFFER_SIZE >= 64 * 1088 /\ RPC_BUFFER_SIZE <= 64 * 1088
  BY <1>1 DEF rpc_buffer, RPC_MAX_EACH_SIZE, RPC_BUFFER_SIZE, PAGE_SIZE
<1>3. ASSUME i < 1088
      PROVE  \A a \in (i * 64) .. (i * 64 + 63) : a \in 0 .. RPC_BUFFER_SIZE - 1
  BY <1>1, <1>2, <1>3
<1>4. ASSUME i >= 1088
      PROVE  i * 64 + 63 \in (i * 64) .. (i * 64 + 63) /\ i * 64 + 63 \notin 0 .. RPC_BUFFER_SIZE - 1
  BY <1>1, <1>2, <1>4
<1>5. QED
  BY <1>1, <1>2, <1>3, <1>4

\* The multicast receives lie in their region, each with a buffer of its own
\* (alloc_multicast_memory_handler).
THEOREM MulticastReceivesApart ==
    ASSUME NEW i \in Receives
    PROVE  /\ multicast_buffer(i) \subseteq 0 .. MULTICAST_BUFFER_SIZE - 1
           /\ \A j \in Receives : i # j => multicast_buffer(i) \cap multicast_buffer(j) = {}
<1>1. \A j \in Receives :
         /\ j \in Nat /\ j <= 4095
         /\ multicast_buffer(j) = (j * 4136) .. (j * 4136 + 4135)
  BY DEF multicast_buffer, Receives, MCM_MAX_RECV_WR, UD_EXTRA, PAGE_SIZE
<1>2. MULTICAST_BUFFER_SIZE \in Nat /\ MULTICAST_BUFFER_SIZE >= 4096 * 4136
  BY Widths DEF MULTICAST_BUFFER_SIZE, MULTICAST_NR_BUFFER, UD_EXTRA, PAGE_SIZE
<1>3. \A a \in (i * 4136) .. (i * 4136 + 4135) : a \in 0 .. MULTICAST_BUFFER_SIZE - 1
  BY <1>1, <1>2
<1>4. ASSUME NEW j \in Receives, i # j,
             NEW a \in (i * 4136) .. (i * 4136 + 4135), a \in (j * 4136) .. (j * 4136 + 4135)
      PROVE  FALSE
  BY <1>1, <1>4
<1>5. QED
  BY <1>1, <1>3, <1>4

----------------------------------------------------------------------------
(* The calls.                                                                 *)

(***************************************************************************)
(* What a call waits for is on the queue pair it polls, and nothing else   *)
(* is: only a queue pair in the error state, which is never polled again,  *)
(* keeps what failed calls left behind.                                    *)
(***************************************************************************)

\* The opcode of a call and the block a reply to it is about.
CallOpcode(c) == IF c.offset = None THEN commit_opcode ELSE open_opcode(c.offset)
CallBlock(c) == IF c.offset = None THEN None ELSE get_num_memblock(c.offset)
CallHeader == imm_data(call.opcode, binder)

Calls == [srv : Servers, opcode : Nat, offset : Offsets \cup {None}]
Headers == {imm_data(open_opcode(o), b) : o \in Offsets, b \in Binders}
             \cup {imm_data(commit_opcode, b) : b \in Binders}
Replies == [imm : Headers, block : Blocks \cup {None}]

\* The driver's side of a call in progress.
CallInv ==
    /\ pc # "idle" => call \in Calls /\ call.opcode = CallOpcode(call)
    /\ pc \in {"post", "send", "wait"} => binder \in Binders /\ flags[binder] \in {1, 2}
    /\ pc \in {"post", "send"} => flags[binder] = 1
    /\ pc = "wait" => /\ ~broken[call.srv]
                      /\ flags[binder] = 2 => private[binder] = CallBlock(call)

\* What is on a queue pair that works is the call's own request or reply.
Quiet(s) == requests[s] = <<>> /\ replies[s] = <<>>
Asked(s) == requests[s] = <<CallHeader>> /\ replies[s] = <<>>
Answered(s) ==
    requests[s] = <<>> /\ replies[s] = <<[imm |-> CallHeader, block |-> CallBlock(call)]>>

WireInv(s) ==
    \/ broken[s]
    \/ Quiet(s)
    \/ /\ pc \in {"send", "wait"} /\ call.srv = s /\ flags[binder] = 1
       /\ Asked(s) \/ Answered(s)

OnWire ==
    /\ requests \in [Servers -> Seq(Headers)]
    /\ replies \in [Servers -> Seq(Replies)]

RpcInv == RpcTypeOK /\ InfoNamesBlock /\ CallInv /\ OnWire /\ \A s \in Servers : WireInv(s)


----------------------------------------------------------------------------
(* Headers. *)

\* What is opened is a page of a block that has an entry, by a binder of a byte.
LEMMA Inputs ==
    Offsets \subseteq PageNo /\ None \notin Offsets /\ Binders \subseteq Binder
<1>1. MAX_MEMBLOCK * BlockPages <= OffsetSpan /\ MAX_MEMBLOCK * BlockPages \in Nat
      /\ OffsetSpan \in Nat
  BY Widths DEF MAX_MEMBLOCK
<1>2. Offsets \subseteq 0 .. MAX_MEMBLOCK * BlockPages - 1 /\ Binders \subseteq Binder
  BY RpcAssumption
<1> DEFINE top == MAX_MEMBLOCK * BlockPages
<1>3. top \in Nat /\ top <= OffsetSpan /\ Offsets \subseteq 0 .. top - 1
  BY <1>1, <1>2
<1> HIDE DEF top
<1>4. Offsets \subseteq PageNo /\ Offsets \subseteq Int
  BY <1>1, <1>3 DEF PageNo
<1>5. QED
  BY <1>2, <1>4, RpcAssumption, Zenon

\* Of a commit's header the server makes no OPEN.
LEMMA CommitIsNoOpen ==
    ASSUME NEW b \in Binder
    PROVE  /\ imm_data(commit_opcode, b) \in Nat
           /\ interpret_header(imm_data(commit_opcode, b)).opcode # OPEN
<1>1. commit_opcode = 3 * OffsetSpan /\ commit_opcode \in Nat /\ commit_opcode % 256 = 0
  BY Widths DEF commit_opcode, COMMIT
<1> DEFINE h == imm_data(commit_opcode, b)
<1>2. h \in Nat /\ h = 3 * OffsetSpan + b
  BY <1>1, ImmDataFacts
<1> HIDE DEF h
<1>3. b \in 0 .. 255
  BY DEF Binder, NR_BINDERS
<1>4. h \div OffsetSpan = 3
  BY <1>2, <1>3, Widths
<1>5. QED
  BY <1>2, <1>4 DEF interpret_header, OPEN, h

\* The block the server's answer to a header is about.
AnswerBlock(h) ==
    IF interpret_header(h).opcode = OPEN THEN interpret_header(h).nr_buffer ELSE None

\* An OPEN is answered with its block, whatever the binder did to its low byte.
LEMMA AnswersFit ==
    ASSUME NEW b \in Binders
    PROVE  /\ imm_data(commit_opcode, b) \in Headers /\ imm_data(commit_opcode, b) \in Nat
           /\ AnswerBlock(imm_data(commit_opcode, b)) = None
           /\ \A o \in Offsets :
                /\ imm_data(open_opcode(o), b) \in Headers /\ imm_data(open_opcode(o), b) \in Nat
                /\ AnswerBlock(imm_data(open_opcode(o), b)) = get_num_memblock(o)
<1>1. b \in Binder
  BY Inputs
<1>2. imm_data(commit_opcode, b) \in Nat /\ AnswerBlock(imm_data(commit_opcode, b)) = None
  BY <1>1, CommitIsNoOpen DEF AnswerBlock
<1>3. ASSUME NEW o \in Offsets
      PROVE  /\ imm_data(open_opcode(o), b) \in Nat
             /\ AnswerBlock(imm_data(open_opcode(o), b)) = get_num_memblock(o)
  <2>1. o \in PageNo
    BY Inputs
  <2>2. open_opcode(o) \in Nat
    BY <2>1, Widths DEF open_opcode, OPEN, PageNo
  <2>3. imm_data(open_opcode(o), b) \in Nat
    BY <1>1, <2>2, ImmDataFacts
  <2>4. /\ interpret_header(imm_data(open_opcode(o), b)).opcode = OPEN
        /\ interpret_header(imm_data(open_opcode(o), b)).nr_buffer = get_num_memblock(o)
    BY <1>1, <2>1, OpenNamesBlock
  <2>5. QED
    BY <2>3, <2>4 DEF AnswerBlock
<1>4. imm_data(commit_opcode, b) \in Headers
      /\ \A o \in Offsets : imm_data(open_opcode(o), b) \in Headers
  BY DEF Headers
<1>5. QED
  BY <1>2, <1>3, <1>4

\* Every header is a number, and answered with a block or without one.
LEMMA HeadersAnswered ==
    ASSUME NEW h \in Headers
    PROVE  h \in Nat /\ AnswerBlock(h) \in Blocks \cup {None}
<1>1. CASE \E o \in Offsets, b \in Binders : h = imm_data(open_opcode(o), b)
  <2>1. PICK o \in Offsets, b \in Binders : h = imm_data(open_opcode(o), b)
    BY <1>1
  <2>2. get_num_memblock(o) \in Blocks
    BY DEF Blocks
  <2>3. QED
    BY <2>1, <2>2, AnswersFit, Zenon
<1>2. CASE \E b \in Binders : h = imm_data(commit_opcode, b)
  BY <1>2, AnswersFit, Zenon
<1>3. QED
  BY <1>1, <1>2 DEF Headers

\* A call's header, and the answer to it.
LEMMA CallFits ==
    ASSUME NEW c \in Calls, c.opcode = CallOpcode(c), NEW b \in Binders
    PROVE  /\ imm_data(c.opcode, b) \in Headers
           /\ AnswerBlock(imm_data(c.opcode, b)) = CallBlock(c)
           /\ CallBlock(c) \in Blocks \cup {None}
<1>1. c.offset \in Offsets \cup {None} /\ None \notin Offsets
  BY Inputs DEF Calls
<1>2. CASE c.offset = None
  <2>1. c.opcode = commit_opcode /\ CallBlock(c) = None
    BY <1>2, Zenon DEF CallOpcode, CallBlock
  <2>2. /\ imm_data(c.opcode, b) \in Headers
        /\ AnswerBlock(imm_data(c.opcode, b)) = None
    BY <2>1, AnswersFit, Zenon
  <2>3. QED
    BY <2>1, <2>2
<1>3. CASE c.offset \in Offsets
  <2>1. c.opcode = open_opcode(c.offset) /\ CallBlock(c) = get_num_memblock(c.offset)
    BY <1>1, <1>3, Zenon DEF CallOpcode, CallBlock
  <2>2. get_num_memblock(c.offset) \in Blocks
    BY <1>3 DEF Blocks
  <2>3. QED
    BY <1>3, <2>1, <2>2, AnswersFit, Zenon
<1>4. QED
  BY <1>1, <1>2, <1>3

\* One entry of a function.
LEMMA EntryFacts ==
    ASSUME NEW S, NEW T, NEW f \in [S -> T], NEW a, NEW v \in T
    PROVE  /\ [f EXCEPT ![a] = v] \in [S -> T]
           /\ a \in S => [f EXCEPT ![a] = v][a] = v
           /\ \A x \in S : x # a => [f EXCEPT ![a] = v][x] = f[x]
OBVIOUS

\* Queues of one.
LEMMA QueueOfOne ==
    ASSUME NEW x
    PROVE  /\ Append(<<>>, x) = <<x>> /\ <<x>> # <<>>
           /\ Head(<<x>>) = x /\ Tail(<<x>>) = <<>>
BY SMT

\* What is taken from a queue and added to it.
LEMMA QueueFacts ==
    ASSUME NEW T, NEW q \in Seq(T)
    PROVE  /\ \A x \in T : Append(q, x) \in Seq(T)
           /\ q # <<>> => Head(q) \in T /\ Tail(q) \in Seq(T)
BY SMT


----------------------------------------------------------------------------
(* The steps. *)

LEMMA RpcInit == Init => RpcInv
<1> SUFFICES ASSUME Init PROVE RpcInv
  OBVIOUS
<1>1. /\ flags = [b \in Reachable |-> 0] /\ private = [b \in Reachable |-> None]
      /\ info = [s \in Servers |-> [m \in Blocks |-> None]]
      /\ pc = "idle" /\ call = None /\ binder = None
      /\ requests = [s \in Servers |-> <<>>] /\ replies = [s \in Servers |-> <<>>]
      /\ broken = [s \in Servers |-> FALSE] /\ calls = 0 /\ failures = 0
  BY Zenon DEF Init
<1>2. MaxCalls \in Nat
  BY RpcAssumption
<1>3. RpcTypeOK
  BY <1>1, <1>2 DEF RpcTypeOK
<1>4. InfoNamesBlock
  BY <1>1 DEF InfoNamesBlock
<1>5. CallInv
  BY <1>1 DEF CallInv
<1>6. OnWire
  BY <1>1 DEF OnWire
<1>7. \A s \in Servers : WireInv(s)
  BY <1>1, Zenon DEF WireInv, Quiet
<1>8. QED
  BY <1>3, <1>4, <1>5, <1>6, <1>7, Zenon DEF RpcInv

\* A call begins: no queue pair that works holds anything.
LEMMA BeginStep ==
    ASSUME RpcInv, NEW s \in Servers, NEW op, NEW o, Begin(s, op, o),
           [srv |-> s, opcode |-> op, offset |-> o] \in Calls,
           op = CallOpcode([srv |-> s, opcode |-> op, offset |-> o])
    PROVE  RpcInv'
<1>0. RpcTypeOK /\ InfoNamesBlock /\ CallInv /\ OnWire
  BY Zenon DEF RpcInv
<1> USE <1>0
<1> DEFINE c == [srv |-> s, opcode |-> op, offset |-> o]
<1>1. /\ pc = "idle" /\ calls < MaxCalls /\ calls' = calls + 1 /\ call' = c
      /\ pc' = "binder"
      /\ flags' = flags /\ private' = private /\ info' = info /\ binder' = binder
      /\ requests' = requests /\ replies' = replies /\ broken' = broken
      /\ failures' = failures
  BY Zenon DEF Begin, wireVars
<1>2. c \in Calls /\ c.opcode = op /\ op = CallOpcode(c)
  OBVIOUS
<1> HIDE DEF c
<1>3. RpcTypeOK'
  <2>1. calls' \in 0 .. MaxCalls
    BY <1>1, RpcAssumption DEF RpcTypeOK
  <2>2. call' \in Calls
    BY <1>1, <1>2
  <2>3. QED
    BY <1>1, <2>1, <2>2 DEF RpcTypeOK, Calls
<1>4. InfoNamesBlock'
  BY <1>1 DEF InfoNamesBlock
<1>5. CallInv'
  BY <1>1, <1>2 DEF CallInv, CallOpcode
<1>6. OnWire'
  BY <1>1 DEF OnWire
<1>7. ASSUME NEW t \in Servers PROVE WireInv(t)'
  <2>1. WireInv(t)
    BY Zenon DEF RpcInv
  <2>2. QED
    BY <1>1, <2>1 DEF WireInv, Quiet
<1>8. QED
  BY <1>3, <1>4, <1>5, <1>6, <1>7, Zenon DEF RpcInv

LEMMA BeginOpenStep ==
    ASSUME RpcInv, NEW s \in Servers, NEW o \in Offsets, BeginOpen(s, o)
    PROVE  RpcInv'
<1>1. o \in PageNo /\ None # o
  BY Inputs
<1>2. open_opcode(o) \in Nat
  BY <1>1, Widths DEF open_opcode, OPEN, PageNo
<1>3. QED
  BY <1>1, <1>2, BeginStep DEF BeginOpen, Calls, CallOpcode

LEMMA BeginCommitStep ==
    ASSUME RpcInv, NEW s \in Servers, BeginCommit(s)
    PROVE  RpcInv'
<1>1. commit_opcode \in Nat
  BY Widths DEF commit_opcode, COMMIT
<1>2. QED
  BY <1>1, BeginStep DEF BeginCommit, Calls, CallOpcode

LEMMA GetBinderStep ==
    ASSUME RpcInv, NEW b \in Binders, GetBinder(b)
    PROVE  RpcInv'
<1>0. RpcTypeOK /\ InfoNamesBlock /\ CallInv /\ OnWire
  BY Zenon DEF RpcInv
<1> USE <1>0
<1>1. /\ pc = "binder" /\ flags[b] = 0 /\ flags' = [flags EXCEPT ![b] = 1]
      /\ binder' = b /\ pc' = "post"
      /\ private' = private /\ info' = info /\ call' = call
      /\ requests' = requests /\ replies' = replies /\ broken' = broken
      /\ calls' = calls /\ failures' = failures
  BY Zenon DEF GetBinder, wireVars
<1>2. b \in Reachable
  BY DEF Reachable
<1>3. flags'[b] = 1
  BY <1>1, <1>2 DEF RpcTypeOK
<1>4. RpcTypeOK'
  <2>1. flags' \in [Reachable -> 0 .. 2]
    <3>1. flags \in [Reachable -> 0 .. 2] /\ flags' = [flags EXCEPT ![b] = 1]
      BY <1>1, Zenon DEF RpcTypeOK
    <3>2. 1 \in 0 .. 2
      OBVIOUS
    <3>3. QED
      BY <3>1, <3>2, EntryFacts, Zenon
  <2>2. /\ binder' \in Binders \cup {None} /\ pc' = "post"
        /\ private' = private /\ info' = info /\ call' = call
        /\ requests' = requests /\ replies' = replies /\ broken' = broken
        /\ calls' = calls /\ failures' = failures
    BY <1>1
  <2>3. RpcTypeOK
    OBVIOUS
  <2>4. QED
    BY <2>1, <2>2, <2>3, Zenon DEF RpcTypeOK
<1>5. InfoNamesBlock'
  BY <1>1 DEF InfoNamesBlock
<1>6. CallInv'
  BY <1>1, <1>3 DEF CallInv, CallOpcode
<1>7. OnWire'
  BY <1>1 DEF OnWire
<1>8. ASSUME NEW t \in Servers PROVE WireInv(t)'
  <2>1. WireInv(t)
    BY Zenon DEF RpcInv
  <2>2. QED
    BY <1>1, <2>1 DEF WireInv, Quiet
<1>9. QED
  BY <1>4, <1>5, <1>6, <1>7, <1>8, Zenon DEF RpcInv

\* The request goes onto a queue pair that is empty, or nowhere.
LEMMA PostRequestStep ==
    ASSUME RpcInv, PostRequest
    PROVE  RpcInv'
<1>0. RpcTypeOK /\ InfoNamesBlock /\ CallInv /\ OnWire
  BY Zenon DEF RpcInv
<1> USE <1>0
<1>1. /\ pc = "post" /\ pc' = "send"
      /\ requests' = IF broken[call.srv] THEN requests
                     ELSE [requests EXCEPT ![call.srv] = Append(requests[call.srv], CallHeader)]
      /\ flags' = flags /\ private' = private /\ info' = info /\ call' = call
      /\ binder' = binder /\ replies' = replies /\ broken' = broken
      /\ calls' = calls /\ failures' = failures
  BY Zenon DEF PostRequest, CallHeader
<1>2. /\ call \in Calls /\ call.opcode = CallOpcode(call) /\ call.srv \in Servers
      /\ binder \in Binders /\ flags[binder] = 1
  BY <1>1 DEF CallInv, Calls
<1>3. CallHeader \in Headers /\ CallHeader \in Nat
  BY <1>2, CallFits, HeadersAnswered, Zenon DEF CallHeader
<1>4. CallHeader' = CallHeader /\ CallBlock(call)' = CallBlock(call)
  BY <1>1, Zenon DEF CallHeader, CallBlock
<1>5. RpcTypeOK'
  <2>1. requests' \in [Servers -> Seq(Nat)]
    <3>1. requests[call.srv] \in Seq(Nat)
      BY <1>2 DEF RpcTypeOK
    <3>2. Append(requests[call.srv], CallHeader) \in Seq(Nat)
      BY <1>3, <3>1, QueueFacts, Zenon
    <3>3. QED
      BY <1>1, <3>2 DEF RpcTypeOK
  <2>2. QED
    BY <1>1, <2>1 DEF RpcTypeOK
<1>6. InfoNamesBlock'
  BY <1>1 DEF InfoNamesBlock
<1>7. CallInv'
  <2>1. CallOpcode(call)' = CallOpcode(call)
    BY <1>1, Zenon DEF CallOpcode
  <2>2. QED
    BY <1>1, <1>2, <2>1 DEF CallInv
<1>8. OnWire'
  <2>1. requests[call.srv] \in Seq(Headers)
    BY <1>2 DEF OnWire
  <2>2. Append(requests[call.srv], CallHeader) \in Seq(Headers)
    BY <1>3, <2>1, QueueFacts, Zenon
  <2>3. QED
    BY <1>1, <2>2 DEF OnWire
<1>9. ASSUME NEW t \in Servers PROVE WireInv(t)'
  <2>0. WireInv(t)
    BY Zenon DEF RpcInv
  <2>1. WireInv(t) /\ (broken[t] \/ Quiet(t))
    BY <1>1, <2>0 DEF WireInv
  <2>2. CASE broken[t]
    BY <1>1, <2>2 DEF WireInv
  <2>3. CASE ~broken[t] /\ t = call.srv
    <3>1. requests'[t] = <<CallHeader>> /\ replies'[t] = <<>>
      BY <1>1, <2>1, <2>3, QueueOfOne DEF Quiet, OnWire
    <3>2. QED
      BY <1>1, <1>2, <1>4, <2>3, <3>1 DEF WireInv, Asked
  <2>4. CASE ~broken[t] /\ t # call.srv
    <3>1. requests'[t] = requests[t]
      BY <1>1, <2>4 DEF OnWire
    <3>2. QED
      BY <1>1, <2>1, <2>4, <3>1 DEF WireInv, Quiet
  <2>5. QED
    BY <2>2, <2>3, <2>4
<1>10. QED
  BY <1>5, <1>6, <1>7, <1>8, <1>9, Zenon DEF RpcInv


LEMMA SendCompletesStep ==
    ASSUME RpcInv, SendCompletes
    PROVE  RpcInv'
<1>0. RpcTypeOK /\ InfoNamesBlock /\ CallInv /\ OnWire
  BY Zenon DEF RpcInv
<1>1. /\ pc = "send" /\ ~broken[call.srv] /\ pc' = "wait"
      /\ flags' = flags /\ private' = private /\ info' = info /\ call' = call
      /\ binder' = binder /\ requests' = requests /\ replies' = replies
      /\ broken' = broken /\ calls' = calls /\ failures' = failures
  BY Zenon DEF SendCompletes, wireVars
<1>2. RpcTypeOK'
  BY <1>0, <1>1 DEF RpcTypeOK
<1>3. InfoNamesBlock'
  BY <1>0, <1>1 DEF InfoNamesBlock
<1>4. CallInv'
  <2>1. CallOpcode(call)' = CallOpcode(call)
    BY <1>1, Zenon DEF CallOpcode
  <2>2. QED
    BY <1>0, <1>1, <2>1 DEF CallInv
<1>5. OnWire'
  BY <1>0, <1>1 DEF OnWire
<1>6. ASSUME NEW t \in Servers PROVE WireInv(t)'
  <2>1. WireInv(t)
    BY Zenon DEF RpcInv
  <2>2. CallHeader' = CallHeader /\ CallBlock(call)' = CallBlock(call)
    BY <1>1, Zenon DEF CallHeader, CallBlock
  <2>3. QED
    BY <1>1, <2>1, <2>2 DEF WireInv, Quiet, Asked, Answered
<1>7. QED
  BY <1>2, <1>3, <1>4, <1>5, <1>6, Zenon DEF RpcInv

\* A failed call leaves the queue pair broken, or has put nothing on it.
LEMMA FailStep ==
    ASSUME RpcInv, Fail, pc # "idle",
           \/ pc = "post" /\ broken' = broken
           \/ broken' = [broken EXCEPT ![call.srv] = TRUE]
    PROVE  RpcInv'
<1>0. RpcTypeOK /\ InfoNamesBlock /\ CallInv /\ OnWire
  BY Zenon DEF RpcInv
<1>1. /\ failures' = failures + 1 /\ pc' = "idle" /\ call' = None /\ binder' = None
      /\ flags' = flags /\ private' = private /\ info' = info
      /\ requests' = requests /\ replies' = replies /\ calls' = calls
  BY Zenon DEF Fail
<1>2. broken' \in [Servers -> BOOLEAN]
  <2>1. broken \in [Servers -> BOOLEAN] /\ TRUE \in BOOLEAN
    BY <1>0, Zenon DEF RpcTypeOK
  <2>2. [broken EXCEPT ![call.srv] = TRUE] \in [Servers -> BOOLEAN]
    BY <2>1, EntryFacts, Zenon
  <2>3. QED
    BY <2>1, <2>2, Zenon
<1>3. RpcTypeOK'
  <2>1. failures' \in Nat
    BY <1>0, <1>1 DEF RpcTypeOK
  <2>2. QED
    BY <1>0, <1>1, <1>2, <2>1 DEF RpcTypeOK
<1>4. InfoNamesBlock'
  BY <1>0, <1>1 DEF InfoNamesBlock
<1>5. CallInv'
  BY <1>1 DEF CallInv
<1>6. OnWire'
  BY <1>0, <1>1 DEF OnWire
<1>7. ASSUME NEW t \in Servers PROVE WireInv(t)'
  <2>1. WireInv(t)
    BY Zenon DEF RpcInv
  <2>2. broken \in [Servers -> BOOLEAN]
    BY <1>0, Zenon DEF RpcTypeOK
  <2>3. broken'[t] \/ (Quiet(t) /\ ~broken'[t]) \/ broken'[t] = TRUE
    <3>1. CASE pc = "post" /\ broken' = broken
      BY <2>1, <3>1 DEF WireInv
    <3>2. CASE broken' = [broken EXCEPT ![call.srv] = TRUE]
      <4>1. CASE t = call.srv
        BY <2>2, <3>2, <4>1
      <4>2. CASE t # call.srv
        BY <2>1, <2>2, <3>2, <4>2 DEF WireInv
      <4>3. QED
        BY <4>1, <4>2
    <3>3. QED
      BY <3>1, <3>2
  <2>4. QED
    BY <1>1, <2>3 DEF WireInv, Quiet
<1>8. QED
  BY <1>3, <1>4, <1>5, <1>6, <1>7, Zenon DEF RpcInv

LEMMA FailureStep ==
    ASSUME RpcInv, PostFails \/ SendFails \/ RecvFails
    PROVE  RpcInv'
BY FailStep, Zenon DEF PostFails, SendFails, RecvFails

\* The reply polled is the one to the call, and marks a binder: the call's own, or,
\* when the opcode takes up the low byte, another.
LEMMA PollReplyStep ==
    ASSUME RpcInv, PollReply
    PROVE  RpcInv'
<1>0. RpcTypeOK /\ InfoNamesBlock /\ CallInv /\ OnWire
  BY Zenon DEF RpcInv
<1> DEFINE s == call.srv
           bi == reply_binder(CallHeader)
<1>1. pc = "wait" /\ flags[binder] # 2 /\ replies[s] # <<>>
  BY Zenon DEF PollReply
<1>2. /\ call \in Calls /\ s \in Servers /\ binder \in Binders /\ ~broken[s]
      /\ call.opcode = CallOpcode(call)
  BY <1>0, <1>1 DEF CallInv, Calls
<1>3. requests[s] = <<>> /\ replies[s] = <<[imm |-> CallHeader, block |-> CallBlock(call)]>>
  <2>1. WireInv(s)
    BY <1>2, Zenon DEF RpcInv
  <2>2. QED
    BY <1>1, <1>2, <2>1, Zenon DEF WireInv, Quiet, Asked, Answered
<1>4. Head(replies[s]) = [imm |-> CallHeader, block |-> CallBlock(call)]
      /\ Tail(replies[s]) = <<>>
  BY <1>3, QueueOfOne, Zenon
<1>5. Head(replies[s]).imm = CallHeader /\ Head(replies[s]).block = CallBlock(call)
  BY <1>4
<1>6. /\ private' = [private EXCEPT ![bi] = CallBlock(call)]
      /\ flags' = [flags EXCEPT ![bi] = 2]
      /\ replies' = [replies EXCEPT ![s] = <<>>]
      /\ info' = info /\ pc' = pc /\ call' = call /\ binder' = binder
      /\ requests' = requests /\ broken' = broken /\ calls' = calls /\ failures' = failures
  BY <1>4, <1>5, Zenon DEF PollReply
<1>7. CallBlock(call) \in Blocks \cup {None}
  BY <1>2, CallFits
<1>8. binder \in Reachable
  BY <1>2 DEF Reachable
<1> HIDE DEF s, bi
<1>9. /\ flags \in [Reachable -> 0 .. 2] /\ private \in [Reachable -> Blocks \cup {None}]
      /\ replies \in [Servers -> Seq([imm : Nat, block : Blocks \cup {None}])]
      /\ replies \in [Servers -> Seq(Replies)]
  BY <1>0, Zenon DEF RpcTypeOK, OnWire
<1>10. /\ <<>> \in Seq([imm : Nat, block : Blocks \cup {None}])
       /\ <<>> \in Seq(Replies)
  OBVIOUS
<1>11. /\ flags' \in [Reachable -> 0 .. 2] /\ private' \in [Reachable -> Blocks \cup {None}]
  <2>1. 2 \in 0 .. 2
    OBVIOUS
  <2>2. QED
    BY <1>6, <1>7, <1>9, <2>1, EntryFacts, Zenon
<1>12. /\ replies' \in [Servers -> Seq([imm : Nat, block : Blocks \cup {None}])]
       /\ replies' \in [Servers -> Seq(Replies)]
  <2>1. [replies EXCEPT ![s] = <<>>]
          \in [Servers -> Seq([imm : Nat, block : Blocks \cup {None}])]
    BY <1>9, <1>10, EntryFacts, Zenon
  <2>2. [replies EXCEPT ![s] = <<>>] \in [Servers -> Seq(Replies)]
    BY <1>9, <1>10, EntryFacts, Zenon
  <2>3. QED
    BY <1>6, <2>1, <2>2, Zenon
<1>13. RpcTypeOK'
  BY <1>0, <1>6, <1>11, <1>12, Zenon DEF RpcTypeOK
<1>14. InfoNamesBlock'
  BY <1>0, <1>6 DEF InfoNamesBlock
<1>15. OnWire'
  BY <1>0, <1>6, <1>12, Zenon DEF OnWire
<1>16. CallInv'
  <2>1. CallOpcode(call)' = CallOpcode(call) /\ CallBlock(call)' = CallBlock(call)
    BY <1>6, Zenon DEF CallOpcode, CallBlock
  <2>2. flags[binder] = 1
    BY <1>0, <1>1 DEF CallInv
  <2>3. CASE bi = binder
    <3>1. flags'[binder] = 2 /\ private'[binder] = CallBlock(call)
      BY <1>6, <1>8, <1>9, <2>3
    <3>2. QED
      BY <1>0, <1>1, <1>2, <1>6, <2>1, <3>1 DEF CallInv, s
  <2>4. CASE bi # binder
    <3>1. flags'[binder] = 1
      BY <1>6, <1>8, <1>9, <2>2, <2>4
    <3>2. QED
      BY <1>0, <1>1, <1>2, <1>6, <2>1, <3>1 DEF CallInv, s
  <2>5. QED
    BY <2>3, <2>4
<1>17. ASSUME NEW t \in Servers PROVE WireInv(t)'
  <2>1. CASE t = s
    <3>1. replies'[t] = <<>>
      BY <1>2, <1>6, <1>9, <2>1
    <3>2. QED
      BY <1>3, <1>6, <2>1, <3>1 DEF WireInv, Quiet
  <2>2. CASE t # s
    <3>1. WireInv(t)
      BY Zenon DEF RpcInv
    <3>2. broken[t] \/ Quiet(t)
      BY <2>2, <3>1 DEF WireInv, s
    <3>3. replies'[t] = replies[t]
      BY <1>6, <1>9, <2>2
    <3>4. QED
      BY <1>6, <3>2, <3>3 DEF WireInv, Quiet
  <2>3. QED
    BY <2>1, <2>2
<1>18. QED
  BY <1>13, <1>14, <1>15, <1>16, <1>17, Zenon DEF RpcInv


\* What a call brings home is the block it opened.
LEMMA ReturnStep ==
    ASSUME RpcInv, Return
    PROVE  RpcInv'
<1>0. RpcTypeOK /\ InfoNamesBlock /\ CallInv /\ OnWire
  BY Zenon DEF RpcInv
<1> DEFINE s == call.srv
           m == get_num_memblock(call.offset)
<1>1. /\ pc = "wait" /\ flags[binder] = 2
      /\ info' = IF call.offset = None THEN info
                 ELSE [info EXCEPT ![s] = [info[s] EXCEPT ![m] = private[binder]]]
      /\ flags' = [flags EXCEPT ![binder] = 0]
      /\ private' = [private EXCEPT ![binder] = None]
      /\ pc' = "idle" /\ call' = None /\ binder' = None
      /\ requests' = requests /\ replies' = replies /\ broken' = broken
      /\ calls' = calls /\ failures' = failures
  BY Zenon DEF Return, put_binder, wireVars
<1>2. /\ call \in Calls /\ s \in Servers /\ binder \in Binders
      /\ private[binder] = CallBlock(call)
  BY <1>0, <1>1 DEF CallInv, Calls
<1>3. call.offset # None => private[binder] = m /\ m \in Blocks
  <2>1. call.offset # None => call.offset \in Offsets
    BY <1>2 DEF Calls
  <2>2. call.offset # None => m \in Blocks
    BY <2>1 DEF Blocks
  <2>3. QED
    BY <1>2, <2>2, Zenon DEF CallBlock
<1> HIDE DEF s, m
<1>4. info \in [Servers -> [Blocks -> Blocks \cup {None}]]
      /\ flags \in [Reachable -> 0 .. 2] /\ private \in [Reachable -> Blocks \cup {None}]
  BY <1>0, Zenon DEF RpcTypeOK
<1>5. info' \in [Servers -> [Blocks -> Blocks \cup {None}]] /\ InfoNamesBlock'
  <2>1. CASE call.offset = None
    BY <1>0, <1>1, <1>4, <2>1 DEF InfoNamesBlock
  <2>2. CASE call.offset # None
    <3>1. info' = [info EXCEPT ![s] = [info[s] EXCEPT ![m] = m]] /\ m \in Blocks
      BY <1>1, <1>3, <2>2, Zenon
    <3>2. [info[s] EXCEPT ![m] = m] \in [Blocks -> Blocks \cup {None}]
      <4>1. info[s] \in [Blocks -> Blocks \cup {None}]
        BY <1>2, <1>4
      <4>2. m \in Blocks \cup {None}
        BY <3>1
      <4>3. QED
        BY <4>1, <4>2, EntryFacts, Zenon
    <3>3. info' \in [Servers -> [Blocks -> Blocks \cup {None}]]
      BY <1>4, <3>1, <3>2, EntryFacts, Zenon
    <3>4. ASSUME NEW t \in Servers, NEW k \in Blocks PROVE info'[t][k] \in {k, None}
      <4>1. info[t][k] \in {k, None}
        BY <1>0 DEF InfoNamesBlock
      <4>2. QED
        BY <1>2, <1>4, <3>1, <4>1
    <3>5. QED
      BY <3>3, <3>4 DEF InfoNamesBlock
  <2>3. QED
    BY <2>1, <2>2
<1>6. flags' \in [Reachable -> 0 .. 2] /\ private' \in [Reachable -> Blocks \cup {None}]
  <2>1. 0 \in 0 .. 2 /\ None \in Blocks \cup {None}
    OBVIOUS
  <2>2. QED
    BY <1>1, <1>4, <2>1, EntryFacts, Zenon
<1>7. RpcTypeOK'
  <2>1. pc' \in {"idle", "binder", "post", "send", "wait"}
        /\ call' \in [srv : Servers, opcode : Nat, offset : Offsets \cup {None}] \cup {None}
        /\ binder' \in Binders \cup {None}
    BY <1>1
  <2>2. QED
    BY <1>0, <1>1, <1>5, <1>6, <2>1, Zenon DEF RpcTypeOK
<1>8. CallInv'
  BY <1>1 DEF CallInv
<1>9. OnWire'
  BY <1>0, <1>1 DEF OnWire
<1>10. ASSUME NEW t \in Servers PROVE WireInv(t)'
  <2>1. WireInv(t)
    BY Zenon DEF RpcInv
  <2>2. broken[t] \/ Quiet(t)
    BY <1>1, <2>1 DEF WireInv
  <2>3. QED
    BY <1>1, <2>2 DEF WireInv, Quiet
<1>11. QED
  BY <1>5, <1>7, <1>8, <1>9, <1>10, Zenon DEF RpcInv

\* A server turns the request into the reply to it.
LEMMA ServeStep ==
    ASSUME RpcInv, NEW s \in Servers, Serve(s)
    PROVE  RpcInv'
<1>0. RpcTypeOK /\ InfoNamesBlock /\ CallInv /\ OnWire
  BY Zenon DEF RpcInv
<1> DEFINE h == Head(requests[s])
           reply == [imm |-> h, block |-> AnswerBlock(h)]
<1>1. /\ requests[s] # <<>>
      /\ replies' = [replies EXCEPT ![s] = Append(replies[s], reply)]
      /\ requests' = [requests EXCEPT ![s] = Tail(requests[s])]
      /\ flags' = flags /\ private' = private /\ info' = info /\ pc' = pc
      /\ call' = call /\ binder' = binder /\ broken' = broken
      /\ calls' = calls /\ failures' = failures
  BY Zenon DEF Serve, AnswerBlock
<1>2. /\ requests \in [Servers -> Seq(Nat)] /\ requests \in [Servers -> Seq(Headers)]
      /\ replies \in [Servers -> Seq([imm : Nat, block : Blocks \cup {None}])]
      /\ replies \in [Servers -> Seq(Replies)]
  BY <1>0, Zenon DEF RpcTypeOK, OnWire
<1>3. /\ requests[s] \in Seq(Nat) /\ requests[s] \in Seq(Headers)
      /\ replies[s] \in Seq([imm : Nat, block : Blocks \cup {None}])
      /\ replies[s] \in Seq(Replies)
  BY <1>2, Zenon
<1>4. h \in Headers /\ Tail(requests[s]) \in Seq(Headers)
  BY <1>1, <1>3, QueueFacts, Zenon
<1>5. Tail(requests[s]) \in Seq(Nat)
  BY <1>1, <1>3, QueueFacts, Zenon
<1>6. h \in Nat /\ AnswerBlock(h) \in Blocks \cup {None}
  BY <1>4, HeadersAnswered
<1> HIDE DEF h
<1>7. reply \in [imm : Nat, block : Blocks \cup {None}] /\ reply \in Replies
  BY <1>4, <1>6 DEF Replies
<1> HIDE DEF reply
<1>8. /\ requests' \in [Servers -> Seq(Nat)] /\ requests' \in [Servers -> Seq(Headers)]
  BY <1>1, <1>2, <1>4, <1>5, EntryFacts, Zenon
<1>9. /\ replies' \in [Servers -> Seq([imm : Nat, block : Blocks \cup {None}])]
      /\ replies' \in [Servers -> Seq(Replies)]
  <2>1. /\ Append(replies[s], reply) \in Seq([imm : Nat, block : Blocks \cup {None}])
        /\ Append(replies[s], reply) \in Seq(Replies)
    BY <1>3, <1>7, QueueFacts, Zenon
  <2>2. QED
    BY <1>1, <1>2, <2>1, EntryFacts, Zenon
<1>10. RpcTypeOK'
  BY <1>0, <1>1, <1>8, <1>9, Zenon DEF RpcTypeOK
<1>11. InfoNamesBlock'
  BY <1>0, <1>1 DEF InfoNamesBlock
<1>12. OnWire'
  BY <1>8, <1>9, Zenon DEF OnWire
<1>13. CallInv'
  <2>1. CallOpcode(call)' = CallOpcode(call) /\ CallBlock(call)' = CallBlock(call)
    BY <1>1, Zenon DEF CallOpcode, CallBlock
  <2>2. QED
    BY <1>0, <1>1, <2>1 DEF CallInv
<1>14. ASSUME NEW t \in Servers PROVE WireInv(t)'
  <2>1. WireInv(t)
    BY Zenon DEF RpcInv
  <2>2. CallHeader' = CallHeader /\ CallBlock(call)' = CallBlock(call)
    BY <1>1, Zenon DEF CallHeader, CallBlock
  <2>3. CASE broken[t]
    BY <1>1, <2>3 DEF WireInv
  <2>4. CASE ~broken[t] /\ t # s
    <3>1. requests'[t] = requests[t] /\ replies'[t] = replies[t]
      BY <1>1, <1>2, <2>4
    <3>2. QED
      BY <1>1, <2>1, <2>2, <3>1 DEF WireInv, Quiet, Asked, Answered
  <2>5. CASE ~broken[t] /\ t = s
    <3>1. /\ pc \in {"send", "wait"} /\ call.srv = s /\ flags[binder] = 1
          /\ requests[s] = <<CallHeader>> /\ replies[s] = <<>>
      BY <1>1, <2>1, <2>5, Zenon DEF WireInv, Quiet, Asked, Answered
    <3>2. h = CallHeader /\ Tail(requests[s]) = <<>>
      BY <3>1, QueueOfOne, Zenon DEF h
    <3>3. call \in Calls /\ call.opcode = CallOpcode(call) /\ binder \in Binders
      BY <1>0, <3>1 DEF CallInv
    <3>4. reply = [imm |-> CallHeader, block |-> CallBlock(call)]
      BY <3>2, <3>3, CallFits, Zenon DEF reply, CallHeader
    <3>5. Append(replies[s], reply) = <<reply>>
      BY <3>1, QueueOfOne, Zenon
    <3>6. requests'[s] = <<>> /\ replies'[s] = <<reply>>
      BY <1>1, <1>2, <3>2, <3>5
    <3>7. QED
      BY <1>1, <2>2, <2>5, <3>1, <3>4, <3>6, Zenon DEF WireInv, Answered
  <2>6. QED
    BY <2>3, <2>4, <2>5
<1>15. QED
  BY <1>10, <1>11, <1>12, <1>13, <1>14, Zenon DEF RpcInv

LEMMA RpcStutter == ASSUME RpcInv, UNCHANGED vars PROVE RpcInv'
<1>1. /\ flags' = flags /\ private' = private /\ info' = info /\ pc' = pc
      /\ call' = call /\ binder' = binder /\ requests' = requests /\ replies' = replies
      /\ broken' = broken /\ calls' = calls /\ failures' = failures
  BY Zenon DEF vars, wireVars
<1>2. /\ RpcTypeOK' /\ InfoNamesBlock' /\ CallInv' /\ OnWire'
  BY <1>1, Zenon
       DEF RpcInv, RpcTypeOK, InfoNamesBlock, CallInv, OnWire, CallOpcode, CallBlock
<1>3. ASSUME NEW t \in Servers PROVE WireInv(t)'
  <2>1. WireInv(t)
    BY Zenon DEF RpcInv
  <2>2. QED
    BY <1>1, <2>1, Zenon DEF WireInv, Quiet, Asked, Answered, CallHeader, CallBlock
<1>4. QED
  BY <1>2, <1>3, Zenon DEF RpcInv

LEMMA RpcStep == RpcInv /\ [Next]_vars => RpcInv'
<1> SUFFICES ASSUME RpcInv, [Next]_vars PROVE RpcInv'
  OBVIOUS
<1>1. CASE UNCHANGED vars
  BY <1>1, RpcStutter, Zenon
<1>2. ASSUME NEW s \in Servers, BeginCommit(s) \/ (\E o \in Offsets : BeginOpen(s, o)) \/ Serve(s)
      PROVE  RpcInv'
  BY <1>2, BeginCommitStep, BeginOpenStep, ServeStep, Zenon
<1>3. CASE CallStep
  BY <1>3, GetBinderStep, PostRequestStep, FailureStep, SendCompletesStep, PollReplyStep,
     ReturnStep, Zenon DEF CallStep
<1>4. CASE Done
  BY <1>4, RpcStutter, Zenon DEF Done
<1>5. QED
  BY <1>1, <1>2, <1>3, <1>4, Zenon DEF Next

----------------------------------------------------------------------------
(* What holds of every behaviour. *)

\* The inductive invariant.
THEOREM RpcInvariant == Spec => []RpcInv
<1>1. QED
  BY RpcInit, RpcStep, PTL DEF Spec

\* Every variable holds a value of its type.
THEOREM RpcTypeCorrect == Spec => []RpcTypeOK
<1>1. RpcInv => RpcTypeOK
  BY Zenon DEF RpcInv
<1>2. QED
  BY <1>1, RpcInvariant, PTL

\* An rkey is of the block it is kept for, whatever fails and whatever the pages
\* calls are made for: __ib_rpc takes no other call's reply for its own.
THEOREM RkeysNameTheirBlock == Spec => []InfoNamesBlock
<1>1. RpcInv => InfoNamesBlock
  BY Zenon DEF RpcInv
<1>2. QED
  BY <1>1, RpcInvariant, PTL


----------------------------------------------------------------------------
(* The binders.  The driver opens the block of whatever page it loads first    *)
(* (maruswap_rdma_read), and its binder is or'd into the low byte of the page  *)
(* number: ReplyCarriesBinder is false of those calls (Rpc_pages.cfg).  What   *)
(* follows is said of every call, whatever page it is made for.                *)

\* What the opcode of a call has in the byte the binder goes to.
LowByte(c) == IF c.offset = None THEN 0 ELSE c.offset % 256

LEMMA LowByteIsByte == ASSUME NEW c \in Calls PROVE LowByte(c) \in Binder
<1>1. c.offset \in Offsets \cup {None} /\ Offsets \subseteq PageNo
  BY Inputs DEF Calls
<1>2. \A o \in PageNo : o % 256 \in Binder
  BY Widths DEF PageNo, Binder, NR_BINDERS
<1>3. QED
  BY <1>1, <1>2 DEF LowByte, Binder, NR_BINDERS

LEMMA HeaderNames ==
    ASSUME NEW c \in Calls, c.opcode = CallOpcode(c), NEW b \in Binders
    PROVE  reply_binder(imm_data(c.opcode, b)) = OrBytes(LowByte(c), b)
<1>1. b \in Binder /\ Offsets \subseteq PageNo
  BY Inputs
<1>2. c.offset \in Offsets \cup {None}
  BY DEF Calls
<1>3. c.opcode \in Nat /\ c.opcode % 256 = LowByte(c)
  <2>1. CASE c.offset = None
    BY <2>1, Widths DEF CallOpcode, LowByte, commit_opcode, COMMIT
  <2>2. CASE c.offset # None
    <3>1. c.offset \in PageNo
      BY <1>1, <1>2, <2>2
    <3>2. c.opcode = open_opcode(c.offset) /\ LowByte(c) = c.offset % 256
      BY <2>2 DEF CallOpcode, LowByte
    <3>3. QED
      BY <3>1, <3>2, Widths DEF open_opcode, OPEN, PageNo
  <2>3. QED
    BY <2>1, <2>2
<1> DEFINE r == OrBytes(LowByte(c), b)
<1>4. r \in Binder
  BY <1>1, LowByteIsByte, OrBytesFacts
<1>5. imm_data(c.opcode, b) = (c.opcode - (c.opcode % 256)) + r
  BY <1>3 DEF imm_data
<1> HIDE DEF r
<1>6. reply_binder(imm_data(c.opcode, b)) = r
  BY <1>3, <1>4, <1>5 DEF reply_binder, Binder, NR_BINDERS
<1>7. QED
  BY <1>6 DEF r

\* A reply names the binder of the call that waits for it or'd with the low byte of
\* the page the call was made for.
ReplyNamesCall ==
    pc = "wait" =>
        \A i \in DOMAIN replies[call.srv] :
            reply_binder(replies[call.srv][i].imm) = OrBytes(LowByte(call), binder)

LEMMA RpcInvNames == ASSUME RpcInv PROVE ReplyNamesCall
<1> SUFFICES ASSUME pc = "wait", NEW i \in DOMAIN replies[call.srv]
             PROVE  reply_binder(replies[call.srv][i].imm) = OrBytes(LowByte(call), binder)
  BY DEF ReplyNamesCall
<1>1. /\ call \in Calls /\ call.opcode = CallOpcode(call) /\ binder \in Binders
      /\ ~broken[call.srv]
  BY Zenon DEF RpcInv, CallInv
<1>2. call.srv \in Servers
  BY <1>1 DEF Calls
<1>3. WireInv(call.srv)
  BY <1>2, Zenon DEF RpcInv
<1>4. \/ replies[call.srv] = <<>>
      \/ replies[call.srv] = <<[imm |-> CallHeader, block |-> CallBlock(call)]>>
  BY <1>1, <1>3, Zenon DEF WireInv, Quiet, Asked, Answered
<1>5. replies[call.srv][i].imm = CallHeader
  BY <1>4
<1>6. QED
  BY <1>1, <1>5, HeaderNames DEF CallHeader

\* Whatever the driver calls, the reply it waits for names binder | low byte
\* (__ib_rpc, rpc.c's echo of the immediate value).
THEOREM RepliesNameCall == Spec => []ReplyNamesCall
<1>1. QED
  BY RpcInvNames, RpcInvariant, PTL

\* So the reply to a COMMIT, and to an OPEN for a page whose number ends in eight
\* zero bits, names the call that waits for it, whatever calls came before.
THEOREM RepliesCarryBinder == Spec => [](LowByte(call) = 0 => ReplyCarriesBinder)
<1>1. ASSUME RpcInv, LowByte(call) = 0 PROVE ReplyCarriesBinder
  <2> SUFFICES ASSUME pc = "wait" PROVE ReplyCarriesBinder
    BY DEF ReplyCarriesBinder
  <2>1. binder \in Binder /\ 0 \in Binder
    <3>1. binder \in Binders
      BY <1>1, Zenon DEF RpcInv, CallInv
    <3>2. 0 \in Binder
      BY DEF Binder, NR_BINDERS
    <3>3. QED
      BY <3>1, <3>2, Inputs
  <2>2. OrBytes(0, binder) = binder
    BY <2>1, OrBytesFacts
  <2>3. QED
    BY <1>1, <2>2, RpcInvNames DEF ReplyNamesCall, ReplyCarriesBinder
<1>2. QED
  BY <1>1, RpcInvariant, PTL

Held == {b \in Reachable : flags[b] # 0}
Holding == pc \in {"post", "send", "wait"}

LEMMA HeldFinite == IsFiniteSet(Held)
<1>1. IsFiniteSet(Binder)
  <2>1. 0 \in Int /\ NR_BINDERS - 1 \in Int
    BY DEF NR_BINDERS
  <2>2. QED
    BY <2>1, FS_Interval, Zenon DEF Binder
<1>2. Reachable \subseteq Binder
  <2>1. \A o \in Offsets : o % 256 \in Binder
    BY Inputs, Widths DEF PageNo, Binder, NR_BINDERS
  <2>2. \A b \in Binders, o \in Offsets : OrBytes(b, o % 256) \in Binder
    BY <2>1, Inputs, OrBytesFacts
  <2>3. QED
    BY <2>2, Inputs DEF Reachable
<1>3. Held \subseteq Binder
  BY <1>2 DEF Held
<1>4. QED
  BY <1>1, <1>3, FS_Subset

\* The reply to the call in progress has marked another binder.
Astray ==
    /\ pc = "wait" /\ flags[binder] = 1
    /\ requests[call.srv] = <<>> /\ replies[call.srv] = <<>>

\* A call that returns leaves no binder behind; one that fails leaves its own, and
\* the one its reply marked at most.
BindersBounded ==
    /\ failures + (IF Holding THEN 1 ELSE 0) <= Cardinality(Held)
    /\ Cardinality(Held) <= 2 * failures + (IF Astray THEN 2 ELSE IF Holding THEN 1 ELSE 0)

LEMMA HeldIsNat == IsFiniteSet(Held) /\ Cardinality(Held) \in Nat
BY HeldFinite, FS_CardinalityType

\* A step that takes no binder and gives none back.
LEMMA HeldStays ==
    ASSUME BindersBounded, failures \in Nat, Held' = Held, failures' = failures,
           Holding' <=> Holding, Astray => Astray'
    PROVE  BindersBounded'
<1>1. Cardinality(Held) \in Nat /\ (Astray => Holding)
  BY HeldIsNat DEF Astray, Holding
<1>2. QED
  BY <1>1 DEF BindersBounded

LEMMA BindersStep ==
    ASSUME RpcInv, BindersBounded, [Next]_vars
    PROVE  BindersBounded'
<1>0. /\ flags \in [Reachable -> 0 .. 2] /\ failures \in Nat /\ CallInv
      /\ Binders \subseteq Reachable
  <2>1. flags \in [Reachable -> 0 .. 2] /\ failures \in Nat /\ CallInv
    BY Zenon DEF RpcInv, RpcTypeOK
  <2>2. Binders \subseteq Reachable
    BY DEF Reachable
  <2>3. QED
    BY <2>1, <2>2, Zenon
<1>1. IsFiniteSet(Held) /\ Cardinality(Held) \in Nat
  BY HeldIsNat
<1>2. ASSUME NEW b \in Binders, GetBinder(b) PROVE BindersBounded'
  <2>1. /\ pc = "binder" /\ pc' = "post" /\ failures' = failures
        /\ flags[b] = 0 /\ flags' = [flags EXCEPT ![b] = 1] /\ b \in Reachable
    BY <1>0, <1>2, Zenon DEF GetBinder
  <2>2. Held' = Held \cup {b} /\ b \notin Held
    BY <1>0, <2>1 DEF Held
  <2>3. Cardinality(Held') = Cardinality(Held) + 1
    BY <1>1, <2>2, FS_AddElement
  <2>4. ~Holding /\ ~Astray /\ Holding' /\ ~Astray'
    BY <2>1 DEF Holding, Astray
  <2>5. QED
    BY <1>0, <1>1, <2>1, <2>3, <2>4 DEF BindersBounded
<1>3. CASE Return
  <2>1. /\ pc = "wait" /\ pc' = "idle" /\ failures' = failures
        /\ flags[binder] = 2 /\ flags' = [flags EXCEPT ![binder] = 0]
    BY <1>3, Zenon DEF Return, put_binder, wireVars
  <2>2. binder \in Reachable
    BY <1>0, <2>1 DEF CallInv
  <2>3. Held' = Held \ {binder} /\ binder \in Held
    BY <1>0, <2>1, <2>2 DEF Held
  <2>4. Cardinality(Held') = Cardinality(Held) - 1
    BY <1>1, <2>3, FS_RemoveElement
  <2>5. Holding /\ ~Astray /\ ~Holding' /\ ~Astray'
    BY <2>1 DEF Holding, Astray
  <2>6. QED
    BY <1>0, <1>1, <2>1, <2>4, <2>5 DEF BindersBounded
<1>4. CASE PollReply
  <2> DEFINE bi == reply_binder(Head(replies[call.srv]).imm)
  <2>1. /\ pc = "wait" /\ pc' = pc /\ failures' = failures /\ replies[call.srv] # <<>>
        /\ call' = call /\ binder' = binder /\ requests' = requests /\ flags[binder] # 2
        /\ flags' = [flags EXCEPT ![bi] = 2]
        /\ replies' = [replies EXCEPT ![call.srv] = Tail(@)]
    BY <1>4 DEF PollReply
  <2>2. /\ call \in Calls /\ call.opcode = CallOpcode(call) /\ binder \in Binders
        /\ flags[binder] = 1 /\ ~broken[call.srv]
    BY <1>0, <2>1 DEF CallInv
  <2>3. call.srv \in Servers
    BY <2>2 DEF Calls
  <2>4. WireInv(call.srv)
    BY <2>3, Zenon DEF RpcInv
  <2>5. /\ requests[call.srv] = <<>>
        /\ replies[call.srv] = <<[imm |-> CallHeader, block |-> CallBlock(call)]>>
    BY <2>1, <2>2, <2>4, Zenon DEF WireInv, Quiet, Asked, Answered
  <2>6. replies'[call.srv] = <<>>
    <3>1. replies \in [Servers -> Seq(Replies)]
      BY Zenon DEF RpcInv, OnWire
    <3>2. QED
      BY <2>1, <2>3, <2>5, <3>1
  <2>7. Holding /\ Holding' /\ ~Astray
    BY <2>1 DEF Holding, Astray
  <2> HIDE DEF bi
  <2>8. CASE bi \in Held \/ bi \notin Reachable
    <3>1. Held' = Held
      BY <1>0, <2>1, <2>8 DEF Held
    <3>2. QED
      BY <1>0, <2>1, <2>7, <3>1, HeldStays
  <2>9. CASE bi \notin Held /\ bi \in Reachable
    <3>1. Held' = Held \cup {bi}
      BY <1>0, <2>1, <2>9 DEF Held
    <3>2. Cardinality(Held') = Cardinality(Held) + 1
      BY <1>1, <2>9, <3>1, FS_AddElement
    <3>3. bi # binder /\ flags'[binder] = 1
      BY <1>0, <2>1, <2>2, <2>9 DEF Held
    <3>4. Astray'
      BY <2>1, <2>5, <2>6, <3>3 DEF Astray
    <3>5. QED
      BY <1>0, <1>1, <2>1, <2>7, <3>2, <3>4 DEF BindersBounded
  <2>10. QED
    BY <2>8, <2>9
<1>5. CASE PostFails \/ SendFails \/ RecvFails
  <2>1. /\ pc \in {"post", "send", "wait"} /\ pc' = "idle" /\ failures' = failures + 1
        /\ flags' = flags
    BY <1>5 DEF PostFails, SendFails, RecvFails, Fail
  <2>2. Held' = Held /\ Holding /\ ~Holding' /\ ~Astray'
    BY <2>1 DEF Held, Holding, Astray
  <2>3. QED
    BY <1>0, <1>1, <2>1, <2>2 DEF BindersBounded
<1>6. CASE PostRequest \/ SendCompletes
  <2>1. /\ pc \in {"post", "send"} /\ pc' \in {"send", "wait"} /\ failures' = failures
        /\ flags' = flags
    BY <1>6 DEF PostRequest, SendCompletes
  <2>2. Held' = Held /\ (Holding' <=> Holding) /\ ~Astray
    BY <2>1 DEF Held, Holding, Astray
  <2>3. QED
    BY <1>0, <2>1, <2>2, HeldStays
<1>7. ASSUME NEW s \in Servers, NEW op, NEW o, Begin(s, op, o) PROVE BindersBounded'
  <2>1. pc = "idle" /\ pc' = "binder" /\ failures' = failures /\ flags' = flags
    BY <1>7, Zenon DEF Begin
  <2>2. Held' = Held /\ (Holding' <=> Holding) /\ ~Astray
    BY <2>1 DEF Held, Holding, Astray
  <2>3. QED
    BY <1>0, <2>1, <2>2, HeldStays
<1>8. ASSUME NEW s \in Servers, Serve(s) PROVE BindersBounded'
  <2>1. /\ pc' = pc /\ failures' = failures /\ flags' = flags /\ call' = call
        /\ binder' = binder /\ requests[s] # <<>>
        /\ \E r : replies' = [replies EXCEPT ![s] = Append(@, r)]
        /\ requests' = [requests EXCEPT ![s] = Tail(@)]
    BY <1>8 DEF Serve
  <2>2. Astray => Astray'
    <3>1. requests \in [Servers -> Seq(Headers)] /\ replies \in [Servers -> Seq(Replies)]
      BY Zenon DEF RpcInv, OnWire
    <3>2. ASSUME Astray PROVE Astray'
      <4>1. call \in Calls /\ call.srv # s
        BY <1>0, <2>1, <3>2 DEF Astray, CallInv
      <4>2. call.srv \in Servers
        BY <4>1 DEF Calls
      <4>3. requests'[call.srv] = requests[call.srv] /\ replies'[call.srv] = replies[call.srv]
        BY <2>1, <3>1, <4>1, <4>2
      <4>4. QED
        BY <2>1, <3>2, <4>3 DEF Astray
    <3>3. QED
      BY <3>2
  <2>3. Held' = Held /\ (Holding' <=> Holding)
    BY <2>1 DEF Held, Holding
  <2>4. QED
    BY <1>0, <2>1, <2>2, <2>3, HeldStays
<1>9. CASE UNCHANGED vars
  <2>1. /\ pc' = pc /\ failures' = failures /\ flags' = flags /\ call' = call
        /\ binder' = binder /\ requests' = requests /\ replies' = replies
    BY <1>9, Zenon DEF vars, wireVars
  <2>2. Held' = Held /\ (Holding' <=> Holding) /\ (Astray' <=> Astray)
    BY <2>1 DEF Held, Holding, Astray
  <2>3. QED
    BY <1>0, <2>1, <2>2, HeldStays
<1>10. QED
  <2>1. ASSUME NEW s \in Servers,
               BeginCommit(s) \/ (\E o \in Offsets : BeginOpen(s, o)) \/ Serve(s)
        PROVE  BindersBounded'
    BY <1>7, <1>8, <2>1, Zenon DEF BeginCommit, BeginOpen
  <2>2. CASE CallStep
    BY <1>2, <1>3, <1>4, <1>5, <1>6, <2>2, Zenon DEF CallStep
  <2>3. CASE Done
    BY <1>9, <2>3, Zenon DEF Done
  <2>4. QED
    BY <1>9, <2>1, <2>2, <2>3, Zenon DEF Next

\* Whatever the calls are made for and whatever fails: the binders that are not free
\* number at least the calls that failed and the one in progress, and at most twice
\* as many (drive/sib.c:886 gives back the binder of a call that returns, and of no
\* other).
THEOREM BindersAreBounded == Spec => []BindersBounded
<1>1. Init => BindersBounded
  <2> SUFFICES ASSUME Init PROVE BindersBounded
    OBVIOUS
  <2>1. flags = [b \in Reachable |-> 0] /\ pc = "idle" /\ failures = 0
    BY Zenon DEF Init
  <2>2. Held = {} /\ ~Holding /\ ~Astray
    BY <2>1 DEF Held, Holding, Astray
  <2>3. QED
    BY <2>1, <2>2, FS_EmptySet DEF BindersBounded
<1>2. RpcInv /\ BindersBounded /\ [Next]_vars => BindersBounded'
  BY BindersStep
<1>3. QED
  BY <1>1, <1>2, RpcInvariant, PTL DEF Spec
=============================================================================
