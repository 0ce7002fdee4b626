----------------------------- MODULE FarServer -----------------------------
(***************************************************************************)
(* The far memory servers: lib/handler.c with lib/memblock.c and the       *)
(* buffers of lib/ib.c.  On each server the multicast thread takes the     *)
(* pages that arrive, puts their receive buffers on commit_list and copies *)
(* ("conveys") them to the memory blocks; the rdma thread answers the      *)
(* driver's RPCs, and a commit gives the buffers of the list back to the   *)
(* receive queue.  The two threads share commit_list, the buffers and the  *)
(* batch counter; mmh->lock guards some of it.                             *)
(***************************************************************************)
EXTENDS SwapPages, Sequences, FiniteSets

CONSTANTS
    NumBufs,        \* MCM_MAX_RECV_WR: receive buffers of the multicast queue pair
    SERVER_BATCH,   \* CONFIG_BATCH of include/rpc.h
    PreAlloc,       \* blocks a connection starts with
    Unallocatable   \* blocks add_memblock cannot allocate or register

ASSUME ServerBatchAssumption == SERVER_BATCH \in Nat \ {0}
ASSUME NumBufsAssumption == NumBufs \in Nat
ASSUME BlockSetsAssumption ==
    PreAlloc \subseteq Blocks /\ Unallocatable \subseteq Blocks \ PreAlloc

VARIABLES
    \* per server: the multicast receive queue
    posted,     \* buffers posted for receiving, oldest first
    data,       \* what each buffer holds
    cq,         \* completions not polled: the buffer and the header's offset
    \* multicast_memory_handler and recv_work
    commitList, \* commit_list, head first
    imm,        \* rw->wc: the offset of the page in each buffer
    convey,     \* rw->convey
    locked,     \* mmh->lock
    flow,       \* the completion the multicast thread is conveying, or None
    \* rdma_memory_handler
    srvBatch,   \* rmh->batch
    blocks,     \* memblocks that exist
    mem,        \* their pages
    rpcPc,      \* "idle", or where the commit handler is
    req, rep,   \* the driver's request and the answer to it
    \* history the properties refer to
    delivered,  \* pages that arrived
    early,      \* a commit was answered because commit_list was empty
    clash       \* a commit gave back the buffer the multicast thread works on

Bufs == 1 .. NumBufs

queueVars == <<posted, data, cq>>
listVars  == <<commitList, imm, convey, locked, flow>>
rmhVars   == <<srvBatch, blocks, mem>>
rpcVars   == <<rpcPc, req, rep>>
historyVars == <<delivered, early, clash>>
serverVars == <<queueVars, listVars, rmhVars, rpcVars, historyVars>>

Requests == [op : {"open"}, block : Blocks, count : {0}]
            \cup [op : {"commit", "qcommit"}, block : {None}, count : 0 .. SERVER_BATCH]

Completion == [buf : Bufs, off : Offsets]

ASSUME NoCompletionAssumption == None \notin Completion
ASSUME NoRequestAssumption == None \notin Requests
ASSUME NoReplyAssumption == None \notin {"opened", "committed"}

Elems(q) == {q[i] : i \in DOMAIN q}

----------------------------------------------------------------------------
(* The multicast queue pair. *)

\* A page arrives in the oldest posted buffer.
Receive(s, p) ==
    /\ posted[s] # <<>>
    /\ LET b == Head(posted[s]) IN
         /\ data' = [data EXCEPT ![s][b] = p]
         /\ cq' = [cq EXCEPT ![s] = Append(@, [buf |-> b, off |-> p.off])]
    /\ posted' = [posted EXCEPT ![s] = Tail(@)]
    /\ delivered' = [delivered EXCEPT ![s] = @ \cup {p}]
    /\ UNCHANGED <<listVars, rmhVars, rpcVars, early, clash>>

----------------------------------------------------------------------------
(* ib_convey_page: copy the page to its block, mark the buffer, count it. *)

CanConvey_new(s, o) ==                                   \* mutant
    BlockOf[o] \notin blocks[s] /\ BlockOf[o] \notin Unallocatable
CanConvey(s, o) ==
    BlockOf[o] \in blocks[s] \/ BlockOf[o] \notin Unallocatable

----------------------------------------------------------------------------
(* multicast_memory_thread and __process_multicast_rpc_flow. *)

\* The buffer joins commit_list before the lock is taken.
FlowAdd(s) ==
    /\ flow[s] = None /\ cq[s] # <<>>
    /\ LET w == Head(cq[s]) IN
         /\ imm' = [imm EXCEPT ![s][w.buf] = w.off]
         /\ commitList' = [commitList EXCEPT ![s] = <<w.buf>> \o @]
         /\ flow' = [flow EXCEPT ![s] = w]
    /\ cq' = [cq EXCEPT ![s] = Tail(@)]
    /\ UNCHANGED <<posted, data, convey, locked, rmhVars, rpcVars, historyVars>>

\* Under the lock: convey the page, unless its buffer says it was.
FlowConvey(s) ==
    /\ flow[s] # None /\ ~locked[s]
    /\ LET b == flow[s].buf
           o == flow[s].off
       IN IF ~convey[s][b] /\ CanConvey(s, o)
          THEN /\ mem' = [mem EXCEPT ![s][o] = data[s][b]]
               /\ blocks' = [blocks EXCEPT ![s] = @ \cup {BlockOf[o]}]
               /\ convey' = [convey EXCEPT ![s][b] = TRUE]
               /\ srvBatch' = [srvBatch EXCEPT ![s] = @ + 1]
          ELSE UNCHANGED <<mem, blocks, convey, srvBatch>>
    /\ flow' = [flow EXCEPT ![s] = None]
    /\ UNCHANGED <<queueVars, commitList, imm, locked, rpcVars, historyVars>>

----------------------------------------------------------------------------
(* rdma_memory_thread. *)

\* __process_rdma_rpc_open
ServeOpen(s) ==
    /\ rpcPc[s] = "idle" /\ req[s] # None /\ req[s].op = "open"
    /\ req[s].block \notin Unallocatable \ blocks[s]
    /\ blocks' = [blocks EXCEPT ![s] = @ \cup {req[s].block}]
    /\ req' = [req EXCEPT ![s] = None]
    /\ rep' = [rep EXCEPT ![s] = "opened"]
    /\ UNCHANGED <<queueVars, listVars, srvBatch, mem, rpcPc, historyVars>>

IsCommit(s) == req[s] # None /\ req[s].op \in {"commit", "qcommit"}

\* An empty commit_list is answered without waiting for anything.
CommitEmpty(s) ==
    /\ rpcPc[s] = "idle" /\ IsCommit(s) /\ commitList[s] = <<>>
    /\ req' = [req EXCEPT ![s] = None]
    /\ rep' = [rep EXCEPT ![s] = "committed"]
    /\ early' = [early EXCEPT ![s] = TRUE]
    /\ UNCHANGED <<queueVars, listVars, rmhVars, rpcPc, delivered, clash>>

CommitBegin(s) ==
    /\ rpcPc[s] = "idle" /\ IsCommit(s) /\ commitList[s] # <<>>
    /\ rpcPc' = [rpcPc EXCEPT ![s] = "wait"]
    /\ UNCHANGED <<queueVars, listVars, rmhVars, req, rep, historyVars>>

\* The pages a commit waits for: a constant, or what the qcommit asks for.
Awaited_short(s) == SERVER_BATCH - 1                    \* mutant
Awaited_over(s) == SERVER_BATCH + 1                     \* mutant
Awaited(s) == IF req[s].op = "qcommit" THEN req[s].count ELSE SERVER_BATCH

\* The prefix of commit_list the convey loop gets through: it breaks at the
\* first page it has to convey and cannot.
Conveyable(s) ==
    LET l == commitList[s]
        stuck(i) == ~convey[s][l[i]] /\ ~CanConvey(s, imm[s][l[i]])
    IN {i \in DOMAIN l : \A j \in 1 .. i : ~stuck(j)}

\* Of those, the pages it conveys.
ToConvey_all(s) == Conveyable(s)                        \* mutant
ToConvey(s) == {i \in Conveyable(s) : ~convey[s][commitList[s][i]]}

\* The first loop, under the lock it takes: the pages not conveyed are, head
\* first, so an older page of an offset overwrites a newer one.  The break
\* leaves the loop with the lock released.
CommitConvey(s) ==
    /\ rpcPc[s] = "wait" /\ ~locked[s] /\ srvBatch[s] >= Awaited(s)
    /\ LET l == commitList[s]
           todoAt == ToConvey(s)
           lastFor(o) == {i \in todoAt :
                            /\ imm[s][l[i]] = o
                            /\ \A j \in todoAt : imm[s][l[j]] = o => j <= i}
       IN /\ mem' = [mem EXCEPT ![s] =
                       [o \in Offsets |-> IF lastFor(o) = {} THEN mem[s][o]
                          ELSE data[s][l[CHOOSE i \in lastFor(o) : TRUE]]]]
          /\ blocks' = [blocks EXCEPT ![s] = @ \cup {BlockOf[imm[s][l[i]]] : i \in todoAt}]
          /\ convey' = [convey EXCEPT ![s] =
                          [b \in Bufs |-> convey[s][b] \/ \E i \in todoAt : l[i] = b]]
          /\ srvBatch' = [srvBatch EXCEPT ![s] = @ + Cardinality(todoAt)]
          /\ locked' = [locked EXCEPT ![s] = Conveyable(s) = DOMAIN l]
    /\ rpcPc' = [rpcPc EXCEPT ![s] = "putback"]
    /\ UNCHANGED <<queueVars, commitList, imm, flow, req, rep, historyVars>>

\* ib_putback_recv_work of the whole list.
PutBack_rest(s) == posted[s] \o Tail(commitList[s])     \* mutant
PutBack(s) == posted[s] \o commitList[s]

Unmarked_none(s) == convey[s]                           \* mutant
Unmarked(s) == [b \in Bufs |-> convey[s][b] /\ b \notin Elems(commitList[s])]

\* rmh->batch after a commit.
BatchLeft_rest(s) == srvBatch[s] - SERVER_BATCH         \* mutant
BatchLeft(s) == 0

\* The second loop: every buffer of the list goes back to the receive queue.
CommitPutback(s) ==
    /\ rpcPc[s] = "putback"
    /\ posted' = [posted EXCEPT ![s] = PutBack(s)]
    /\ convey' = [convey EXCEPT ![s] = Unmarked(s)]
    /\ clash' = [clash EXCEPT ![s] =
                   @ \/ (flow[s] # None /\ flow[s].buf \in Elems(commitList[s]))]
    /\ commitList' = [commitList EXCEPT ![s] = <<>>]
    /\ rpcPc' = [rpcPc EXCEPT ![s] = "reset"]
    /\ UNCHANGED <<data, cq, imm, locked, flow, rmhVars, req, rep, delivered, early>>

\* The batch starts anew, the lock is released, if it was still held, and the commit
\* answered.
CommitReset(s) ==
    /\ rpcPc[s] = "reset"
    /\ srvBatch' = [srvBatch EXCEPT ![s] = BatchLeft(s)]
    /\ locked' = [locked EXCEPT ![s] = FALSE]
    /\ req' = [req EXCEPT ![s] = None]
    /\ rep' = [rep EXCEPT ![s] = "committed"]
    /\ rpcPc' = [rpcPc EXCEPT ![s] = "idle"]
    /\ UNCHANGED <<queueVars, commitList, imm, convey, flow, blocks, mem, historyVars>>

----------------------------------------------------------------------------
(* The driver's end of the RPC connection: one call at a time. *)

Call(s, r) ==
    /\ req[s] = None /\ rep[s] = None
    /\ req' = [req EXCEPT ![s] = r]
    /\ UNCHANGED <<queueVars, listVars, rmhVars, rpcPc, rep, historyVars>>

TakeReply(s) ==
    /\ rep[s] # None
    /\ rep' = [rep EXCEPT ![s] = None]
    /\ UNCHANGED <<queueVars, listVars, rmhVars, rpcPc, req, historyVars>>

----------------------------------------------------------------------------
(* The specification: pages are stored in the order of their number. *)

FarInit ==
    /\ posted = [s \in Servers |-> [b \in Bufs |-> b]]
    /\ data = [s \in Servers |-> [b \in Bufs |-> None]]
    /\ cq = [s \in Servers |-> <<>>]
    /\ commitList = [s \in Servers |-> <<>>]
    /\ imm = [s \in Servers |-> [b \in Bufs |-> None]]
    /\ convey = [s \in Servers |-> [b \in Bufs |-> FALSE]]
    /\ locked = [s \in Servers |-> FALSE]
    /\ flow = [s \in Servers |-> None]
    /\ srvBatch = [s \in Servers |-> 0]
    /\ blocks = [s \in Servers |-> PreAlloc]
    /\ mem = [s \in Servers |-> [o \in Offsets |-> None]]
    /\ rpcPc = [s \in Servers |-> "idle"]
    /\ req = [s \in Servers |-> None]
    /\ rep = [s \in Servers |-> None]
    /\ delivered = [s \in Servers |-> {}]
    /\ early = [s \in Servers |-> FALSE]
    /\ clash = [s \in Servers |-> FALSE]

MulticastThread(s) == FlowAdd(s) \/ FlowConvey(s)

RdmaThread(s) ==
    \/ ServeOpen(s) \/ CommitEmpty(s) \/ CommitBegin(s)
    \/ CommitConvey(s) \/ CommitPutback(s) \/ CommitReset(s)

\* A client that may send the next page, or call, at any time.
ClientStep(s) ==
    \/ \E o \in Offsets :
         /\ Cardinality(delivered[s]) < MaxStores
         /\ Receive(s, [off |-> o, ver |-> Cardinality(delivered[s]) + 1])
    \/ \E r \in Requests : Call(s, r)
    \/ TakeReply(s)

FarNext == \E s \in Servers : MulticastThread(s) \/ RdmaThread(s) \/ ClientStep(s)

FarSpec == FarInit /\ [][FarNext]_serverVars

----------------------------------------------------------------------------
(* Properties. *)

\* Every variable holds a value of its type.
FarTypeOK ==
    /\ posted \in [Servers -> Seq(Bufs)] /\ cq \in [Servers -> Seq(Completion)]
    /\ data \in [Servers -> [Bufs -> Content]]
    /\ commitList \in [Servers -> Seq(Bufs)]
    /\ imm \in [Servers -> [Bufs -> Offsets \cup {None}]]
    /\ convey \in [Servers -> [Bufs -> BOOLEAN]] /\ locked \in [Servers -> BOOLEAN]
    /\ flow \in [Servers -> Completion \cup {None}]
    /\ srvBatch \in [Servers -> Nat] /\ blocks \in [Servers -> SUBSET Blocks]
    /\ mem \in [Servers -> [Offsets -> Content]]
    /\ rpcPc \in [Servers -> {"idle", "wait", "putback", "reset"}]
    /\ req \in [Servers -> Requests \cup {None}]
    /\ rep \in [Servers -> {"opened", "committed", None}]
    /\ delivered \in [Servers -> SUBSET Page]
    /\ early \in [Servers -> BOOLEAN] /\ clash \in [Servers -> BOOLEAN]

\* How often a buffer occurs in the queues of a server.
Places(s, b) ==
    Cardinality({i \in DOMAIN posted[s] : posted[s][i] = b})
    + Cardinality({i \in DOMAIN cq[s] : cq[s][i].buf = b})
    + Cardinality({i \in DOMAIN commitList[s] : commitList[s][i] = b})

\* A receive buffer is never lost and never posted twice, whatever the two
\* threads do to commit_list (list_add, list_del_init, ib_putback_recv_work).
BuffersConserved == \A s \in Servers, b \in Bufs : Places(s, b) = 1

\* A buffer that waits for a page is not marked as conveyed, or its next page would
\* be skipped - unless a commit put back the buffer the multicast thread had linked
\* into commit_list before it took the lock (handler.c:264 against 187-193), and that
\* thread then conveys and marks what waits again.
PostedBuffersCleanUnlessClash ==
    \A s \in Servers : ~clash[s] => \A b \in Elems(posted[s]) : ~convey[s][b]

\* Content d is page p, or a newer page of its offset.
Replaces(d, p) == d # None /\ d.off = p.off /\ d.ver >= p.ver

\* A page that arrived, or a newer one of its offset, is in a buffer some thread will
\* come to, until its server's memory has it - unless its block cannot be had.
NotDropped(s, p) ==
    \/ AtLeast(mem[s][p.off], p.ver)
    \/ \E w \in Elems(cq[s]) : Replaces(data[s][w.buf], p)
    \/ \E b \in Elems(commitList[s]) : Replaces(data[s][b], p)
    \/ flow[s] # None /\ Replaces(data[s][flow[s].buf], p)
    \/ BlockOf[p.off] \in Unallocatable

\* No page that arrived is dropped: what lib/test.c expects when it compares every
\* page of a batch after its commit.
NoPageDropped == \A s \in Servers : \A p \in delivered[s] : NotDropped(s, p)

\* So it is on every server where no commit put back the buffer the multicast thread
\* was about to convey (handler.c:264 against 187-193).
NoPageDroppedUnlessClash ==
    \A s \in Servers : ~clash[s] => \A p \in delivered[s] : NotDropped(s, p)

\* A server never goes back to an older page of an offset, nor to another's, unless
\* a commit put back the buffer the multicast thread was about to convey: another
\* page may have arrived in it before it is conveyed.
MemoryMovesForwardUnlessClash ==
    [][\A s \in Servers, o \in Offsets :
          ~clash'[s] /\ mem'[s][o] # mem[s][o] =>
            /\ mem'[s][o].off = o
            /\ mem[s][o] # None => mem'[s][o].ver > mem[s][o].ver]_serverVars
=============================================================================
