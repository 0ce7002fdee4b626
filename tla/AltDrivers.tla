----------------------------- MODULE AltDrivers -----------------------------
(***************************************************************************)
(* The two drivers of drive/ that the Kbuild leaves out.  drive/ib.c       *)
(* multicasts a page without keeping a copy: check_list names the offsets  *)
(* a server may not have yet, and a load waits until a commit has emptied  *)
(* it.  drive/cib.c, of which drive/rib.c is a copy, writes each page to   *)
(* both servers by RDMA.  Up to their stores and loads they are the same   *)
(* program.  CPUs poll the completion queues of the queue pairs they       *)
(* share, so one may take the completion of another.                       *)
(* Both files take byte addresses (u64 roffset) and derive page and block  *)
(* from them; an offset here is a page, and BlockOf its block.             *)
(* The servers are those of FarServer.tla.                                 *)
(***************************************************************************)
EXTENDS FarServer

CONSTANTS
    Cpus,           \* the CPUs that call into frontswap
    Main,           \* the controller get_main_rdma_ctrl returns
    CtrlOrder,      \* ctrl.rdma_ctrl_list
    AliveOrders,    \* bound: per driver, the alive members of that list, in its order
    DRIVER_BATCH,   \* CONFIG_BATCH of drive/ib.h
    Faults          \* what may fail: "dma", "send"; "again": sends after the first

\* set_rdma puts a server in the list before it can be the main one (drive/cib.c:664, 1075).
ASSUME CtrlOrderAssumption == CtrlOrder \in Seq(Servers) /\ Main \in Elems(CtrlOrder)
ASSUME AliveOrdersAssumption == AliveOrders \in [{"ib", "cib"} -> Seq(Servers)]
\* set_rdma puts each of them in the list once (drive/ib.h:238).
ASSUME AliveOnceAssumption ==
    \A m \in {"ib", "cib"} : \A i, j \in DOMAIN AliveOrders[m] :
        AliveOrders[m][i] = AliveOrders[m][j] => i = j
ASSUME QpsAssumption == "mcast" \notin Servers
ASSUME AltCpusAssumption == IsFiniteSet(Cpus) /\ None \notin Cpus
ASSUME AltBatchAssumption == DRIVER_BATCH \in Nat \ {0}

VARIABLES
    loaded,     \* the module the node runs: "ib" or "cib"
    \* ctrl_t: the controllers point to one lock, batch and pair of lists
    spin,       \* the CPU holding the spinlock
    batch,
    rdmaInfo,   \* per server, the blocks whose rkey is known
    checkList,  \* offsets multicast since the last commit
    readList,   \* offsets a load has read and not returned
    \* the CPUs: the frame of maruswap_multicast_write or maruswap_rdma_read
    frame,
    \* the queue pairs of the node
    sendq,      \* per queue pair, the work posted and not completed
    sendcq,     \* per queue pair, the completions not polled
    caller,     \* per server, the CPU whose request it has, if that waits
    flight,     \* per server, the pages multicast and not delivered
    \* what frontswap believes, and the history the properties refer to
    stored, stores,
    failed,     \* a send could not be posted, or completed with an error
    blurred     \* a commit began that need not wait for every page let through

ctrlVars == <<spin, batch, rdmaInfo, checkList, readList>>
wireVars == <<sendq, sendcq, caller, flight>>
kernelVars == <<stored, stores>>
historyOfCalls == <<loaded, failed, blurred>>
altVars == <<ctrlVars, frame, wireVars, kernelVars, historyOfCalls, serverVars>>

Qps == Servers \cup {"mcast"}
AliveOrder == AliveOrders[loaded]
Alive == Elems(AliveOrder)

IdleFrame ==
    [pc |-> "idle", op |-> None, page |-> None, ctrl |-> None, todo |-> <<>>,
     err |-> FALSE, done |-> FALSE, got |-> None]

At(c, l) == frame[c].pc = l

Goto(c, l) == frame' = [frame EXCEPT ![c].pc = l]

\* The swap cache lets one store or load at a time work on an offset.
Busy(o) == \E c \in Cpus : ~At(c, "idle") /\ frame[c].page.off = o

Return(c) == frame' = [frame EXCEPT ![c] = IdleFrame]

StoreResult(c, ok) ==
    /\ Return(c)
    /\ stored' = [stored EXCEPT ![frame[c].page.off] = IF ok THEN frame[c].page.ver ELSE 0]
    /\ UNCHANGED stores

----------------------------------------------------------------------------
(* The kernel calls. *)

StoreBegin(c, o) ==
    /\ At(c, "idle") /\ ~Busy(o) /\ stores < MaxStores
    /\ stores' = stores + 1
    /\ frame' = [frame EXCEPT ![c] = [IdleFrame EXCEPT !.pc = "lock", !.op = "store",
                                        !.page = [off |-> o, ver |-> stores + 1]]]
    /\ UNCHANGED <<ctrlVars, wireVars, stored, historyOfCalls>>

\* The page cannot be mapped.
StoreUnmapped(c, o) ==
    /\ "dma" \in Faults
    /\ At(c, "idle") /\ ~Busy(o) /\ stores < MaxStores
    /\ stores' = stores + 1
    /\ stored' = [stored EXCEPT ![o] = 0]
    /\ UNCHANGED <<ctrlVars, frame, wireVars, historyOfCalls>>

\* cib reads the main server; ib the main or the sub, by the parity of the CPU
\* the call runs on.
ReadServers == IF loaded = "cib" THEN {Main} ELSE Servers

LoadBegin(c, o, s) ==
    /\ At(c, "idle") /\ ~Busy(o) /\ stored[o] # 0 /\ s \in ReadServers
    /\ frame' = [frame EXCEPT ![c] = [IdleFrame EXCEPT !.pc = "load", !.op = "load",
                                        !.page = [off |-> o, ver |-> stored[o]],
                                        !.ctrl = s]]
    /\ UNCHANGED <<ctrlVars, wireVars, kernelVars, historyOfCalls>>

----------------------------------------------------------------------------
(* Queue pairs: work is done in the order it was posted, and its completion   *)
(* says who posted it, by the address of a flag on that CPU's stack.          *)

\* The queue pair a CPU in a polling loop polls, by the step it is at.
PollsAt == {"opening", "committing", "send", "read", "writing"}

QpOf(c) == CASE At(c, "send") -> "mcast"
             [] At(c, "read") -> frame[c].ctrl
             [] OTHER         -> Head(frame[c].todo)

Posted(c, q, op, what) ==
    sendq' = [sendq EXCEPT ![q] = Append(@, [cpu |-> c, op |-> op, what |-> what])]

\* c polls no longer: what it posted still points to the frame it has left.
Disowned(c, q) == [i \in DOMAIN q |-> IF q[i].cpu = c THEN [q[i] EXCEPT !.cpu = None] ELSE q[i]]

\* A CPU whose flag is set leaves the loop, whoever's completion set it.
StopsPolling(c) ==
    /\ frame[c].done
    /\ sendq' = [sendq EXCEPT ![QpOf(c)] = Disowned(c, @)]
    /\ sendcq' = [sendcq EXCEPT ![QpOf(c)] = Disowned(c, @)]

\* The queue pair does the oldest work posted to it, with success or not.
Completes(q, op, ok) ==
    /\ sendq[q] # <<>> /\ Head(sendq[q]).op \in op
    /\ sendq' = [sendq EXCEPT ![q] = Tail(@)]
    /\ sendcq' = [sendcq EXCEPT ![q] = Append(@, [cpu |-> Head(sendq[q]).cpu, ok |-> ok])]
    /\ failed' = (failed \/ ~ok)
    /\ UNCHANGED <<ctrlVars, kernelVars, loaded, blurred>>

\* A page goes to every member of the group.
SendsPage(q) ==
    /\ Completes(q, {"page"}, TRUE)
    /\ flight' = [s \in Servers |-> IF s \in Alive THEN Append(flight[s], Head(sendq[q]).what)
                                                   ELSE flight[s]]
    /\ UNCHANGED <<frame, caller, serverVars>>

SendsCall(s) ==
    /\ Completes(s, {"call"}, TRUE)
    /\ Call(s, Head(sendq[s]).what)
    /\ caller' = [caller EXCEPT ![s] = Head(sendq[s]).cpu]
    /\ UNCHANGED <<frame, flight>>

\* A READ or a WRITE needs the rkey the open of the block returned.
HasRkey(s) == BlockOf[Head(sendq[s]).what.off] \in rdmaInfo[s]

ReadsPage(s) ==
    /\ Completes(s, {"read"}, TRUE) /\ HasRkey(s)
    /\ LET w == Head(sendq[s]) IN
         frame' = IF w.cpu = None THEN frame
                  ELSE [frame EXCEPT ![w.cpu].got = mem[s][w.what.off]]
    /\ UNCHANGED <<flight, caller, serverVars>>

WritesPage(s) ==
    /\ Completes(s, {"write"}, TRUE) /\ HasRkey(s)
    /\ LET p == Head(sendq[s]).what IN mem' = [mem EXCEPT ![s][p.off] = p]
    /\ UNCHANGED <<frame, flight, caller, queueVars, listVars, srvBatch, blocks, rpcVars,
                   historyVars>>

\* Bound: unless Faults has "again", no send fails after the first.
SendMayFail == "send" \in Faults /\ (failed => "again" \in Faults)

WorkFails(q) ==
    /\ Completes(q, {"page", "call", "read", "write"}, FALSE)
    /\ \/ SendMayFail
       \/ Head(sendq[q]).op \in {"read", "write"} /\ ~HasRkey(q)
    /\ UNCHANGED <<frame, flight, caller, serverVars>>

Executes(q) ==
    \/ SendsPage(q) \/ WorkFails(q)
    \/ q \in Servers /\ (SendsCall(q) \/ ReadsPage(q) \/ WritesPage(q))

Polling(c) == frame[c].pc \in PollsAt /\ ~frame[c].done

\* The frames whose flag a completion sets.  The flag of a frame that was left may
\* lie in any frame there is now.
FlagOf_own(c, w) == IF w.cpu = c THEN {c} ELSE {None}    \* mutant
FlagOf(c, w) == IF w.cpu = None THEN Cpus \cup {None} ELSE {w.cpu}

\* A CPU finds a good completion, its own or not, and sets the flag it points to.
PollsDone(c) ==
    /\ Polling(c) /\ sendcq[QpOf(c)] # <<>>
    /\ LET w == Head(sendcq[QpOf(c)]) IN
         /\ w.ok
         /\ \E d \in FlagOf(c, w) :
              frame' = IF d = None THEN frame ELSE [frame EXCEPT ![d].done = TRUE]
    /\ sendcq' = [sendcq EXCEPT ![QpOf(c)] = Tail(@)]
    /\ UNCHANGED <<ctrlVars, sendq, caller, flight, kernelVars, historyOfCalls, serverVars>>

\* A CPU that finds a failed completion, its own or not, gives up.
PollsError(c) ==
    LET q == QpOf(c) IN
    /\ Polling(c) /\ sendcq[q] # <<>> /\ ~Head(sendcq[q]).ok
    /\ sendcq' = [sendcq EXCEPT ![q] = Disowned(c, Tail(@))]
    /\ sendq' = [sendq EXCEPT ![q] = Disowned(c, @)]

----------------------------------------------------------------------------
(* __ib_rpc, and the loops that call it under the spinlock. *)

\* The stores let past the lock whose page is not counted yet.  A commit that begins
\* then, or with more than a batch, can be answered before a page it should cover
\* is at the server.
Uncounted == {c \in Cpus : frame[c].pc \in {"mark", "post", "send"}}

StartCommit(c) ==
    /\ frame' = [frame EXCEPT ![c].pc = "commit", ![c].todo = AliveOrder, ![c].err = FALSE]
    /\ blurred' = (blurred \/ Uncounted # {} \/ batch > SERVER_BATCH)

check_rdma_info(b) == \E s \in Servers : b \notin rdmaInfo[s]

CanLock_load(c) == spin = None \/ At(c, "overdue")        \* mutant
CanLock(c) == spin = None

\* A store takes the lock, or a load that has waited too long.
TakeLock(c) ==
    /\ CanLock(c)
    /\ spin' = c
    /\ \/ /\ At(c, "lock")
          /\ frame' = IF check_rdma_info(BlockOf[frame[c].page.off])
                      THEN [frame EXCEPT ![c].pc = "open", ![c].todo = AliveOrder]
                      ELSE [frame EXCEPT ![c].pc = "check"]
          /\ UNCHANGED blurred
       \/ At(c, "overdue") /\ StartCommit(c)
    /\ UNCHANGED <<batch, rdmaInfo, checkList, readList, wireVars, kernelVars, loaded, failed,
                   serverVars>>

Block(c) == BlockOf[frame[c].page.off]

\* ib_rpc_open_unlocked: no call for a block whose rkey is known.
OpenSkip(c) ==
    /\ At(c, "open") /\ frame[c].todo # <<>>
    /\ Block(c) \in rdmaInfo[Head(frame[c].todo)]
    /\ frame' = [frame EXCEPT ![c].todo = Tail(@)]
    /\ UNCHANGED <<ctrlVars, wireVars, kernelVars, historyOfCalls, serverVars>>

PostCall(c) ==
    /\ frame[c].todo # <<>>
    /\ LET s == Head(frame[c].todo) IN
       \/ /\ At(c, "open") /\ Block(c) \notin rdmaInfo[s]
          /\ Posted(c, s, "call", [op |-> "open", block |-> Block(c), count |-> 0])
          /\ frame' = [frame EXCEPT ![c].pc = "opening", ![c].done = FALSE]
       \/ /\ At(c, "commit")
          /\ Posted(c, s, "call", [op |-> "commit", block |-> None, count |-> 0])
          /\ frame' = [frame EXCEPT ![c].pc = "committing", ![c].done = FALSE]
    /\ UNCHANGED <<ctrlVars, sendcq, caller, flight, kernelVars, historyOfCalls, serverVars>>

\* ib_rpc_open_all adds up the errors; ib_rpc_commit_all returns the last one.
CallEnds(c, ok) ==
    LET s == Head(frame[c].todo) IN
    /\ frame' = [frame EXCEPT ![c].todo = Tail(@),
                   ![c].pc = IF @ = "opening" THEN "open" ELSE "commit",
                   ![c].err = ~ok \/ (@ /\ At(c, "opening"))]
    /\ rdmaInfo' = IF ok /\ At(c, "opening")
                   THEN [rdmaInfo EXCEPT ![s] = @ \cup {Block(c)}] ELSE rdmaInfo
    /\ UNCHANGED <<spin, batch, checkList, readList, kernelVars, historyOfCalls>>

CallAnswered(c) ==
    /\ frame[c].pc \in {"opening", "committing"} /\ StopsPolling(c)
    /\ LET s == Head(frame[c].todo) IN
         /\ caller[s] = c /\ TakeReply(s)
         /\ caller' = [caller EXCEPT ![s] = None]
    /\ CallEnds(c, TRUE)
    /\ UNCHANGED flight

CallFails(c) ==
    /\ frame[c].pc \in {"opening", "committing"} /\ PollsError(c)
    /\ LET s == Head(frame[c].todo) IN
         caller' = IF caller[s] = c THEN [caller EXCEPT ![s] = None] ELSE caller
    /\ CallEnds(c, FALSE)
    /\ UNCHANGED <<flight, serverVars>>

\* The next call takes an answer nobody waits for out of its way.
OldAnswer(c) ==
    /\ frame[c].pc \in {"opening", "committing"}
    /\ LET s == Head(frame[c].todo) IN caller[s] = None /\ TakeReply(s)
    /\ UNCHANGED <<ctrlVars, frame, wireVars, kernelVars, historyOfCalls>>

OpenEnds(c) ==
    /\ At(c, "open") /\ frame[c].todo = <<>>
    /\ IF frame[c].err THEN spin' = None /\ StoreResult(c, FALSE)
                       ELSE Goto(c, "check") /\ UNCHANGED <<spin, kernelVars>>
    /\ UNCHANGED <<batch, rdmaInfo, checkList, readList, wireVars, historyOfCalls, serverVars>>

\* ib commits a full batch first; then the lock is let go of for the sends.
CheckBatch(c) ==
    /\ At(c, "check")
    /\ IF loaded = "ib" /\ batch >= DRIVER_BATCH
       THEN StartCommit(c) /\ UNCHANGED spin
       ELSE /\ spin' = None
            /\ frame' = IF loaded = "ib" THEN [frame EXCEPT ![c].pc = "mark"]
                        ELSE [frame EXCEPT ![c].pc = "write", ![c].todo = CtrlOrder]
            /\ UNCHANGED blurred
    /\ UNCHANGED <<batch, rdmaInfo, checkList, readList, wireVars, kernelVars, loaded, failed,
                   serverVars>>

BatchAfter_counting == batch                            \* mutant
BatchAfter == 0

\* Whatever the servers answered, free_addr empties check_list and the batch starts
\* anew.  A load goes on looking whether the commit failed or not.
CommitEnds(c) ==
    /\ At(c, "commit") /\ frame[c].todo = <<>>
    /\ checkList' = {} /\ batch' = BatchAfter /\ spin' = None
    /\ IF frame[c].op = "store" /\ frame[c].err THEN StoreResult(c, FALSE)
       ELSE Goto(c, IF frame[c].op = "store" THEN "mark" ELSE "load") /\ UNCHANGED kernelVars
    /\ UNCHANGED <<rdmaInfo, readList, wireVars, historyOfCalls, serverVars>>

----------------------------------------------------------------------------
(* The send of ib: no lock is held. *)

\* The offset is listed.  One that is on read_list is not sent, and the store succeeds
\* all the same.
MarkPage(c) ==
    LET o == frame[c].page.off IN
    /\ At(c, "mark")
    /\ IF o \in readList
       THEN checkList' = checkList \ {o} /\ StoreResult(c, TRUE)
       ELSE checkList' = checkList \cup {o} /\ Goto(c, "post") /\ UNCHANGED kernelVars
    /\ UNCHANGED <<spin, batch, rdmaInfo, readList, wireVars, historyOfCalls, serverVars>>

\* A commit may have emptied the list since.
PostPage(c) ==
    /\ At(c, "post")
    /\ Posted(c, "mcast", "page", frame[c].page)
    /\ frame' = [frame EXCEPT ![c].pc = "send", ![c].done = FALSE]
    /\ UNCHANGED <<ctrlVars, sendcq, caller, flight, kernelVars, historyOfCalls, serverVars>>

\* The queue pair refuses the work.
PostFails(c) ==
    /\ At(c, "post") /\ SendMayFail
    /\ Goto(c, "refused") /\ failed' = TRUE
    /\ UNCHANGED <<ctrlVars, wireVars, kernelVars, loaded, blurred, serverVars>>

\* out_error unlocks a lock this CPU does not hold.
SendFails(c) ==
    /\ \/ At(c, "send") /\ PollsError(c)
       \/ At(c, "refused") /\ UNCHANGED <<sendq, sendcq>>
    /\ spin' = None
    /\ StoreResult(c, FALSE)
    /\ UNCHANGED <<batch, rdmaInfo, checkList, readList, caller, flight, historyOfCalls,
                   serverVars>>

Counted_each == batch + Len(CtrlOrder)                  \* mutant
Counted == batch + 1

CountPage(c) ==
    /\ At(c, "send") /\ StopsPolling(c)
    /\ batch' = Counted
    /\ StoreResult(c, TRUE)
    /\ UNCHANGED <<spin, rdmaInfo, checkList, readList, caller, flight, historyOfCalls,
                   serverVars>>

----------------------------------------------------------------------------
(* The writes of cib, one server after the other. *)

\* What cannot be posted, as on a connection never established, is polled for.
PostRdma(c, s, op, what, l) ==
    /\ frame' = [frame EXCEPT ![c].pc = IF s \in Alive THEN l ELSE "hung", ![c].done = FALSE]
    /\ IF s \in Alive THEN Posted(c, s, op, what) ELSE UNCHANGED sendq
    /\ UNCHANGED <<ctrlVars, sendcq, caller, flight, kernelVars, historyOfCalls, serverVars>>

PostWrite(c) ==
    /\ At(c, "write") /\ frame[c].todo # <<>>
    /\ PostRdma(c, Head(frame[c].todo), "write", frame[c].page, "writing")

\* Only the last write's result is kept.
WriteEnds(c, ok) ==
    frame' = [frame EXCEPT ![c].pc = "write", ![c].todo = Tail(@), ![c].err = ~ok]

WriteDone(c) ==
    /\ At(c, "writing") /\ StopsPolling(c)
    /\ WriteEnds(c, TRUE)
    /\ UNCHANGED <<ctrlVars, caller, flight, kernelVars, historyOfCalls, serverVars>>

WriteFails(c) ==
    /\ At(c, "writing") /\ PollsError(c)
    /\ WriteEnds(c, FALSE)
    /\ UNCHANGED <<ctrlVars, caller, flight, kernelVars, historyOfCalls, serverVars>>

AllWritten(c) ==
    /\ At(c, "write") /\ frame[c].todo = <<>>
    /\ StoreResult(c, ~frame[c].err)
    /\ UNCHANGED <<ctrlVars, wireVars, historyOfCalls, serverVars>>

----------------------------------------------------------------------------
(* maruswap_rdma_read. *)

\* ib: the load has looped for COMMIT_TIMEOUT_MS and there is a batch to commit.
LoadOverdue(c) ==
    /\ loaded = "ib" /\ At(c, "load") /\ batch # 0
    /\ Goto(c, "overdue")
    /\ UNCHANGED <<ctrlVars, wireVars, kernelVars, historyOfCalls, serverVars>>

Listed_never(c) == FALSE                                \* mutant
\* The server is read once the offset is off check_list.
Listed(c) == loaded = "ib" /\ frame[c].page.off \in checkList

PostRead(c) ==
    /\ At(c, "load") /\ ~Listed(c)
    /\ PostRdma(c, frame[c].ctrl, "read", frame[c].page, "read")

ReadMark_block(c) == Block(c)                           \* mutant
ReadMark(c) == frame[c].page.off

PageRead(c) ==
    /\ At(c, "read") /\ StopsPolling(c)
    /\ Goto(c, "loaded")
    /\ readList' = IF loaded = "ib" THEN readList \cup {ReadMark(c)} ELSE readList
    /\ UNCHANGED <<spin, batch, rdmaInfo, checkList, caller, flight, kernelVars, historyOfCalls,
                   serverVars>>

ReadFails(c) ==
    /\ At(c, "read") /\ PollsError(c)
    /\ Return(c)
    /\ UNCHANGED <<ctrlVars, caller, flight, kernelVars, historyOfCalls, serverVars>>

Unread_kept(c) == readList                              \* mutant
Unread(c) == readList \ {frame[c].page.off}

LoadDone(c) ==
    /\ At(c, "loaded")
    /\ readList' = Unread(c)
    /\ Return(c)
    /\ UNCHANGED <<spin, batch, rdmaInfo, checkList, wireVars, kernelVars, historyOfCalls,
                   serverVars>>

----------------------------------------------------------------------------
(* The specification. *)

Deliver(s) ==
    /\ flight[s] # <<>>
    /\ Receive(s, Head(flight[s]))
    /\ flight' = [flight EXCEPT ![s] = Tail(@)]
    /\ UNCHANGED <<ctrlVars, frame, sendq, sendcq, caller, kernelVars, historyOfCalls>>

ServerRuns(s) ==
    /\ MulticastThread(s) \/ RdmaThread(s)
    /\ UNCHANGED <<ctrlVars, frame, wireVars, kernelVars, historyOfCalls>>

AltInit ==
    /\ FarInit
    /\ loaded \in {"ib", "cib"}
    /\ spin = None /\ batch = 0 /\ rdmaInfo = [s \in Servers |-> {}]
    /\ checkList = {} /\ readList = {}
    /\ frame = [c \in Cpus |-> IdleFrame]
    /\ sendq = [q \in Qps |-> <<>>] /\ sendcq = [q \in Qps |-> <<>>]
    /\ caller = [s \in Servers |-> None] /\ flight = [s \in Servers |-> <<>>]
    /\ stored = [o \in Offsets |-> 0] /\ stores = 0
    /\ failed = FALSE /\ blurred = FALSE

\* The steps that leave the servers alone.
OwnStep(c) ==
    \E o \in Offsets : StoreBegin(c, o) \/ StoreUnmapped(c, o)
                       \/ \E s \in Servers : LoadBegin(c, o, s)

CpuStep(c) ==
    \/ OwnStep(c) /\ UNCHANGED serverVars
    \/ TakeLock(c) \/ OpenSkip(c) \/ PostCall(c) \/ CallAnswered(c) \/ CallFails(c)
    \/ OldAnswer(c) \/ OpenEnds(c) \/ CheckBatch(c)
    \/ CommitEnds(c) \/ MarkPage(c) \/ PostPage(c) \/ PostFails(c) \/ SendFails(c)
    \/ CountPage(c)
    \/ PostWrite(c) \/ WriteDone(c) \/ WriteFails(c) \/ AllWritten(c)
    \/ LoadOverdue(c) \/ PostRead(c) \/ PageRead(c) \/ ReadFails(c) \/ LoadDone(c)
    \/ PollsDone(c)

AltNext ==
    \/ \E c \in Cpus : CpuStep(c)
    \/ \E q \in Qps : Executes(q)
    \/ \E s \in Servers : Deliver(s) \/ ServerRuns(s)

AltSpec == AltInit /\ [][AltNext]_altVars

----------------------------------------------------------------------------
(* Properties. *)

\* Every variable holds a value of its type.
AltTypeOK ==
    /\ spin \in Cpus \cup {None} /\ batch \in Nat
    /\ rdmaInfo \in [Servers -> SUBSET Blocks]
    /\ checkList \subseteq Offsets /\ readList \subseteq Offsets
    /\ \A c \in Cpus : frame[c].page \in Content /\ frame[c].got \in Content
    /\ sendcq \in [Qps -> Seq([cpu : Cpus \cup {None}, ok : BOOLEAN])]
    /\ caller \in [Servers -> Cpus \cup {None}]
    /\ flight \in [Servers -> Seq(Page)]
    /\ stored \in [Offsets -> 0 .. MaxStores] /\ stores \in 0 .. MaxStores

\* The work and the completions of CPU c on queue pair q.
Owed(c, q) == Cardinality({i \in DOMAIN sendq[q] : sendq[q][i].cpu = c})
              + Cardinality({i \in DOMAIN sendcq[q] : sendcq[q][i].cpu = c})

\* Each CPU that polls is owed one completion, its own, and no completion points to
\* a frame that was left, until one fails: then a CPU may give up for another
\* (__ib_multicast_send, __ib_rdma_send and __ib_rpc on shared queues).
CompletionsReachOwners ==
    ~failed => \A c \in Cpus, q \in Qps :
        Owed(c, q) = IF Polling(c) /\ q = QpOf(c) THEN 1 ELSE 0

\* However many stores pass the check of a batch before they are counted, the batch
\* exceeds CONFIG_BATCH by less than the number of CPUs (ib.c:1190, ib.c:1211).
BatchOvershoot == batch + Cardinality(Uncounted) < DRIVER_BATCH + Cardinality(Cpus)

\* A store that returns success has sent its page: no load has left its offset on
\* read_list (ib.c:1199-1204).
StoreIsSent == \A c \in Cpus : At(c, "mark") => frame[c].page.off \notin readList

\* One CPU at a time calls the servers, unless a failed send let go of the lock.
CallsOneAtATime ==
    ~failed => \A c, d \in Cpus :
        {frame[c].pc, frame[d].pc} \subseteq {"opening", "committing"} => c = d

\* ib's batch and a server's count of it agree while every commit waits for the pages
\* let through before it; a load's commit of less than a batch is then never
\* answered, and the lock never released (ib.c:1255-1259).
BatchAgrees ==
    loaded = "ib" /\ ~failed /\ ~blurred => \A s \in Alive :
        \/ early[s] \/ clash[s]
        \/ rep[s] = "committed"
        \/ \E c \in Cpus : frame[c].pc \in {"commit", "committing"}
                           /\ s \notin Elems(frame[c].todo)
        \/ batch + Cardinality({c \in Cpus : At(c, "send")})
           = Len(sendq["mcast"]) + Len(flight[s]) + Len(cq[s])
             + srvBatch[s] + (IF flow[s] = None THEN 0 ELSE IF convey[s][flow[s].buf] THEN 0 ELSE 1)

AltCall(c) == IF At(c, "idle") THEN None
              ELSE [op |-> frame[c].op, page |-> frame[c].page, got |-> frame[c].got]
AltCalls == [c \in Cpus |-> AltCall(c)]

\* The offsets the loaded driver answers for: all of them, unless a send failed; ib
\* none if a commit missed a page, or was answered with nothing to commit.
Answerable ==
    {o \in Offsets : ~failed /\ (loaded = "ib" => ~blurred /\ \A s \in Servers : ~early[s])}

AltStore == INSTANCE SwapStore WITH
    begun <- stores, last <- stored, call <- AltCalls, vouched <- Answerable

\* Both drivers implement the frontswap backend the built one implements: cib because
\* a store returns after every server has the page, ib because a load waits for the
\* commit of its offset.
AltDriversImplementStore == AltStore!StoreSpec
=============================================================================
