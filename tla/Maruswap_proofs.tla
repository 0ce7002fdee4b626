-------------------------- MODULE Maruswap_proofs --------------------------
(***************************************************************************)
(* Proofs about the driver and the servers together.  Every step of the    *)
(* system is a step of the driver or none, and a step of one server or     *)
(* none: what was proved of each holds in the system.  On it rests what    *)
(* they promise together: that a commit is answered when the batch is in   *)
(* the servers' memories, by an account of the batch (what the driver      *)
(* counted in it is counted by the server, on its way to it, or lost); and *)
(* the refinement of the abstract store (the page a load must get is       *)
(* staged, or in the memory of every server).                              *)
(***************************************************************************)
EXTENDS Maruswap, SwapDriver_proofs, FarServer_proofs

NetworkTypeOK ==
    /\ flight \in [Servers -> Seq(Page)] /\ lost \in [Servers -> Nat]
    /\ broken \in [Servers -> BOOLEAN] /\ missed \in [Servers -> BOOLEAN]
    /\ batched \subseteq Page /\ skipped \subseteq Offsets

AnyServerStep == [\E s \in Servers : StepOf(s)]_serverVars

\* The driver calls a server, or takes what it answered.
ClientCalls(s) == TakeReply(s) \/ \E r \in Requests : Call(s, r)
AnyCall == [\E s \in Servers : ClientCalls(s)]_serverVars

\* A CPU in a call has the page the call is about.
LEMMA PageOfCall ==
    ASSUME DriverTypeOK, NEW c \in Cpus, pc[c] # "idle"
    PROVE  /\ arg[c] \in Page /\ arg[c].off \in Offsets /\ BlockOf[arg[c].off] \in Blocks
           /\ arg[c].ver \in Nat
<1>1. arg[c] \in Page
  BY DEF DriverTypeOK, Content
<1>2. QED
  BY <1>1, BlockOfAssumption, MaxStoresAssumption DEF Page

\* What is in a server's memory can be read, and what is on its way received.
LEMMA PageOfFlight ==
    ASSUME NetworkTypeOK, NEW s \in Servers, flight[s] # <<>>
    PROVE  Head(flight[s]) \in Page /\ Tail(flight[s]) \in Seq(Page)
<1>1. flight[s] \in Seq(Page)
  BY DEF NetworkTypeOK
<1>2. QED
  BY <1>1, HeadAndTail

\* A call that does not get through, or does not come back.
CallWithoutAnswer(c, s) == CallLost(c, s) \/ OpenFails(c, s) \/ CommitFails(c, s)

\* The server's end of it stays as it is; at most the connection breaks.
LEMMA WithoutAnswer ==
    ASSUME NetworkTypeOK, NEW c \in Cpus, NEW s \in Servers, CallWithoutAnswer(c, s)
    PROVE  /\ UNCHANGED <<serverVars, flight, lost, batched, skipped>>
           /\ \/ OpenCall(c, s) /\ UNCHANGED netVars
              \/ CommitCall(c, s) /\ UNCHANGED netVars
              \/ OpenReturn(c, s, FALSE) /\ CallFails(c, s) /\ UNCHANGED missed
              \/ CommitReturn(c, s, FALSE) /\ CallFails(c, s) /\ ~InTouch(s)'
           /\ \A t \in Servers :
                /\ broken[t] => broken'[t]
                /\ missed[t] => missed'[t]
                /\ t # s => broken'[t] = broken[t] /\ missed'[t] = missed[t]
           /\ NetworkTypeOK'
<1>1. CASE CallLost(c, s)
  BY <1>1 DEF CallLost, netVars, NetworkTypeOK
<1>2. ASSUME CallFails(c, s)
      PROVE  /\ \A t \in Servers : (broken[t] => broken'[t]) /\ (t # s => broken'[t] = broken[t])
             /\ broken' \in [Servers -> BOOLEAN]
  BY <1>2 DEF CallFails, NetworkTypeOK
<1>3. CASE OpenFails(c, s)
  <2>1. /\ OpenReturn(c, s, FALSE) /\ CallFails(c, s)
        /\ UNCHANGED <<serverVars, flight, missed, lost, batched, skipped>>
    BY <1>3 DEF OpenFails
  <2>2. NetworkTypeOK'
    BY <1>2, <2>1 DEF NetworkTypeOK
  <2>3. QED
    BY <1>2, <2>1, <2>2
<1>4. CASE CommitFails(c, s)
  <2>1. /\ CommitReturn(c, s, FALSE) /\ CallFails(c, s)
        /\ UNCHANGED <<serverVars, flight, lost, batched, skipped>>
        /\ missed' = [missed EXCEPT ![s] = @ \/ ~broken'[s]]
    BY <1>4 DEF CommitFails
  <2>2. /\ missed' \in [Servers -> BOOLEAN] /\ missed'[s] = (missed[s] \/ ~broken'[s])
        /\ \A t \in Servers : t # s => missed'[t] = missed[t]
    BY <2>1 DEF NetworkTypeOK
  <2>3. ~InTouch(s)'
    BY <2>2 DEF InTouch
  <2>4. NetworkTypeOK'
    BY <1>2, <2>1, <2>2 DEF NetworkTypeOK
  <2>5. QED
    BY <1>2, <2>1, <2>2, <2>3, <2>4
<1>5. QED
  BY <1>1, <1>3, <1>4 DEF CallWithoutAnswer

LEMMA CpuSteps ==
    ASSUME NetworkTypeOK, DriverTypeOK, FarTypeOK, NEW c \in Cpus, CpuStep(c)
    PROVE  DriverStep(c) /\ AnyCall
<1>1. CASE DriverAlone(c)
  BY <1>1, LocalCases DEF DriverAlone, AnyCall
<1>2. CASE Multicast(c)
  BY <1>2 DEF Multicast, DriverStep, AnyCall
<1>3. ASSUME NEW s \in Servers, CallOpen(c, s)
      PROVE  DriverStep(c) /\ AnyCall
  <2>1. pc[c] # "idle" /\ OpenCall(c, s)
    BY <1>3 DEF CallOpen, OpenCall
  <2>2. [op |-> "open", block |-> BlockOf[arg[c].off], count |-> 0] \in Requests
    BY <2>1, PageOfCall DEF Requests
  <2>3. ClientCalls(s)
    BY <1>3, <2>2 DEF CallOpen, ClientCalls
  <2>4. QED
    BY <2>1, <2>3 DEF DriverStep, RpcStep, AnyCall
<1>4. ASSUME NEW s \in Servers, CallCommit(c, s)
      PROVE  DriverStep(c) /\ AnyCall
  <2>1. [op |-> "commit", block |-> None, count |-> 0] \in Requests
    BY ServerBatchAssumption DEF Requests
  <2>2. ClientCalls(s)
    BY <1>4, <2>1 DEF CallCommit, ClientCalls
  <2>3. QED
    BY <1>4, <2>2 DEF CallCommit, DriverStep, RpcStep, AnyCall
<1>5. ASSUME NEW s \in Servers, OpenAnswered(c, s) \/ CommitAnswered(c, s)
      PROVE  DriverStep(c) /\ AnyCall
  BY <1>5 DEF OpenAnswered, CommitAnswered, DriverStep, RpcStep, AnyCall, ClientCalls
<1>6. ASSUME NEW s \in Servers, ReadRemote(c, s)
      PROVE  DriverStep(c) /\ AnyCall
  <2>1. arg[c].off \in Offsets
    BY <1>6, PageOfCall DEF ReadRemote
  <2>2. mem[s][arg[c].off] \in Content
    BY <2>1 DEF FarTypeOK
  <2>3. QED
    BY <1>6, <2>2 DEF ReadRemote, DriverStep, LoadStep, AnyCall
<1>7. ASSUME NEW s \in Servers, CallWithoutAnswer(c, s)
      PROVE  DriverStep(c) /\ AnyCall
  <2>1. FALSE \in BOOLEAN
    OBVIOUS
  <2>2. CASE CallLost(c, s)
    BY <1>7, <2>2 DEF CallLost, DriverStep, RpcStep, AnyCall
  <2>3. CASE OpenFails(c, s) \/ CommitFails(c, s)
    <3>1. (OpenReturn(c, s, FALSE) \/ CommitReturn(c, s, FALSE)) /\ UNCHANGED serverVars
      BY <2>3 DEF OpenFails, CommitFails
    <3>2. \E ok \in BOOLEAN : OpenReturn(c, s, ok) \/ CommitReturn(c, s, ok)
      BY <2>1, <3>1
    <3>3. RpcStep(c)
      BY <3>2 DEF RpcStep
    <3>4. QED
      BY <3>1, <3>3 DEF DriverStep, AnyCall
  <2>4. QED
    BY <1>7, <2>2, <2>3 DEF CallWithoutAnswer
<1>8. QED
  BY <1>1, <1>2, <1>3, <1>4, <1>5, <1>6, <1>7 DEF CpuStep, CallWithoutAnswer

\* The steps of the network and the servers.
NetStep(s) == Deliver(s) \/ Lose(s) \/ MulticastThreadAlone(s) \/ RdmaThreadAlone(s)

LEMMA NetSteps ==
    ASSUME NetworkTypeOK, NEW s \in Servers, NetStep(s)
    PROVE  UNCHANGED driverVars /\ AnyServerStep
<1>1. CASE Deliver(s)
  BY <1>1, PageOfFlight DEF Deliver, StepOf, AnyServerStep
<1>2. CASE Lose(s)
  BY <1>2 DEF Lose, AnyServerStep
<1>3. CASE MulticastThreadAlone(s) \/ RdmaThreadAlone(s)
  BY <1>3 DEF MulticastThreadAlone, RdmaThreadAlone, StepOf, AnyServerStep
<1>4. QED
  BY <1>1, <1>2, <1>3 DEF NetStep

LEMMA SystemSteps ==
    [Next]_vars => \/ \E c \in Cpus : CpuStep(c)
                   \/ \E s \in Servers : NetStep(s)
                   \/ UNCHANGED vars
BY DEF Next, NetStep, Done, DriverDone, vars, netVars

LEMMA Separate ==
    ASSUME DriverTypeOK, FarTypeOK, NetworkTypeOK, [Next]_vars
    PROVE  AnyDriverStep /\ AnyServerStep
<1>1. CASE \E c \in Cpus : CpuStep(c)
  BY <1>1, CpuSteps DEF AnyDriverStep, AnyServerStep, AnyCall, ClientCalls, StepOf
<1>2. CASE \E s \in Servers : NetStep(s)
  BY <1>2, NetSteps DEF AnyDriverStep
<1>3. CASE UNCHANGED vars
  BY <1>3 DEF vars, AnyDriverStep, AnyServerStep
<1>4. QED
  BY <1>1, <1>2, <1>3, SystemSteps

LEMMA NetworkTypeStep ==
    ASSUME DriverTypeOK, NetworkTypeOK, [Next]_vars
    PROVE  NetworkTypeOK'
<1> USE DEF NetworkTypeOK
<1>1. ASSUME NEW c \in Cpus, DriverAlone(c) PROVE NetworkTypeOK'
  <2>1. flight' = flight /\ lost' = lost /\ broken' = broken /\ missed' = missed
    BY <1>1 DEF DriverAlone
  <2>2. batched' \subseteq Page
    BY <1>1, PageOfCall DEF DriverAlone
  <2>3. skipped' \subseteq Offsets
    BY <1>1, PageOfCall DEF DriverAlone
  <2>4. QED
    BY <2>1, <2>2, <2>3
<1>2. ASSUME NEW c \in Cpus, Multicast(c) PROVE NetworkTypeOK'
  <2>1. arg[c] \in Page
    BY <1>2, PageOfCall DEF Multicast, Post
  <2>2. \A s \in Servers : Append(flight[s], arg[c]) \in Seq(Page)
    BY <2>1
  <2>3. QED
    BY <1>2, <2>2 DEF Multicast
<1>3. ASSUME UNCHANGED netVars PROVE NetworkTypeOK'
  BY <1>3 DEF netVars
<1>4. ASSUME NEW s \in Servers, Deliver(s) \/ Lose(s) PROVE NetworkTypeOK'
  <2>1. Tail(flight[s]) \in Seq(Page)
    BY <1>4, PageOfFlight DEF Deliver, Lose
  <2>2. lost[s] + 1 \in Nat
    OBVIOUS
  <2>3. QED
    BY <1>4, <2>1, <2>2 DEF Deliver, Lose
<1>5. ASSUME NEW c \in Cpus, NEW s \in Servers, CallWithoutAnswer(c, s) PROVE NetworkTypeOK'
  BY <1>5, WithoutAnswer
<1>6. QED
  BY <1>1, <1>2, <1>3, <1>4, <1>5, SystemSteps
     DEF CallWithoutAnswer, CpuStep, NetStep, CallOpen, OpenAnswered, CallCommit, CommitAnswered, ReadRemote,
         MulticastThreadAlone, RdmaThreadAlone, vars


----------------------------------------------------------------------------
(* What holds of the parts holds in the system. *)

PartsInv ==
    /\ DriverInv /\ LoadsConform /\ LoadsAskForLast
    /\ ServerInv
    /\ NetworkTypeOK

LEMMA PartsInit == Init => PartsInv
<1> SUFFICES ASSUME Init PROVE PartsInv
  OBVIOUS
<1>1. DriverInv /\ LoadsConform /\ LoadsAskForLast
  BY InvInit, LoadsInit DEF Init, DriverInit, LoadsAskForLast, LoadPcs
<1>2. ServerInv
  BY FarTypeInit, QueueInit DEF Init, ServerInv
<1>3. flight \in [Servers -> Seq(Page)]
  <2>1. <<>> \in Seq(Page)
    OBVIOUS
  <2>2. QED
    BY <2>1 DEF Init
<1>4. QED
  BY <1>1, <1>2, <1>3 DEF PartsInv, NetworkTypeOK, Init

LEMMA PartsTypes == PartsInv => DriverTypeOK /\ FarTypeOK /\ NetworkTypeOK
BY DEF PartsInv, DriverInv, ServerInv

LEMMA PartsStep == PartsInv /\ [Next]_vars => PartsInv'
<1> SUFFICES ASSUME PartsInv, [Next]_vars PROVE PartsInv'
  OBVIOUS
<1>1. AnyDriverStep /\ AnyServerStep
  BY PartsTypes, Separate
<1>2. (DriverInv /\ LoadsConform /\ LoadsAskForLast)'
  BY <1>1, InvStep, LoadsStep, AskStep DEF PartsInv
<1>3. ServerInv'
  BY <1>1, ServerInvStep DEF PartsInv, AnyServerStep
<1>4. NetworkTypeOK'
  BY PartsTypes, NetworkTypeStep
<1>5. QED
  BY <1>2, <1>3, <1>4 DEF PartsInv

\* Neither part of the system takes the other out of its invariant.
THEOREM PartsInvariant == Spec => []PartsInv
BY PartsInit, PartsStep, PTL DEF Spec

\* Every variable of the system keeps its type: the driver's, the servers', and
\* the pages on their way between them.
THEOREM SystemTypes == Spec => []TypeOK
<1>1. PartsInv => TypeOK
  BY PartsTypes DEF TypeOK, NetworkTypeOK
<1>2. QED
  BY <1>1, PartsInvariant, PTL

\* With real servers behind it the driver still keeps ctrl.batch within
\* CONFIG_BATCH (maruswap_multicast_write).
THEOREM SystemBoundsBatch == Spec => []BatchBound
<1>1. PartsInv => BatchBound
  BY DEF PartsInv, DriverInv, RoomInBatch
<1>2. QED
  BY <1>1, PartsInvariant, PTL

\* Whatever the driver multicasts, the network loses and the driver commits,
\* no server loses a receive buffer or posts one twice (__process_multicast_rpc_flow,
\* __process_rdma_rpc_commit).
THEOREM SystemConservesBuffers == Spec => []BuffersConserved
<1>1. PartsInv => BuffersConserved
  BY InvConserves DEF PartsInv
<1>2. QED
  BY <1>1, PartsInvariant, PTL

\* Driver and servers together are a frontswap backend for the offsets the
\* driver has staged (maruswap_multicast_write, maruswap_rdma_read): here a load
\* that misses the stage gets what the server's memory really holds.
THEOREM SystemRefinesStagedStore == Spec => DriverImplementsStore
<1>1. PartsInv /\ [Next]_vars => [StagedStore!StoreNext]_(StagedStore!storeVars)
  <2>1. PartsInv /\ [Next]_vars => AnyDriverStep
    BY PartsTypes, Separate
  <2>2. QED
    BY <2>1, StoreStep DEF PartsInv
<1>2. Init => StagedStore!StoreInit
  BY StoreInits DEF Init
<1>3. QED
  BY <1>1, <1>2, PartsInvariant, PTL DEF Spec, DriverImplementsStore, StagedStore!StoreSpec


----------------------------------------------------------------------------
(* What the driver's own steps do to a call. *)

\* The pcs at which a call waits for a server's answer ...
RpcPcs == {"opening", "committing"}

\* ... and those of a store whose page is not sent yet.
Unsent == {"lock"} \cup SpinPcs \cup {"post"}

OnlyCpu(c) ==
    \A d \in Cpus \ {c} : /\ pc'[d] = pc[d] /\ arg'[d] = arg[d]
                          /\ todo'[d] = todo[d] /\ err'[d] = err[d]

SameCall(c) == arg'[c] = arg[c] /\ err'[c] = err[c]

StoreStarts(c) ==
    /\ pc[c] = "idle" /\ pc'[c] = "lock"
    /\ \E o \in Offsets : arg'[c] = [off |-> o, ver |-> stores + 1] /\ ~Busy(o)
    /\ stores' = stores + 1
    /\ err'[c] = err[c]

LockTaken(c) ==
    /\ pc[c] = "lock" /\ SameCall(c)
    /\ \/ pc'[c] = "open" /\ todo'[c] = AliveOrder
       \/ pc'[c] = "check" /\ \A s \in Servers : BlockOf[arg[c].off] \in rdmaInfo[s]

ServerSkipped(c) ==
    /\ pc[c] = "open" /\ pc'[c] = "open" /\ todo[c] # <<>> /\ SameCall(c)
    /\ BlockOf[arg[c].off] \in rdmaInfo[Head(todo[c])]
    /\ todo'[c] = Tail(todo[c])

AllOpen(c) ==
    pc[c] = "open" /\ todo[c] = <<>> /\ ~err[c] /\ pc'[c] = "check" /\ SameCall(c)

MovesToPost(c) ==
    /\ pc[c] \in {"check", "commit", "reset", "reserve"}
    /\ pc'[c] \in {"commit", "reset", "reserve", "post"} /\ SameCall(c)

\* The store is over, or its page is sent, or there is none.
Elsewhere(c) ==
    /\ pc[c] \notin RpcPcs /\ pc'[c] \notin Unsent
    /\ err'[c] \in {err[c], FALSE}

LEMMA ReturnMoves ==
    ASSUME DriverTypeOK, NEW c \in Cpus, Return(c), pc[c] \notin RpcPcs
    PROVE  OnlyCpu(c) /\ Elsewhere(c)
BY DEF Return, Goto, DriverTypeOK, OnlyCpu, Elsewhere, Unsent, SpinPcs

LEMMA LocalMoves ==
    ASSUME DriverTypeOK, NEW c \in Cpus, LocalStep(c)
    PROVE  /\ OnlyCpu(c) /\ rdmaInfo' = rdmaInfo
           /\ StoreStarts(c) \/ stores' >= stores
           /\ \/ StoreStarts(c) \/ LockTaken(c) \/ ServerSkipped(c) \/ AllOpen(c)
              \/ MovesToPost(c) \/ Elsewhere(c)
<1> USE DEF lockVars, stageVars, callVars, swapVars, Goto, OnlyCpu, SameCall, RpcPcs, Unsent, SpinPcs
<1>0. stores \in Int /\ stores >= stores
  BY MaxStoresAssumption DEF DriverTypeOK
<1>1. ASSUME NEW o \in Offsets, StoreBegin(c, o) PROVE OnlyCpu(c) /\ rdmaInfo' = rdmaInfo /\ StoreStarts(c)
  BY <1>1 DEF StoreBegin, DriverTypeOK, StoreStarts
<1>2. ASSUME NEW o \in Offsets, StoreUnmapped(c, o) \/ LoadBegin(c, o)
      PROVE  OnlyCpu(c) /\ rdmaInfo' = rdmaInfo /\ stores' >= stores /\ Elsewhere(c)
  <2>1. /\ todo' = todo /\ err' = err /\ rdmaInfo' = rdmaInfo /\ stores' \in {stores, stores + 1}
        /\ pc[c] = "idle" /\ pc'[c] \in {"idle", "load"}
        /\ \A d \in Cpus : d # c => pc'[d] = pc[d] /\ arg'[d] = arg[d]
    BY <1>2 DEF StoreUnmapped, LoadBegin, DriverTypeOK
  <2>2. stores' >= stores
    BY <1>0, <2>1
  <2>3. QED
    BY <2>1, <2>2 DEF Elsewhere
<1>3. CASE EnterWrite(c)
  <2>1. stores' = stores /\ rdmaInfo' = rdmaInfo /\ OnlyCpu(c)
    BY <1>3 DEF EnterWrite, DriverTypeOK
  <2>2. LockTaken(c)
    BY <1>3 DEF EnterWrite, DriverTypeOK, LockTaken, check_rdma_info
  <2>3. QED
    BY <1>0, <2>1, <2>2
<1>4. ASSUME NEW s \in Servers, OpenSkip(c, s)
      PROVE  OnlyCpu(c) /\ rdmaInfo' = rdmaInfo /\ stores' >= stores /\ ServerSkipped(c)
  BY <1>0, <1>4 DEF OpenSkip, NextServer, DriverTypeOK, ServerSkipped
<1>5. CASE OpenDone(c)
  BY <1>0, <1>5 DEF OpenDone, DriverTypeOK, AllOpen
<1>6. CASE CheckBatch(c) \/ ClearStage(c) \/ Reserve(c)
  BY <1>0, <1>6 DEF CheckBatch, ClearStage, Reserve, DriverTypeOK, MovesToPost
<1>7. CASE ResetCount(c)
  <2>1. stores' = stores /\ rdmaInfo' = rdmaInfo /\ pc[c] = "reset"
    BY <1>7 DEF ResetCount, StoreResult
  <2>2. CASE err[c]
    BY <1>0, <1>7, <2>1, <2>2, ReturnMoves DEF ResetCount, StoreResult
  <2>3. CASE ~err[c]
    BY <1>0, <1>7, <2>1, <2>3 DEF ResetCount, DriverTypeOK, MovesToPost
  <2>4. QED
    BY <2>2, <2>3
<1>8. ASSUME OpenFailed(c) \/ PostFails(c) \/ LoadDone(c)
             \/ (\E ok \in Outcomes("send") : PollSend(c, ok)) \/ \E s \in Servers : ReadFails(c, s)
      PROVE  OnlyCpu(c) /\ rdmaInfo' = rdmaInfo /\ stores' >= stores /\ Elsewhere(c)
  <2>1. /\ Return(c) /\ stores' = stores /\ rdmaInfo' = rdmaInfo
        /\ pc[c] \in {"open", "post", "loaded", "poll", "read"}
    BY <1>8 DEF OpenFailed, PostFails, LoadDone, PollSend, ReadFails, StoreResult
  <2>2. QED
    BY <1>0, <2>1, ReturnMoves
<1>9. ASSUME StageFull(c) \/ StageStore(c) \/ StageUnlocks(c) \/ StageRetakes(c)
             \/ CountLoad(c) \/ CountStore(c) \/ StageHit(c) \/ StageMiss(c) \/ ReadHangs(c)
      PROVE  OnlyCpu(c) /\ rdmaInfo' = rdmaInfo /\ stores' >= stores /\ Elsewhere(c)
  <2>1. /\ arg' = arg /\ todo' = todo /\ err' = err /\ stores' = stores /\ rdmaInfo' = rdmaInfo
        /\ pc[c] \in {"stage", "retake", "count", "add", "load", "read"}
        /\ \E l \in {"poll", "count", "retake", "add", "loaded", "read", "hung"} :
             pc' = [pc EXCEPT ![c] = l]
    BY <1>9 DEF StageFull, StageStore, StageUnlocks, StageRetakes, TakeSlot, CountLoad, CountStore,
       StageHit, StageMiss, ReadHangs
  <2>2. QED
    BY <1>0, <2>1 DEF DriverTypeOK, Elsewhere
<1>10. QED
  BY <1>1, <1>2, <1>3, <1>4, <1>5, <1>6, <1>7, <1>8, <1>9 DEF LocalStep


----------------------------------------------------------------------------
(* __ib_rpc: one call at a time on a server's connection, by the CPU that  *)
(* holds ctrl.spinlock.                                                    *)

OpenRequest(b) == [op |-> "open", block |-> b, count |-> 0]
CommitRequest == [op |-> "commit", block |-> None, count |-> 0]

Calls(c, s) == pc[c] \in RpcPcs /\ NextServer(c, s)

\* The request was lost, or the server has it, or has answered it.
Answering(c, s) ==
    LET b == BlockOf[arg[c].off] IN
    \/ req[s] = None /\ rep[s] = None
    \/ IF pc[c] = "opening"
       THEN \/ req[s] = OpenRequest(b) /\ rep[s] = None
            \/ req[s] = None /\ rep[s] = "opened" /\ b \in blocks[s]
       ELSE \/ req[s] = CommitRequest /\ rep[s] = None
            \/ req[s] = None /\ rep[s] = "committed"

\* Only a commit keeps the rdma thread busy.
Asked(s) ==
    /\ rpcPc[s] # "idle" => req[s] = CommitRequest
    /\ req[s] \in {None, CommitRequest} \/ req[s].op = "open"

\* On a connection that works a server answers the CPU that calls it; on a broken
\* one it may work on, for nobody.
CallsAnswered ==
    /\ \A c \in Cpus : pc[c] \in RpcPcs => todo[c] # <<>>
    /\ \A s \in Servers :
         ~broken[s] /\ (req[s] # None \/ rep[s] # None) => \E c \in Cpus : Calls(c, s)
    /\ \A s \in Servers : Asked(s)
    /\ \A c \in Cpus, s \in Servers : Calls(c, s) /\ ~broken[s] => Answering(c, s)

\* The spinlock has one holder.
LEMMA OneHolder ==
    ASSUME DriverInv, NEW c \in Cpus, NEW d \in Cpus, pc[c] \in SpinPcs, pc[d] \in SpinPcs
    PROVE  c = d
BY DEF DriverInv, LocksHeld

LEMMA RequestsNotNone ==
    ASSUME NEW b \in Blocks
    PROVE  /\ OpenRequest(b) # None /\ CommitRequest # None
           /\ OpenRequest(b) # CommitRequest
<1>1. OpenRequest(b) \in Requests /\ CommitRequest \in Requests
  BY ServerBatchAssumption DEF Requests, OpenRequest, CommitRequest
<1>2. OpenRequest(b).op = "open" /\ CommitRequest.op = "commit"
  BY DEF OpenRequest, CommitRequest
<1>3. QED
  BY <1>1, <1>2, NoRequestAssumption

\* A step that leaves every call and its server's end of it as they are.
LEMMA SameCalls ==
    ASSUME CallsAnswered, UNCHANGED <<req, rep, rpcPc>>,
           \A s \in Servers : broken[s] => broken'[s],
           \A s \in Servers : blocks[s] \subseteq blocks'[s],
           \A d \in Cpus : pc[d] \in RpcPcs \/ pc'[d] \in RpcPcs =>
             pc'[d] = pc[d] /\ arg'[d] = arg[d] /\ todo'[d] = todo[d]
    PROVE  CallsAnswered'
<1>1. \A d \in Cpus, s \in Servers : Calls(d, s)' <=> Calls(d, s)
  BY DEF Calls, NextServer
<1>2. \A d \in Cpus, s \in Servers : Calls(d, s) /\ Answering(d, s) => Answering(d, s)'
  BY DEF Calls, Answering
<1>3. \A c \in Cpus : pc'[c] \in RpcPcs => todo'[c] # <<>>
  BY DEF CallsAnswered
<1>4. \A s \in Servers :
        ~broken'[s] /\ (req'[s] # None \/ rep'[s] # None) => \E c \in Cpus : Calls(c, s)'
  BY <1>1 DEF CallsAnswered
<1>5. \A s \in Servers : Asked(s)'
  BY DEF CallsAnswered, Asked
<1>6. QED
  BY <1>1, <1>2, <1>3, <1>4, <1>5 DEF CallsAnswered

\* The driver posts a request.
LEMMA CallPosted ==
    ASSUME PartsInv, CallsAnswered, NEW c \in Cpus, NEW s \in Servers,
           CallOpen(c, s) \/ CallCommit(c, s)
    PROVE  CallsAnswered'
<1>0. DriverTypeOK /\ FarTypeOK
  BY PartsTypes
<1>1. /\ pc[c] \in {"open", "commit"} /\ NextServer(c, s) /\ todo' = todo /\ arg' = arg
      /\ pc' = [pc EXCEPT ![c] = IF pc[c] = "open" THEN "opening" ELSE "committing"]
      /\ req[s] = None /\ rep[s] = None /\ rep' = rep /\ rpcPc' = rpcPc /\ blocks' = blocks
      /\ broken' = broken
      /\ req' = [req EXCEPT ![s] = IF pc[c] = "open" THEN OpenRequest(BlockOf[arg[c].off])
                                                      ELSE CommitRequest]
  BY DEF CallOpen, CallCommit, OpenCall, CommitCall, Call, Goto, rmhVars, netVars, OpenRequest,
     CommitRequest
<1>2. BlockOf[arg[c].off] \in Blocks
  BY <1>0, <1>1, PageOfCall
<1>3. rpcPc[s] = "idle"
  BY <1>1, <1>2, RequestsNotNone DEF CallsAnswered, Asked
<1>4. \A d \in Cpus : d # c => pc[d] \notin RpcPcs /\ pc'[d] = pc[d]
  BY <1>0, <1>1, OneHolder DEF PartsInv, RpcPcs, SpinPcs, DriverTypeOK
<1>5. pc'[c] \in RpcPcs /\ pc[c] \notin RpcPcs /\ pc'[c] = IF pc[c] = "open" THEN "opening" ELSE "committing"
  BY <1>0, <1>1 DEF RpcPcs, DriverTypeOK
<1>6. Calls(c, s)'
  BY <1>1, <1>5 DEF Calls, NextServer
<1>7. \A d \in Cpus, t \in Servers : Calls(d, t)' => d = c /\ t = s
  BY <1>1, <1>4, <1>5 DEF Calls, NextServer
<1>8. \A d \in Cpus, t \in Servers : ~Calls(d, t)
  BY <1>4, <1>5 DEF Calls
<1>9. \A t \in Servers : ~broken[t] => req[t] = None /\ rep[t] = None
  BY <1>8 DEF CallsAnswered
<1>10. Answering(c, s)'
  BY <1>0, <1>1, <1>5 DEF Answering, FarTypeOK, RpcPcs
<1>11. \A t \in Servers : ~broken'[t] /\ (req'[t] # None \/ rep'[t] # None) => t = s
  BY <1>0, <1>1, <1>9 DEF FarTypeOK
<1>12. \A t \in Servers : Asked(t)'
  <2>1. \A t \in Servers : t # s => req'[t] = req[t] /\ rpcPc'[t] = rpcPc[t]
    BY <1>0, <1>1 DEF FarTypeOK
  <2>2. req'[s] \in {CommitRequest, OpenRequest(BlockOf[arg[c].off])} /\ rpcPc'[s] = "idle"
    BY <1>0, <1>1, <1>3 DEF FarTypeOK
  <2>3. OpenRequest(BlockOf[arg[c].off]).op = "open"
    BY DEF OpenRequest
  <2>4. QED
    BY <2>1, <2>2, <2>3 DEF CallsAnswered, Asked
<1>13. \A d \in Cpus : pc'[d] \in RpcPcs => todo'[d] # <<>>
  BY <1>1, <1>4, <1>5 DEF NextServer
<1>14. QED
  BY <1>6, <1>7, <1>10, <1>11, <1>12, <1>13 DEF CallsAnswered

\* The driver takes the answer.
LEMMA ReplyTaken ==
    ASSUME PartsInv, CallsAnswered, NEW c \in Cpus, NEW s \in Servers,
           OpenAnswered(c, s) \/ CommitAnswered(c, s)
    PROVE  CallsAnswered' /\ Calls(c, s) /\ req[s] = None
<1>0. DriverTypeOK /\ FarTypeOK
  BY PartsTypes
<1>1. /\ pc[c] \in RpcPcs /\ NextServer(c, s)
      /\ pc' = [pc EXCEPT ![c] = IF pc[c] = "opening" THEN "open" ELSE "commit"]
      /\ rep[s] # None /\ rep' = [rep EXCEPT ![s] = None] /\ req' = req /\ rpcPc' = rpcPc
      /\ ~broken[s] /\ broken' = broken
  BY DEF OpenAnswered, CommitAnswered, OpenReturn, CommitReturn, TakeReply, Goto, RpcPcs, netVars
<1>2. \A d \in Cpus : pc'[d] \notin RpcPcs
  BY <1>0, <1>1, OneHolder DEF PartsInv, RpcPcs, SpinPcs, DriverTypeOK
<1>3. \A d \in Cpus : pc[d] \in RpcPcs => d = c
  BY <1>1, OneHolder DEF PartsInv, RpcPcs, SpinPcs
<1>4. Calls(c, s) /\ \A d \in Cpus, t \in Servers : Calls(d, t) => d = c /\ t = s
  BY <1>1, <1>3 DEF Calls, NextServer
<1>5. req[s] = None
  <2>1. Answering(c, s)
    BY <1>1, <1>4 DEF CallsAnswered
  <2>2. QED
    BY <1>1, <2>1 DEF Answering
<1>6. \A t \in Servers : ~broken'[t] => req'[t] = None /\ rep'[t] = None
  <2>1. \A t \in Servers : t # s /\ ~broken[t] => req[t] = None /\ rep[t] = None
    BY <1>4 DEF CallsAnswered
  <2>2. QED
    BY <1>0, <1>1, <1>5, <2>1 DEF FarTypeOK
<1>7. \A t \in Servers : Asked(t)'
  BY <1>1 DEF CallsAnswered, Asked
<1>8. \A d \in Cpus, t \in Servers : ~Calls(d, t)'
  BY <1>2 DEF Calls
<1>9. QED
  BY <1>2, <1>4, <1>5, <1>6, <1>7, <1>8 DEF CallsAnswered

\* A call that gets no answer leaves none behind on a connection that works.
LEMMA CallsWithoutAnswer ==
    ASSUME PartsInv, CallsAnswered, NEW c \in Cpus, NEW s \in Servers, CallWithoutAnswer(c, s)
    PROVE  CallsAnswered'
<1>0. DriverTypeOK /\ FarTypeOK /\ NetworkTypeOK
  BY PartsTypes
<1>1. /\ UNCHANGED <<req, rep, rpcPc, blocks>>
      /\ \A t \in Servers : broken[t] => broken'[t]
      /\ \A t \in Servers : t # s => broken'[t] = broken[t]
  BY <1>0, WithoutAnswer DEF serverVars, rpcVars, rmhVars
<1>2. /\ NextServer(c, s) /\ pc[c] \in {"open", "commit", "opening", "committing"}
      /\ \A d \in Cpus : d # c => pc'[d] = pc[d] /\ todo'[d] = todo[d]
      /\ IF pc[c] \in RpcPcs THEN pc'[c] \notin RpcPcs /\ CallFails(c, s)
                             ELSE todo'[c] = todo[c] /\ UNCHANGED broken
  BY <1>0, WithoutAnswer DEF OpenCall, CommitCall, OpenReturn, CommitReturn, Goto, RpcPcs, DriverTypeOK,
     netVars
<1>3. \A d \in Cpus : d # c => pc[d] \notin RpcPcs /\ pc'[d] \notin RpcPcs
  BY <1>0, <1>2, OneHolder DEF PartsInv, RpcPcs, SpinPcs
<1>4. \A d \in Cpus : pc'[d] \in RpcPcs => todo'[d] # <<>>
  BY <1>2, <1>3 DEF NextServer
<1>5. \A d \in Cpus, t \in Servers : Calls(d, t) => d = c /\ t = s
  BY <1>2, <1>3 DEF Calls, NextServer
<1>6. \A t \in Servers : ~broken'[t] => req'[t] = None /\ rep'[t] = None
  <2>1. \A t \in Servers : t # s /\ ~broken[t] => req[t] = None /\ rep[t] = None
    BY <1>5 DEF CallsAnswered
  <2>2. CASE pc[c] \in RpcPcs
    <3>1. broken'[s] \/ (req[s] = None /\ rep[s] = None)
      BY <1>0, <1>2, <2>2 DEF CallFails, NetworkTypeOK
    <3>2. QED
      BY <1>1, <2>1, <3>1
  <2>3. CASE pc[c] \notin RpcPcs
    <3>1. ~broken[s] => req[s] = None /\ rep[s] = None
      BY <1>5, <2>3 DEF CallsAnswered, Calls
    <3>2. QED
      BY <1>1, <2>1, <3>1
  <2>4. QED
    BY <2>2, <2>3
<1>7. \A t \in Servers : Asked(t)'
  BY <1>1 DEF CallsAnswered, Asked
<1>8. \A d \in Cpus, t \in Servers : Calls(d, t)' /\ ~broken'[t] => Answering(d, t)'
  BY <1>6 DEF Answering
<1>9. QED
  BY <1>4, <1>6, <1>7, <1>8 DEF CallsAnswered


\* A server's blocks stay.
LEMMA BlocksStay ==
    ASSUME FarTypeOK, AnyServerStep
    PROVE  \A s \in Servers : blocks[s] \subseteq blocks'[s]
<1>1. ASSUME NEW s \in Servers, StepOf(s), NEW t \in Servers PROVE blocks[t] \subseteq blocks'[t]
  BY <1>1, BlocksGrow
<1>2. QED
  BY <1>1 DEF AnyServerStep, serverVars, rmhVars

\* The rdma thread works on the request of the one who calls.
LEMMA RequestServed ==
    ASSUME PartsInv, CallsAnswered, NEW s \in Servers, RdmaThreadAlone(s)
    PROVE  CallsAnswered'
<1>0. DriverTypeOK /\ FarTypeOK
  BY PartsTypes
<1>1. /\ RdmaThread(s) /\ UNCHANGED driverVars /\ broken' = broken
      /\ \A d \in Cpus, t \in Servers : Calls(d, t)' <=> Calls(d, t)
  BY DEF RdmaThreadAlone, driverVars, callVars, netVars, Calls, NextServer
<1>2. StepOf(s) /\ pc' = pc /\ arg' = arg /\ todo' = todo
  BY <1>1 DEF StepOf, driverVars, callVars
<1>3. \A t \in Servers : blocks[t] \subseteq blocks'[t]
  BY <1>0, <1>2, BlocksStay DEF AnyServerStep
<1>4. \A t \in Servers : t # s => rpcPc'[t] = rpcPc[t] /\ req'[t] = req[t] /\ rep'[t] = rep[t]
  BY <1>0, <1>1 DEF RdmaThread, ServeOpen, CommitEmpty, CommitBegin, CommitConvey, CommitPutback,
     CommitReset, FarTypeOK
<1>5. Asked(s)
  BY DEF CallsAnswered
<1>6. req[s] # None
  <2>1. CommitRequest # None
    BY ServerBatchAssumption, NoRequestAssumption DEF Requests, CommitRequest
  <2>2. QED
    BY <1>1, <1>5, <2>1 DEF Asked, RdmaThread, ServeOpen, CommitEmpty, CommitBegin, CommitConvey,
       CommitPutback, CommitReset, IsCommit
\* What the step makes of the request.
<1>7. \/ /\ req[s].op = "open" /\ req'[s] = None /\ rep'[s] = "opened" /\ rpcPc'[s] = "idle"
         /\ blocks'[s] = blocks[s] \cup {req[s].block}
      \/ req[s] = CommitRequest /\ req'[s] = None /\ rep'[s] = "committed" /\ rpcPc'[s] = "idle"
      \/ req[s] = CommitRequest /\ req'[s] = req[s] /\ rep'[s] = rep[s]
  <2>1. CASE ServeOpen(s)
    BY <1>0, <2>1 DEF ServeOpen, FarTypeOK
  <2>2. CASE CommitEmpty(s) \/ CommitBegin(s)
    <3>1. req[s].op \in {"commit", "qcommit"}
      BY <2>2 DEF CommitEmpty, CommitBegin, IsCommit
    <3>2. req[s] = CommitRequest
      BY <1>5, <1>6, <3>1 DEF Asked
    <3>3. QED
      BY <1>0, <2>2, <3>2 DEF CommitEmpty, CommitBegin, FarTypeOK
  <2>3. CASE CommitConvey(s) \/ CommitPutback(s) \/ CommitReset(s)
    <3>1. req[s] = CommitRequest
      BY <1>5, <2>3 DEF Asked, CommitConvey, CommitPutback, CommitReset
    <3>2. QED
      BY <1>0, <2>3, <3>1 DEF CommitConvey, CommitPutback, CommitReset, FarTypeOK
  <2>4. QED
    BY <1>1, <2>1, <2>2, <2>3 DEF RdmaThread
<1>8. \A t \in Servers : Asked(t)'
  <2>1. Asked(s)'
    BY <1>5, <1>7 DEF Asked
  <2>2. QED
    BY <1>4, <2>1 DEF CallsAnswered, Asked
<1>9. \A d \in Cpus, t \in Servers : t # s /\ Calls(d, t) /\ ~broken[t] => Answering(d, t)'
  BY <1>2, <1>3, <1>4 DEF CallsAnswered, Answering
<1>10. ASSUME NEW d \in Cpus, Calls(d, s), ~broken[s] PROVE Answering(d, s)'
  <2>1. /\ Answering(d, s) /\ rep[s] = None
        /\ req[s] = IF pc[d] = "opening" THEN OpenRequest(BlockOf[arg[d].off]) ELSE CommitRequest
    BY <1>6, <1>10 DEF CallsAnswered, Answering
  <2>2. BlockOf[arg[d].off] \in Blocks
    BY <1>0, <1>10, PageOfCall DEF Calls, RpcPcs
  <2>3. CASE pc[d] = "opening"
    <3>1. req[s] # CommitRequest /\ req[s].block = BlockOf[arg[d].off]
      BY <2>1, <2>2, <2>3, RequestsNotNone DEF OpenRequest
    <3>2. QED
      BY <1>2, <1>7, <2>3, <3>1 DEF Answering
  <2>4. CASE pc[d] # "opening"
    <3>1. req[s].op # "open"
      BY <2>1, <2>4 DEF CommitRequest
    <3>2. QED
      BY <1>2, <1>7, <2>1, <2>4, <3>1 DEF Answering
  <2>5. QED
    BY <2>3, <2>4
<1>11. ASSUME NEW t \in Servers, ~broken[t], req'[t] # None \/ rep'[t] # None
       PROVE  \E d \in Cpus : Calls(d, t)
  <2>1. CASE t = s
    BY <1>6, <1>11, <2>1 DEF CallsAnswered
  <2>2. CASE t # s
    BY <1>4, <1>11, <2>2 DEF CallsAnswered
  <2>3. QED
    BY <2>1, <2>2
<1>12. \A d \in Cpus : pc'[d] \in RpcPcs => todo'[d] # <<>>
  BY <1>2 DEF CallsAnswered
<1>13. QED
  BY <1>1, <1>8, <1>9, <1>10, <1>11, <1>12 DEF CallsAnswered

LEMMA CallsStep == PartsInv /\ CallsAnswered /\ [Next]_vars => CallsAnswered'
<1> SUFFICES ASSUME PartsInv, CallsAnswered, [Next]_vars PROVE CallsAnswered'
  OBVIOUS
<1>0. DriverTypeOK /\ FarTypeOK /\ NetworkTypeOK
  BY PartsTypes
<1>1. \A s \in Servers : blocks[s] \subseteq blocks'[s]
  BY <1>0, Separate, BlocksStay
<1>2. ASSUME NEW c \in Cpus, DriverAlone(c) PROVE CallsAnswered'
  <2>1. UNCHANGED <<req, rep, rpcPc, broken>>
    BY <1>2 DEF DriverAlone, serverVars, rpcVars
  <2>2. OnlyCpu(c) /\ pc[c] \notin RpcPcs /\ pc'[c] \notin RpcPcs
    BY <1>0, <1>2, LocalMoves DEF DriverAlone, StoreStarts, LockTaken, ServerSkipped, AllOpen,
       MovesToPost, Elsewhere, RpcPcs, Unsent, SpinPcs
  <2>3. QED
    BY <1>1, <2>1, <2>2, SameCalls DEF OnlyCpu
<1>3. ASSUME NEW c \in Cpus, Multicast(c) \/ \E s \in Servers : ReadRemote(c, s)
      PROVE  CallsAnswered'
  <2>1. UNCHANGED <<req, rep, rpcPc, broken>> /\ arg' = arg /\ todo' = todo
    BY <1>3 DEF Multicast, ReadRemote, Post, RdmaRead, serverVars, rpcVars, netVars
  <2>2. pc[c] \in {"post", "read"} /\ pc' \in {[pc EXCEPT ![c] = "stage"], [pc EXCEPT ![c] = "loaded"]}
    BY <1>3 DEF Multicast, ReadRemote, Post, RdmaRead, Goto
  <2>3. \A d \in Cpus : pc[d] \in RpcPcs \/ pc'[d] \in RpcPcs => pc'[d] = pc[d]
    BY <1>0, <2>2 DEF DriverTypeOK, RpcPcs
  <2>4. QED
    BY <1>1, <2>1, <2>3, SameCalls
<1>4. ASSUME NEW c \in Cpus, CpuStep(c) PROVE CallsAnswered'
  BY <1>2, <1>3, <1>4, CallPosted, ReplyTaken, CallsWithoutAnswer DEF CpuStep, CallWithoutAnswer
<1>5. ASSUME NEW s \in Servers, Deliver(s) \/ Lose(s) \/ MulticastThreadAlone(s)
      PROVE  CallsAnswered'
  <2>1. UNCHANGED <<req, rep, rpcPc, pc, arg, todo, broken>>
    BY <1>5 DEF Deliver, Lose, MulticastThreadAlone, MulticastThread, FlowAdd, FlowConvey, Receive,
       driverVars, callVars, serverVars, rpcVars, netVars
  <2>2. QED
    BY <1>1, <2>1, SameCalls
<1>6. CASE UNCHANGED vars
  BY <1>1, <1>6, SameCalls DEF vars, driverVars, callVars, serverVars, rpcVars, netVars
<1>7. QED
  BY <1>4, <1>5, <1>6, RequestServed, SystemSteps DEF NetStep


----------------------------------------------------------------------------
(* ib_rpc_open_all: a page is sent to the servers that have its block.     *)

KnowsBlock(c, s) == BlockOf[arg[c].off] \in rdmaInfo[s]

\* The store of CPU c has opened the block at every server it will send to, or
\* is about to, or one of the calls failed and it will send nothing.
Opens(c) ==
    /\ pc[c] \in {"open", "opening"} /\ ~err[c] =>
         \A s \in Alive : s \in Elems(todo[c]) \/ KnowsBlock(c, s)
    /\ pc[c] \in {"check", "commit", "committing", "reset", "reserve", "post"} =>
         \A s \in Alive : KnowsBlock(c, s)

BlocksKnown ==
    /\ \A s \in Servers : rdmaInfo[s] \subseteq blocks[s]
    /\ \A c \in Cpus : Opens(c)

LEMMA AliveAreServers == Alive = Elems(AliveOrder) /\ Alive \subseteq Servers
BY AliveOrderAssumption, ElemsOfSeq DEF Alive, Elems

LEMMA OthersOpen ==
    ASSUME BlocksKnown, NEW d \in Cpus, pc'[d] = pc[d], arg'[d] = arg[d], todo'[d] = todo[d],
           err'[d] = err[d], \A s \in Servers : rdmaInfo[s] \subseteq rdmaInfo'[s]
    PROVE  Opens(d)'
BY AliveAreServers DEF BlocksKnown, Opens, KnowsBlock

LEMMA HeadOfTodo ==
    ASSUME DriverTypeOK, NEW c \in Cpus, todo[c] # <<>>
    PROVE  /\ Head(todo[c]) \in Servers
           /\ Elems(todo[c]) = {Head(todo[c])} \cup Elems(Tail(todo[c]))
<1>1. todo[c] \in Seq(Servers)
  BY DEF DriverTypeOK
<1>2. QED
  BY <1>1, HeadAndTail

\* The driver's own steps.
LEMMA LocalOpens ==
    ASSUME DriverTypeOK, BlocksKnown, NEW c \in Cpus, LocalStep(c)
    PROVE  \A d \in Cpus : Opens(d)'
<1>1. OnlyCpu(c) /\ rdmaInfo' = rdmaInfo
  BY LocalMoves
<1>2. Opens(c)
  BY DEF BlocksKnown
<1> USE DEF Opens, KnowsBlock
<1>3. ASSUME StoreStarts(c) PROVE Opens(c)'
  BY <1>2, <1>3 DEF StoreStarts
<1>4. ASSUME LockTaken(c) PROVE Opens(c)'
  BY <1>1, <1>2, <1>4, AliveAreServers DEF LockTaken, SameCall
<1>5. ASSUME ServerSkipped(c) PROVE Opens(c)'
  <2>1. /\ todo[c] # <<>> /\ todo'[c] = Tail(todo[c]) /\ pc[c] = "open" /\ pc'[c] = "open"
        /\ BlockOf[arg[c].off] \in rdmaInfo[Head(todo[c])] /\ arg'[c] = arg[c] /\ err'[c] = err[c]
    BY <1>5 DEF ServerSkipped, SameCall
  <2>2. QED
    BY <1>1, <1>2, <2>1, HeadOfTodo
<1>6. ASSUME AllOpen(c) PROVE Opens(c)'
  <2>1. Elems(todo[c]) = {}
    BY <1>6 DEF AllOpen, Elems
  <2>2. QED
    BY <1>1, <1>2, <1>6, <2>1 DEF AllOpen, SameCall
<1>7. ASSUME MovesToPost(c) PROVE Opens(c)'
  BY <1>1, <1>2, <1>7 DEF MovesToPost, SameCall
<1>8. ASSUME Elsewhere(c) PROVE Opens(c)'
  BY <1>2, <1>8 DEF Elsewhere, Unsent, SpinPcs
<1>9. Opens(c)'
  BY <1>3, <1>4, <1>5, <1>6, <1>7, <1>8, LocalMoves
<1>10. \A d \in Cpus : d # c => Opens(d)'
  <2> HIDE DEF Opens
  <2>1. QED
    BY <1>1, OthersOpen DEF OnlyCpu
<1>11. QED
  BY <1>9, <1>10

\* The steps that involve a server.
LEMMA RemoteOpens ==
    ASSUME PartsInv, CallsAnswered, BlocksKnown, NEW c \in Cpus, NEW s \in Servers,
           CallOpen(c, s) \/ OpenAnswered(c, s) \/ CallCommit(c, s) \/ CommitAnswered(c, s)
             \/ CallWithoutAnswer(c, s) \/ ReadRemote(c, s) \/ Multicast(c)
    PROVE  /\ \A t \in Servers : rdmaInfo[t] \subseteq rdmaInfo'[t] /\ rdmaInfo'[t] \subseteq blocks[t]
           /\ \A d \in Cpus : Opens(d)'
<1>0. DriverTypeOK /\ FarTypeOK
  BY PartsTypes
<1>1. Opens(c) /\ \A t \in Servers : rdmaInfo[t] \subseteq blocks[t]
  BY DEF BlocksKnown
<1>2. CASE OpenAnswered(c, s)
  <2>1. /\ pc[c] = "opening" /\ NextServer(c, s) /\ pc' = [pc EXCEPT ![c] = "open"]
        /\ rdmaInfo' = [rdmaInfo EXCEPT ![s] = @ \cup {BlockOf[arg[c].off]}]
        /\ err' = [err EXCEPT ![c] = @ \/ ~TRUE] /\ todo' = [todo EXCEPT ![c] = Tail(@)]
        /\ arg' = arg /\ rep[s] # None /\ ~broken[s]
    BY <1>2 DEF OpenAnswered, OpenReturn, Goto, TakeReply
  <2>2. Calls(c, s) /\ req[s] = None
    BY <1>2, ReplyTaken
  <2>3. BlockOf[arg[c].off] \in blocks[s]
    <3>1. Answering(c, s)
      BY <2>1, <2>2 DEF CallsAnswered
    <3>2. CASE req[s] = OpenRequest(BlockOf[arg[c].off])
      BY <2>1, <2>2, <3>2, <1>0, PageOfCall, RequestsNotNone
    <3>3. QED
      BY <2>1, <3>1, <3>2 DEF Answering
  <2>4. \A t \in Servers : rdmaInfo[t] \subseteq rdmaInfo'[t] /\ rdmaInfo'[t] \subseteq blocks[t]
    BY <1>0, <1>1, <2>1, <2>3 DEF DriverTypeOK
  <2>5. Opens(c)'
    <3>1. err'[c] = err[c] /\ pc'[c] = "open" /\ todo'[c] = Tail(todo[c])
      BY <1>0, <2>1 DEF DriverTypeOK
    <3>2. Elems(todo[c]) = {s} \cup Elems(todo'[c])
      BY <1>0, <2>1, <3>1, HeadOfTodo DEF NextServer
    <3>3. BlockOf[arg'[c].off] \in rdmaInfo'[s]
      BY <1>0, <2>1 DEF DriverTypeOK
    <3>4. ~err[c] => \A t \in Alive : t \in Elems(todo[c]) \/ BlockOf[arg[c].off] \in rdmaInfo[t]
      BY <1>1, <2>1 DEF Opens, KnowsBlock
    <3>5. ~err[c] => \A t \in Alive : t \in Elems(todo'[c]) \/ BlockOf[arg'[c].off] \in rdmaInfo'[t]
      BY <2>1, <2>4, <3>2, <3>3, <3>4, AliveAreServers
    <3>6. QED
      BY <3>1, <3>5 DEF Opens, KnowsBlock
  <2>6. \A d \in Cpus : d # c => Opens(d)'
    BY <1>0, <2>1, <2>4, OthersOpen DEF DriverTypeOK
  <2>7. QED
    BY <2>4, <2>5, <2>6
<1>3. CASE CallOpen(c, s) \/ CallCommit(c, s) \/ CommitAnswered(c, s) \/ ReadRemote(c, s) \/ Multicast(c)
  <2>1. /\ rdmaInfo' = rdmaInfo /\ arg' = arg
        /\ \A d \in Cpus : d # c => todo'[d] = todo[d] /\ err'[d] = err[d] /\ pc'[d] = pc[d]
        /\ err'[c] = err[c]
        /\ \/ pc[c] = "open" /\ pc'[c] = "opening" /\ todo'[c] = todo[c]
           \/ pc[c] = "commit" /\ pc'[c] = "committing"
           \/ pc[c] = "committing" /\ pc'[c] = "commit"
           \/ pc'[c] \in {"loaded", "stage"}
    BY <1>0, <1>3 DEF CallOpen, OpenCall, CallCommit, CommitCall, CommitAnswered, CommitReturn,
       ReadRemote, RdmaRead, Multicast, Post, Goto, lockVars, DriverTypeOK
  <2>2. Opens(c)'
    BY <1>1, <2>1 DEF Opens, KnowsBlock
  <2>3. \A d \in Cpus : d # c => Opens(d)'
    BY <1>0, <2>1, OthersOpen
  <2>4. QED
    BY <1>1, <2>1, <2>2, <2>3
<1>4. CASE CallWithoutAnswer(c, s)
  <2>1. /\ rdmaInfo' = rdmaInfo /\ arg' = arg
        /\ \A d \in Cpus : d # c => todo'[d] = todo[d] /\ err'[d] = err[d] /\ pc'[d] = pc[d]
        /\ \/ pc[c] = "open" /\ pc'[c] = "opening" /\ todo'[c] = todo[c] /\ err'[c] = err[c]
           \/ pc[c] = "commit" /\ pc'[c] = "committing" /\ err'[c] = err[c]
           \/ pc'[c] = "open" /\ err'[c] = TRUE
           \/ pc[c] = "committing" /\ pc'[c] = "commit"
    <3>1. \/ OpenCall(c, s) \/ CommitCall(c, s)
          \/ OpenReturn(c, s, FALSE) \/ CommitReturn(c, s, FALSE)
      BY <1>0, <1>4, WithoutAnswer, PartsTypes
    <3>2. QED
      BY <1>0, <3>1 DEF OpenCall, CommitCall, OpenReturn, CommitReturn, Goto, lockVars, DriverTypeOK
  <2>2. Opens(c)'
    BY <1>1, <2>1 DEF Opens, KnowsBlock
  <2>3. \A d \in Cpus : d # c => Opens(d)'
    BY <1>0, <2>1, OthersOpen
  <2>4. QED
    BY <1>1, <2>1, <2>2, <2>3
<1>5. QED
  BY <1>2, <1>3, <1>4

LEMMA KnownStep == PartsInv /\ CallsAnswered /\ BlocksKnown /\ [Next]_vars => BlocksKnown'
<1> SUFFICES ASSUME PartsInv, CallsAnswered, BlocksKnown, [Next]_vars PROVE BlocksKnown'
  OBVIOUS
<1>0. DriverTypeOK /\ FarTypeOK /\ NetworkTypeOK
  BY PartsTypes
<1>1. \A s \in Servers : blocks[s] \subseteq blocks'[s]
  BY <1>0, Separate, BlocksStay
<1>2. ASSUME NEW c \in Cpus, CpuStep(c) PROVE BlocksKnown'
  <2>1. CASE DriverAlone(c)
    <3>1. rdmaInfo' = rdmaInfo /\ \A d \in Cpus : Opens(d)'
      BY <1>0, <2>1, LocalMoves, LocalOpens DEF DriverAlone
    <3>2. QED
      BY <1>1, <3>1 DEF BlocksKnown
  <2>2. CASE ~DriverAlone(c)
    <3>1. CASE Servers = {}
      <4>1. Multicast(c)
        BY <1>2, <2>2, <3>1 DEF CpuStep
      <4>2. /\ arg' = arg /\ todo' = todo /\ err' = err /\ pc' = [pc EXCEPT ![c] = "stage"]
        BY <4>1 DEF Multicast, Post, Goto
      <4>3. \A d \in Cpus : Opens(d)'
        BY <1>0, <3>1, <4>2, AliveAreServers DEF BlocksKnown, Opens
      <4>4. QED
        BY <3>1, <4>3 DEF BlocksKnown
    <3>2. CASE Servers # {}
      BY <1>1, <1>2, <2>2, <3>2, RemoteOpens DEF CpuStep, CallWithoutAnswer, BlocksKnown
    <3>3. QED
      BY <3>1, <3>2
  <2>3. QED
    BY <2>1, <2>2
<1>3. CASE UNCHANGED driverVars
  <2>1. \A d \in Cpus : Opens(d)'
    BY <1>3, OthersOpen DEF driverVars, lockVars, callVars
  <2>2. QED
    BY <1>1, <1>3, <2>1 DEF BlocksKnown, driverVars, lockVars
<1>4. QED
  BY <1>0, <1>2, <1>3, NetSteps, SystemSteps DEF vars


----------------------------------------------------------------------------
(* What the threads of a server leave alone.                               *)

LEMMA ThreadsReceiveNothing ==
    ASSUME NEW s \in Servers, MulticastThread(s) \/ RdmaThread(s)
    PROVE  delivered' = delivered
BY DEF MulticastThread, RdmaThread, FlowAdd, FlowConvey, ServeOpen, CommitEmpty, CommitBegin,
   CommitConvey, CommitPutback, CommitReset, historyVars

\* The multicast thread works on a page that arrived.
LEMMA FlowIsDelivered ==
    ASSUME ServerInv, NEW s \in Servers, NEW t \in Servers, flow'[t] # None, flow'[t] # flow[t],
           MulticastThread(s) \/ RdmaThread(s) \/ \E p \in Page : Receive(s, p)
    PROVE  \E p \in delivered[t] : p.off = flow'[t].off
<1>0. FarTypeOK /\ InOneQueue(s)
  BY DEF ServerInv, QueueInv
<1>1. FlowAdd(s)
  BY <1>0 DEF MulticastThread, RdmaThread, FlowConvey, ServeOpen, CommitEmpty, CommitBegin,
     CommitConvey, CommitPutback, CommitReset, Receive, listVars, FarTypeOK
<1>2. s = t
  BY <1>0, <1>1 DEF FlowAdd, FarTypeOK
<1>3. flow'[s] \in Elems(cq[s])
  BY <1>0, <1>1, FlowAddDoes
<1>4. data[s][flow'[s].buf] \in delivered[s] /\ data[s][flow'[s].buf].off = flow'[s].off
  BY <1>3, PagesHeld
<1>5. QED
  BY <1>2, <1>4

\* A page arrives at the server it was sent to.
LEMMA Arrives ==
    ASSUME FarTypeOK, NetworkTypeOK, NEW s \in Servers, Deliver(s)
    PROVE  /\ Head(flight[s]) \in Elems(flight[s]) /\ Elems(flight'[s]) \subseteq Elems(flight[s])
           /\ delivered'[s] = delivered[s] \cup {Head(flight[s])}
           /\ \A t \in Servers : t # s => delivered'[t] = delivered[t] /\ flight'[t] = flight[t]
           /\ UNCHANGED <<blocks, flow, driverVars>>
<1>1. flight[s] # <<>> /\ flight[s] \in Seq(Page)
  BY DEF Deliver, NetworkTypeOK
<1>2. Elems(flight[s]) = {Head(flight[s])} \cup Elems(Tail(flight[s]))
  BY <1>1, HeadAndTail
<1>3. QED
  BY <1>2 DEF Deliver, Receive, FarTypeOK, NetworkTypeOK, listVars, rmhVars

----------------------------------------------------------------------------
(* The pages on their way are of blocks the servers have.                  *)

AtHome(s) ==
    /\ \A p \in Elems(flight[s]) \cup delivered[s] : BlockOf[p.off] \in blocks[s]
    /\ flow[s] # None => BlockOf[flow[s].off] \in blocks[s]

PagesAtHome == \A s \in Servers : AtHome(s)

LEMMA HomeStep ==
    PartsInv /\ CallsAnswered /\ BlocksKnown /\ PagesAtHome /\ [Next]_vars => PagesAtHome'
<1> SUFFICES ASSUME PartsInv, CallsAnswered, BlocksKnown, PagesAtHome, [Next]_vars
             PROVE  PagesAtHome'
  OBVIOUS
<1>0. DriverTypeOK /\ FarTypeOK /\ NetworkTypeOK /\ ServerInv
  BY PartsTypes DEF PartsInv
<1>1. \A s \in Servers : blocks[s] \subseteq blocks'[s]
  BY <1>0, Separate, BlocksStay
<1>2. ASSUME NEW t \in Servers, delivered'[t] = delivered[t], flow'[t] = flow[t],
             Elems(flight'[t]) \subseteq Elems(flight[t])
      PROVE  AtHome(t)'
  BY <1>1, <1>2 DEF PagesAtHome, AtHome
<1>3. ASSUME NEW c \in Cpus, CpuStep(c) PROVE PagesAtHome'
  <2>1. delivered' = delivered /\ flow' = flow
    BY <1>3 DEF CpuStep, CallLost, OpenFails, CommitFails, DriverAlone, Multicast, CallOpen, OpenAnswered, CallCommit,
       CommitAnswered, ReadRemote, Call, TakeReply, serverVars, listVars, historyVars
  <2>2. CASE ~Multicast(c)
    <3>1. flight' = flight
      BY <1>3, <2>2 DEF CpuStep, CallLost, OpenFails, CommitFails, DriverAlone, CallOpen, OpenAnswered, CallCommit,
         CommitAnswered, ReadRemote, netVars
    <3>2. QED
      BY <1>2, <2>1, <3>1 DEF PagesAtHome
  <2>3. CASE Multicast(c)
    <3>1. /\ pc[c] = "post" /\ blocks' = blocks
          /\ flight' = [s \in Servers |-> IF s \in Alive THEN Append(flight[s], arg[c])
                                                         ELSE flight[s]]
      BY <2>3 DEF Multicast, Post, serverVars, rmhVars
    <3>2. ASSUME NEW s \in Servers, s \in Alive PROVE AtHome(s)'
      <4>1. flight'[s] = Append(flight[s], arg[c]) /\ flight[s] \in Seq(Page) /\ arg[c] \in Page
        BY <1>0, <3>1, <3>2, PageOfCall DEF NetworkTypeOK
      <4>2. Elems(flight'[s]) = Elems(flight[s]) \cup {arg[c]}
        BY <4>1, ElemsOfAppend
      <4>3. BlockOf[arg[c].off] \in blocks[s]
        BY <3>1, <3>2 DEF BlocksKnown, Opens, KnowsBlock
      <4>4. QED
        BY <2>1, <3>1, <4>2, <4>3 DEF PagesAtHome, AtHome
    <3>3. ASSUME NEW s \in Servers, s \notin Alive PROVE AtHome(s)'
      BY <1>2, <2>1, <3>1, <3>3
    <3>4. QED
      BY <3>2, <3>3 DEF PagesAtHome
  <2>4. QED
    BY <2>2, <2>3
<1>4. ASSUME NEW s \in Servers, NetStep(s) PROVE PagesAtHome'
  <2>1. CASE Deliver(s)
    BY <1>0, <2>1, Arrives DEF PagesAtHome, AtHome
  <2>2. CASE Lose(s)
    <3>1. flight[s] # <<>> /\ flight[s] \in Seq(Page) /\ flight' = [flight EXCEPT ![s] = Tail(@)]
          /\ delivered' = delivered /\ flow' = flow
      BY <1>0, <2>2 DEF Lose, NetworkTypeOK, serverVars, historyVars, listVars
    <3>2. Elems(Tail(flight[s])) \subseteq Elems(flight[s])
      BY <3>1, HeadAndTail
    <3>3. \A t \in Servers : Elems(flight'[t]) \subseteq Elems(flight[t])
      BY <1>0, <3>1, <3>2 DEF NetworkTypeOK
    <3>4. QED
      BY <1>2, <3>1, <3>3 DEF PagesAtHome
  <2>3. CASE MulticastThreadAlone(s) \/ RdmaThreadAlone(s)
    <3>1. (MulticastThread(s) \/ RdmaThread(s)) /\ flight' = flight
      BY <2>3 DEF MulticastThreadAlone, RdmaThreadAlone, netVars
    <3>2. delivered' = delivered
      BY <3>1, ThreadsReceiveNothing
    <3>3. ASSUME NEW t \in Servers, flow'[t] # None, flow'[t] # flow[t]
          PROVE  BlockOf[flow'[t].off] \in blocks[t]
      <4>1. PICK p \in delivered[t] : p.off = flow'[t].off
        BY <1>0, <3>1, <3>3, FlowIsDelivered
      <4>2. QED
        BY <4>1 DEF PagesAtHome, AtHome
    <3>4. QED
      BY <1>1, <3>1, <3>2, <3>3 DEF PagesAtHome, AtHome
  <2>4. QED
    BY <1>4, <2>1, <2>2, <2>3 DEF NetStep
<1>5. CASE UNCHANGED vars
  BY <1>2, <1>5 DEF vars, serverVars, netVars, listVars, historyVars, PagesAtHome
<1>6. QED
  BY <1>3, <1>4, <1>5, SystemSteps

\* What only the driver and the servers together keep.
CallsInv == PartsInv /\ CallsAnswered /\ BlocksKnown /\ PagesAtHome

LEMMA CallsInit == Init => CallsInv
<1> SUFFICES ASSUME Init PROVE CallsInv
  OBVIOUS
<1>0. /\ \A c \in Cpus : pc[c] = "idle" /\ err[c] = FALSE
      /\ \A s \in Servers : /\ req[s] = None /\ rep[s] = None /\ rpcPc[s] = "idle"
                           /\ rdmaInfo[s] = {}
  BY DEF Init, DriverInit, FarInit
<1>1. CallsAnswered
  BY <1>0 DEF CallsAnswered, Asked, Calls, RpcPcs
<1>2. BlocksKnown
  BY <1>0 DEF BlocksKnown, Opens
<1>3. PagesAtHome
  <2> SUFFICES ASSUME NEW s \in Servers PROVE AtHome(s)
    BY Zenon DEF PagesAtHome
  <2>1. flight[s] = <<>> /\ delivered[s] = {} /\ flow[s] = None
    BY DEF Init, FarInit
  <2>2. Elems(flight[s]) = {}
    BY <2>1 DEF Elems
  <2>3. QED
    BY <2>1, <2>2 DEF AtHome
<1>4. QED
  BY <1>1, <1>2, <1>3, PartsInit DEF CallsInv

LEMMA CallsInvStep == CallsInv /\ [Next]_vars => CallsInv'
BY PartsStep, CallsStep, KnownStep, HomeStep DEF CallsInv

THEOREM CallsInvariant == Spec => []CallsInv
BY CallsInit, CallsInvStep, PTL DEF Spec

\* A store opens the block of its page at every server before it multicasts the
\* page (ib_rpc_open_all): the multicast thread and the rdma thread never both
\* call add_memblock.
THEOREM SystemKeepsPagesHome == Spec => []PagesHaveBlocks
<1>1. CallsInv => PagesHaveBlocks
  <2> SUFFICES ASSUME CallsInv, NEW s \in Alive
               PROVE  /\ \A p \in Elems(flight[s]) : BlockOf[p.off] \in blocks[s]
                      /\ \A w \in Elems(cq[s]) : BlockOf[w.off] \in blocks[s]
                      /\ flow[s] # None => BlockOf[flow[s].off] \in blocks[s]
                      /\ \A b \in Elems(commitList[s]) : BlockOf[imm[s][b]] \in blocks[s]
    BY Zenon DEF PagesHaveBlocks
  <2>0. s \in Servers
    BY AliveAreServers
  <2>1. ServerInv /\ AtHome(s)
    BY <2>0 DEF CallsInv, PartsInv, PagesAtHome
  <2>2. \A w \in Elems(cq[s]) : BlockOf[w.off] \in blocks[s]
    <3>1. \A w \in Elems(cq[s]) : data[s][w.buf] \in delivered[s] /\ data[s][w.buf].off = w.off
      BY <2>0, <2>1, PagesHeld
    <3>2. QED
      BY <2>1, <3>1 DEF AtHome
  <2>3. \A b \in Elems(commitList[s]) : BlockOf[imm[s][b]] \in blocks[s]
    <3>1. \A b \in Elems(commitList[s]) : data[s][b] \in delivered[s] /\ data[s][b].off = imm[s][b]
      BY <2>0, <2>1, PagesHeld
    <3>2. QED
      BY <2>1, <3>1 DEF AtHome
  <2>4. QED
    BY <2>1, <2>2, <2>3 DEF AtHome
<1>2. QED
  BY <1>1, CallsInvariant, PTL

----------------------------------------------------------------------------
(* The pages of an offset reach a server in the order they were stored:    *)
(* one store of an offset at a time, and one queue to each server.         *)

Ascending(q) == \A i, j \in DOMAIN q : i < j => Before(q[i], q[j])

LEMMA TailAscends ==
    ASSUME NEW q \in Seq(Page), q # <<>>, Ascending(q)
    PROVE  Ascending(Tail(q)) /\ \A p \in Elems(Tail(q)) : Before(Head(q), p)
<1>1. /\ Len(q) \in Nat \ {0} /\ DOMAIN q = 1 .. Len(q) /\ Head(q) = q[1]
      /\ DOMAIN Tail(q) = 1 .. Len(q) - 1
      /\ \A i \in 1 .. Len(q) - 1 : Tail(q)[i] = q[i + 1]
  BY HeadTailProperties, LenProperties, EmptySeq
<1>2. ASSUME NEW i \in DOMAIN Tail(q), NEW j \in DOMAIN Tail(q), i < j
      PROVE  Before(Tail(q)[i], Tail(q)[j])
  <2>1. i + 1 \in DOMAIN q /\ j + 1 \in DOMAIN q /\ i + 1 < j + 1
    BY <1>1, <1>2
  <2>2. Before(q[i + 1], q[j + 1])
    BY <2>1 DEF Ascending
  <2>3. QED
    BY <1>1, <2>2
<1>3. ASSUME NEW i \in DOMAIN Tail(q) PROVE Before(Head(q), Tail(q)[i])
  <2>1. 1 \in DOMAIN q /\ i + 1 \in DOMAIN q /\ 1 < i + 1
    BY <1>1
  <2>2. QED
    BY <1>1, <2>1 DEF Ascending
<1>4. QED
  BY <1>2, <1>3 DEF Ascending, Elems

LEMMA AppendAscends ==
    ASSUME NEW q \in Seq(Page), NEW e \in Page, Ascending(q), \A p \in Elems(q) : Before(p, e)
    PROVE  Ascending(Append(q, e))
<1> DEFINE a == Append(q, e)
<1>1. /\ Len(q) \in Nat /\ DOMAIN q = 1 .. Len(q) /\ DOMAIN a = 1 .. Len(q) + 1
      /\ a[Len(q) + 1] = e /\ \A i \in 1 .. Len(q) : a[i] = q[i]
  BY AppendProperties, LenProperties
<1> HIDE DEF a
<1>2. ASSUME NEW i \in DOMAIN a, NEW j \in DOMAIN a, i < j
      PROVE  Before(a[i], a[j])
  <2>1. i \in DOMAIN q /\ a[i] = q[i]
    BY <1>1, <1>2
  <2>2. CASE j \in DOMAIN q
    BY <1>1, <1>2, <2>1, <2>2 DEF Ascending
  <2>3. CASE j = Len(q) + 1
    BY <1>1, <2>1, <2>3 DEF Elems
  <2>4. QED
    BY <1>1, <1>2, <2>2, <2>3
<1>3. QED
  BY <1>2 DEF Ascending, a

\* The pages sent to a server so far.
SentTo(s) == Elems(flight[s]) \cup delivered[s]

InOrder(s) ==
    /\ \A p \in SentTo(s) : /\ p.ver <= stores
                            /\ \A c \in Cpus : pc[c] \in Unsent => Before(p, arg[c])
    /\ \A p \in Elems(flight[s]) : NewestHere(s, p)
    /\ Ascending(flight[s])

PagesInOrder ==
    /\ \A c \in Cpus : pc[c] \in Unsent => arg[c].ver <= stores
    /\ \A s \in Servers : InOrder(s)

\* A store is as it was, begins, or its page is no longer to be sent.
CallMovesOn(c) ==
    pc'[c] \in Unsent =>
        \/ pc[c] \in Unsent /\ arg'[c] = arg[c]
        \/ arg'[c].ver = stores + 1 /\ stores' = stores + 1

LEMMA CallsMoveOn ==
    ASSUME DriverTypeOK, NEW c \in Cpus, CpuStep(c)
    PROVE  (\A d \in Cpus : CallMovesOn(d)) /\ stores' >= stores
<1>0. stores \in Int
  BY MaxStoresAssumption DEF DriverTypeOK
<1>1. CASE DriverAlone(c)
  <2>1. OnlyCpu(c)
    BY <1>1, LocalMoves DEF DriverAlone
  <2>2. /\ \/ StoreStarts(c) \/ LockTaken(c) \/ ServerSkipped(c) \/ AllOpen(c)
           \/ MovesToPost(c) \/ Elsewhere(c)
        /\ StoreStarts(c) \/ stores' >= stores
    BY <1>1, LocalMoves DEF DriverAlone
  <2>3. CallMovesOn(c)
    <3>1. CASE StoreStarts(c)
      BY <3>1 DEF StoreStarts, CallMovesOn
    <3>2. CASE LockTaken(c) \/ ServerSkipped(c) \/ AllOpen(c) \/ MovesToPost(c)
      BY <3>2 DEF LockTaken, ServerSkipped, AllOpen, MovesToPost, SameCall, CallMovesOn, Unsent, SpinPcs
    <3>3. CASE Elsewhere(c)
      BY <3>3 DEF Elsewhere, CallMovesOn
    <3>4. QED
      BY <2>2, <3>1, <3>2, <3>3
  <2>4. stores' >= stores
    BY <1>0, <2>2 DEF StoreStarts
  <2>5. QED
    BY <2>1, <2>3, <2>4 DEF OnlyCpu, CallMovesOn
<1>2. CASE ~DriverAlone(c)
  <2>1. /\ arg' = arg /\ stores' = stores
        /\ \/ pc[c] = "open" /\ pc' = [pc EXCEPT ![c] = "opening"]
           \/ pc[c] = "opening" /\ pc' = [pc EXCEPT ![c] = "open"]
           \/ pc[c] = "commit" /\ pc' = [pc EXCEPT ![c] = "committing"]
           \/ pc[c] = "committing" /\ pc' = [pc EXCEPT ![c] = "commit"]
           \/ pc' = [pc EXCEPT ![c] = "stage"]
           \/ pc' = [pc EXCEPT ![c] = "loaded"]
    BY <1>2 DEF CpuStep, CallOpen, OpenCall, OpenAnswered, OpenReturn, CallCommit, CommitCall,
       CallLost, OpenFails, CommitFails, CommitAnswered, CommitReturn, ReadRemote, RdmaRead,
       Multicast, Post, Goto, swapVars
  <2>2. \A d \in Cpus : CallMovesOn(d)
    BY <2>1 DEF DriverTypeOK, CallMovesOn, Unsent, SpinPcs
  <2>3. QED
    BY <1>0, <2>1, <2>2
<1>3. QED
  BY <1>1, <1>2

\* A step that sends a server nothing, and delivers it nothing.
LEMMA OrderStays ==
    ASSUME DriverTypeOK, FarTypeOK, NetworkTypeOK, PagesInOrder, stores' >= stores,
           \A d \in Cpus : CallMovesOn(d), NEW s \in Servers,
           flight'[s] = flight[s], delivered'[s] = delivered[s], stores' \in Nat
    PROVE  InOrder(s)'
<1>1. InOrder(s) /\ SentTo(s)' = SentTo(s) /\ stores \in Int
  BY MaxStoresAssumption DEF PagesInOrder, SentTo, DriverTypeOK
<1>2. \A p \in SentTo(s) : p.ver \in Int
  <2>1. flight[s] \in Seq(Page) /\ delivered[s] \subseteq Page
    BY DEF NetworkTypeOK, FarTypeOK
  <2>2. SentTo(s) \subseteq Page
    BY <2>1, ElemsOfSeq DEF SentTo
  <2>3. QED
    BY <2>2, MaxStoresAssumption DEF Page
<1>3. ASSUME NEW p \in SentTo(s)
      PROVE  p.ver <= stores' /\ \A c \in Cpus : pc'[c] \in Unsent => Before(p, arg'[c])
  <2>1. p.ver <= stores
    BY <1>1 DEF InOrder
  <2>2. p.ver <= stores'
    BY <1>1, <1>2, <2>1
  <2>3. ASSUME NEW c \in Cpus, pc'[c] \in Unsent PROVE Before(p, arg'[c])
    <3>1. CASE pc[c] \in Unsent /\ arg'[c] = arg[c]
      BY <1>1, <3>1 DEF InOrder
    <3>2. CASE arg'[c].ver = stores + 1
      BY <1>1, <1>2, <2>1, <3>2 DEF Before
    <3>3. QED
      BY <2>3, <3>1, <3>2 DEF CallMovesOn
  <2>4. QED
    BY <2>2, <2>3
<1>4. QED
  BY <1>1, <1>3 DEF InOrder, NewestHere

\* The part about the stores that have not sent their page.
LEMMA VersionsStay ==
    ASSUME PagesInOrder, DriverTypeOK, stores' >= stores, stores' \in Nat,
           \A d \in Cpus : CallMovesOn(d)
    PROVE  \A c \in Cpus : pc'[c] \in Unsent => arg'[c].ver <= stores'
<1> SUFFICES ASSUME NEW c \in Cpus, pc'[c] \in Unsent PROVE arg'[c].ver <= stores'
  OBVIOUS
<1>1. stores \in Int
  BY MaxStoresAssumption DEF DriverTypeOK
<1>2. CASE pc[c] \in Unsent /\ arg'[c] = arg[c]
  <2>1. arg[c].ver \in Int
    BY <1>2, PageOfCall DEF Unsent, SpinPcs
  <2>2. arg[c].ver <= stores
    BY <1>2 DEF PagesInOrder
  <2>3. QED
    BY <1>1, <1>2, <2>1, <2>2
<1>3. CASE arg'[c].ver = stores + 1 /\ stores' = stores + 1
  BY <1>1, <1>3
<1>4. QED
  BY <1>2, <1>3 DEF CallMovesOn

\* A page joins the queue of every alive server.
LEMMA PostedInOrder ==
    ASSUME PartsInv, PagesInOrder, NEW c \in Cpus, Multicast(c), NEW s \in Servers, s \in Alive
    PROVE  InOrder(s)'
<1>0. DriverTypeOK /\ FarTypeOK /\ NetworkTypeOK /\ InOrder(s)
  BY PartsTypes DEF PagesInOrder
<1>1. /\ pc[c] = "post" /\ pc' = [pc EXCEPT ![c] = "stage"] /\ arg' = arg /\ stores' = stores
      /\ flight'[s] = Append(flight[s], arg[c]) /\ delivered'[s] = delivered[s]
  BY DEF Multicast, Post, Goto, swapVars, serverVars, historyVars
<1>2. flight[s] \in Seq(Page) /\ arg[c] \in Page
  BY <1>0, <1>1, PageOfCall DEF NetworkTypeOK
<1>3. Elems(flight'[s]) = Elems(flight[s]) \cup {arg[c]}
  BY <1>1, <1>2, ElemsOfAppend
<1>4. arg[c].ver <= stores /\ \A p \in SentTo(s) : Before(p, arg[c])
  BY <1>0, <1>1 DEF PagesInOrder, InOrder, Unsent
<1>5. Ascending(flight'[s])
  BY <1>0, <1>1, <1>2, <1>4, AppendAscends DEF InOrder, SentTo
<1>6. \A p \in Elems(flight'[s]) : NewestHere(s, p)'
  BY <1>0, <1>1, <1>3, <1>4 DEF InOrder, NewestHere, SentTo
<1>7. ASSUME NEW d \in Cpus, pc'[d] \in Unsent PROVE Before(arg[c], arg'[d])
  <2>1. d # c /\ pc[d] = pc'[d]
    BY <1>0, <1>1, <1>7 DEF DriverTypeOK, Unsent, SpinPcs
  <2>2. arg[c].off # arg[d].off
    BY <1>1, <1>7, <2>1 DEF PartsInv, DriverInv, OneCallPerOffset, Unsent, SpinPcs
  <2>3. QED
    BY <1>1, <2>2 DEF Before
<1>8. ASSUME NEW p \in SentTo(s), NEW d \in Cpus, pc'[d] \in Unsent PROVE Before(p, arg'[d])
  <2>1. pc[d] = pc'[d]
    BY <1>0, <1>1, <1>8 DEF DriverTypeOK, Unsent, SpinPcs
  <2>2. QED
    BY <1>0, <1>1, <1>8, <2>1 DEF InOrder
<1>9. SentTo(s)' = SentTo(s) \cup {arg[c]}
  BY <1>1, <1>3 DEF SentTo
<1>10. \A p \in SentTo(s) : p.ver <= stores
  BY <1>0 DEF InOrder
<1>11. QED
  BY <1>1, <1>4, <1>5, <1>6, <1>7, <1>8, <1>9, <1>10 DEF InOrder

\* A page arrives: it is newer than those before it.
LEMMA ArrivesInOrder ==
    ASSUME PartsInv, PagesInOrder, NEW s \in Servers, Deliver(s)
    PROVE  InOrder(s)' /\ NewestHere(s, Head(flight[s]))
<1>0. DriverTypeOK /\ FarTypeOK /\ NetworkTypeOK /\ InOrder(s)
  BY PartsTypes DEF PagesInOrder
<1>1. /\ flight[s] # <<>> /\ flight[s] \in Seq(Page) /\ flight'[s] = Tail(flight[s])
  BY <1>0 DEF Deliver, NetworkTypeOK
<1>2. /\ delivered'[s] = delivered[s] \cup {Head(flight[s])}
      /\ UNCHANGED driverVars
  BY <1>0, Arrives
<1>3. Elems(flight[s]) = {Head(flight[s])} \cup Elems(flight'[s])
  BY <1>1, HeadAndTail
<1>4. Ascending(flight'[s]) /\ \A p \in Elems(flight'[s]) : Before(Head(flight[s]), p)
  BY <1>0, <1>1, TailAscends DEF InOrder
<1>5. \A p \in Elems(flight'[s]) : NewestHere(s, p)'
  BY <1>0, <1>2, <1>3, <1>4 DEF InOrder, NewestHere
<1>6. SentTo(s)' = SentTo(s)
  BY <1>2, <1>3 DEF SentTo
<1>7. \A p \in SentTo(s)' : p.ver <= stores' /\ \A c \in Cpus : pc'[c] \in Unsent => Before(p, arg'[c])
  BY <1>0, <1>2, <1>6 DEF InOrder, driverVars, callVars, swapVars
<1>8. QED
  BY <1>0, <1>3, <1>4, <1>5, <1>7 DEF InOrder

LEMMA LosesInOrder ==
    ASSUME PartsInv, PagesInOrder, NEW s \in Servers, Lose(s)
    PROVE  InOrder(s)'
<1>0. DriverTypeOK /\ FarTypeOK /\ NetworkTypeOK /\ InOrder(s)
  BY PartsTypes DEF PagesInOrder
<1>1. /\ flight[s] # <<>> /\ flight[s] \in Seq(Page) /\ flight'[s] = Tail(flight[s])
      /\ delivered' = delivered /\ UNCHANGED driverVars
  BY <1>0 DEF Lose, NetworkTypeOK, serverVars, historyVars
<1>2. Elems(flight[s]) = {Head(flight[s])} \cup Elems(flight'[s])
  BY <1>1, HeadAndTail
<1>3. Ascending(flight'[s])
  BY <1>0, <1>1, TailAscends DEF InOrder
<1>4. \A p \in Elems(flight'[s]) : NewestHere(s, p)'
  BY <1>0, <1>1, <1>2 DEF InOrder, NewestHere
<1>5. SentTo(s)' \subseteq SentTo(s)
  BY <1>1, <1>2 DEF SentTo
<1>6. \A p \in SentTo(s)' : p.ver <= stores' /\ \A c \in Cpus : pc'[c] \in Unsent => Before(p, arg'[c])
  BY <1>0, <1>1, <1>5 DEF InOrder, driverVars, callVars, swapVars
<1>7. QED
  BY <1>3, <1>4, <1>6 DEF InOrder

LEMMA OrderedSystemStep ==
    ASSUME PartsInv, PagesInOrder, [Next]_vars
    PROVE  PagesInOrder' /\ [\E s \in Servers : OrderedStepOf(s)]_serverVars
<1>0. DriverTypeOK /\ FarTypeOK /\ NetworkTypeOK
  BY PartsTypes
<1>1. stores' \in Nat
  <2>1. DriverTypeOK'
    BY PartsStep, PartsTypes DEF PartsInv, DriverInv
  <2>2. QED
    BY <2>1, MaxStoresAssumption DEF DriverTypeOK
<1>2. ASSUME NEW c \in Cpus, CpuStep(c)
      PROVE  PagesInOrder' /\ [\E s \in Servers : OrderedStepOf(s)]_serverVars
  <2>1. stores' >= stores /\ \A d \in Cpus : CallMovesOn(d)
    BY <1>0, <1>2, CallsMoveOn
  <2>2. \A d \in Cpus : pc'[d] \in Unsent => arg'[d].ver <= stores'
    BY <1>0, <1>1, <2>1, VersionsStay
  <2>3. delivered' = delivered
    BY <1>2 DEF CpuStep, CallLost, OpenFails, CommitFails, DriverAlone, Multicast, CallOpen, OpenAnswered, CallCommit,
       CommitAnswered, ReadRemote, Call, TakeReply, serverVars, historyVars
  <2>4. \A s \in Servers : flight'[s] = flight[s] \/ (s \in Alive /\ Multicast(c))
    <3>1. CASE Multicast(c)
      BY <3>1 DEF Multicast
    <3>2. CASE ~Multicast(c)
      BY <1>2, <3>2 DEF CpuStep, CallLost, OpenFails, CommitFails, DriverAlone, CallOpen, OpenAnswered, CallCommit,
         CommitAnswered, ReadRemote, netVars
    <3>3. QED
      BY <3>1, <3>2
  <2>5. ASSUME NEW s \in Servers PROVE InOrder(s)'
    <3>1. CASE flight'[s] = flight[s]
      BY <1>0, <1>1, <2>1, <2>3, <3>1, OrderStays
    <3>2. CASE s \in Alive /\ Multicast(c)
      BY <3>2, PostedInOrder
    <3>3. QED
      BY <2>4, <3>1, <3>2
  <2>6. [\E s \in Servers : OrderedStepOf(s)]_serverVars
    BY <1>0, <1>2, CpuSteps DEF AnyCall, ClientCalls, OrderedStepOf
  <2>7. QED
    BY <2>2, <2>5, <2>6 DEF PagesInOrder
<1>3. ASSUME NEW c \in Cpus, UNCHANGED driverVars PROVE CallMovesOn(c)
  BY <1>3 DEF CallMovesOn, driverVars, callVars
<1>4. ASSUME NEW t \in Servers, UNCHANGED driverVars, flight'[t] = flight[t], delivered'[t] = delivered[t]
      PROVE  InOrder(t)'
  <2>1. stores' >= stores
    BY <1>1, <1>4 DEF driverVars, swapVars
  <2>2. QED
    BY <1>0, <1>1, <1>3, <1>4, <2>1, OrderStays
<1>5. ASSUME UNCHANGED driverVars
      PROVE  \A c \in Cpus : pc'[c] \in Unsent => arg'[c].ver <= stores'
  BY <1>5 DEF PagesInOrder, driverVars, callVars, swapVars
<1>6. ASSUME NEW s \in Servers, NetStep(s)
      PROVE  PagesInOrder' /\ [\E t \in Servers : OrderedStepOf(t)]_serverVars
  <2>1. UNCHANGED driverVars
    BY <1>0, <1>6, NetSteps
  <2>2. CASE Deliver(s)
    <3>1. \A t \in Servers : t # s => InOrder(t)'
      BY <1>0, <1>4, <2>1, <2>2, Arrives
    <3>2. InOrder(s)' /\ NewestHere(s, Head(flight[s]))
      BY <2>2, ArrivesInOrder
    <3>3. Head(flight[s]) \in Page /\ Receive(s, Head(flight[s]))
      BY <1>0, <2>2, PageOfFlight DEF Deliver
    <3>4. QED
      BY <1>5, <2>1, <3>1, <3>2, <3>3 DEF PagesInOrder, OrderedStepOf
  <2>3. CASE Lose(s)
    <3>1. delivered' = delivered /\ \A t \in Servers : t # s => flight'[t] = flight[t]
      BY <1>0, <2>3 DEF Lose, NetworkTypeOK, serverVars, historyVars
    <3>2. \A t \in Servers : t # s => InOrder(t)'
      BY <1>4, <2>1, <3>1
    <3>3. InOrder(s)' /\ UNCHANGED serverVars
      BY <2>3, LosesInOrder DEF Lose
    <3>4. QED
      BY <1>5, <2>1, <3>2, <3>3 DEF PagesInOrder
  <2>4. CASE MulticastThreadAlone(s) \/ RdmaThreadAlone(s)
    <3>1. (MulticastThread(s) \/ RdmaThread(s)) /\ flight' = flight
      BY <2>4 DEF MulticastThreadAlone, RdmaThreadAlone, netVars
    <3>2. delivered' = delivered
      BY <3>1, ThreadsReceiveNothing
    <3>3. \A t \in Servers : InOrder(t)'
      BY <1>4, <2>1, <3>1, <3>2
    <3>4. QED
      BY <1>5, <2>1, <3>1, <3>3 DEF PagesInOrder, OrderedStepOf
  <2>5. QED
    BY <1>6, <2>2, <2>3, <2>4 DEF NetStep
<1>7. CASE UNCHANGED vars
  <2>1. UNCHANGED driverVars /\ flight' = flight /\ delivered' = delivered
    BY <1>7 DEF vars, netVars, serverVars, historyVars
  <2>2. \A t \in Servers : InOrder(t)'
    BY <1>4, <2>1
  <2>3. QED
    BY <1>5, <1>7, <2>1, <2>2 DEF PagesInOrder, vars
<1>8. QED
  BY <1>2, <1>6, <1>7, SystemSteps

\* The invariant of the system: the parts', the calls', and the order of the pages.
SystemInv == CallsInv /\ PagesInOrder /\ \A s \in Servers : OrderInv(s)

LEMMA SystemInit == Init => SystemInv
<1> SUFFICES ASSUME Init PROVE SystemInv
  OBVIOUS
<1>1. \A s \in Servers : OrderInv(s)
  BY OrderInit, Zenon DEF Init
<1>2. \A c \in Cpus : pc[c] \notin Unsent
  BY DEF Init, DriverInit, Unsent, SpinPcs
<1>3. ASSUME NEW s \in Servers PROVE InOrder(s)
  <2>1. flight[s] = <<>> /\ delivered[s] = {}
    BY DEF Init, FarInit
  <2>2. Elems(flight[s]) = {} /\ DOMAIN flight[s] = {}
    BY <2>1 DEF Elems
  <2>3. QED
    BY <2>1, <2>2 DEF InOrder, SentTo, Ascending
<1>4. QED
  BY <1>1, <1>2, <1>3, CallsInit DEF SystemInv, PagesInOrder

LEMMA SystemInvStep ==
    SystemInv /\ [Next]_vars => SystemInv' /\ \A s \in Servers : Forward(s)
<1> SUFFICES ASSUME SystemInv, [Next]_vars PROVE SystemInv' /\ \A s \in Servers : Forward(s)
  OBVIOUS
<1>1. PartsInv /\ CallsInv /\ PagesInOrder /\ OrderedServerInv
  BY DEF SystemInv, CallsInv, PartsInv, OrderedServerInv
<1>2. PagesInOrder' /\ [\E s \in Servers : OrderedStepOf(s)]_serverVars
  BY <1>1, OrderedSystemStep
<1>3. OrderedServerInv' /\ \A s \in Servers : Forward(s)
  BY <1>1, <1>2, OrderStep
<1>4. CallsInv'
  BY <1>1, CallsInvStep
<1>5. QED
  BY <1>2, <1>3, <1>4 DEF SystemInv, OrderedServerInv

THEOREM SystemInvariant == Spec => []SystemInv
BY SystemInit, SystemInvStep, PTL DEF Spec

\* With the driver at the other end, which sends the pages of an offset one after
\* the other, a page that reached a server is in its memory or in a buffer, until a
\* commit puts back the buffer the multicast thread is about to convey (handler.c:264
\* against 187-193).
THEOREM SystemDropsNoPage == Spec => []NoPageDroppedUnlessClash
<1>1. SystemInv => NoPageDroppedUnlessClash
  BY InvDropsNothing DEF SystemInv, CallsInv, PartsInv, OrderedServerInv
<1>2. QED
  BY <1>1, SystemInvariant, PTL

\* The system's servers keep the buffers they post unmarked (ib_putback_recv_work),
\* until a commit puts back the buffer the multicast thread is about to convey.
THEOREM SystemPostsCleanBuffers == Spec => []PostedBuffersCleanUnlessClash
<1>1. SystemInv => PostedBuffersCleanUnlessClash
  BY InvClean DEF SystemInv, CallsInv, PartsInv
<1>2. QED
  BY <1>1, SystemInvariant, PTL

\* However the stores of several CPUs, the network and the two threads of a server
\* interleave, its memory never goes back to an older page (ib_convey_page), until a
\* commit puts back the buffer the multicast thread is about to convey.
THEOREM SystemMovesForward == Spec => MemoryMovesForwardUnlessClash
<1>1. SystemInv /\ [Next]_vars =>
        [\A s \in Servers, o \in Offsets :
           ~clash'[s] /\ mem'[s][o] # mem[s][o] =>
             /\ mem'[s][o].off = o
             /\ mem[s][o] # None => mem'[s][o].ver > mem[s][o].ver]_serverVars
  BY SystemInvStep DEF Forward
<1>2. QED
  BY <1>1, SystemInvariant, PTL DEF Spec, MemoryMovesForwardUnlessClash

----------------------------------------------------------------------------
(* The account of a batch.                                                 *)

\* The stores whose page is counted and not sent.
Sending == {c \in Cpus : pc[c] = "post"}

\* The multicast thread is at work on a page.
Working(s) == IF flow[s] = None THEN 0 ELSE 1

\* The pages a server has still to count, and those it never will.
Owed(s) == Len(flight[s]) + lost[s] + Len(cq[s]) + Working(s) + Cardinality(Sending)

Tally(s) == srvBatch[s] + Owed(s)

CommitPcs == {"commit", "committing"}

\* The server has answered the commit of the batch.
Settled(s) == Committed(s) \/ \E c \in Cpus : pc[c] \in CommitPcs /\ s \notin Elems(todo[c])

Reached(s, p) ==
    p \in delivered[s] \/ p \in Elems(flight[s]) \/ \E c \in Sending : arg[c] = p

\* Before the answer: a page that cannot be sent is counted by the driver alone.
Underway(s) ==
    /\ Tally(s) <= batch
    /\ "post" \notin Faults => Tally(s) = batch
    /\ Tally(s) < batch \/ lost[s] > 0 \/ \A p \in batched : Reached(s, p)

\* After the answer.
Finished(s) ==
    /\ Owed(s) = 0 /\ srvBatch[s] = 0
    /\ \A p \in batched : HasAtLeast(s, p)

\* Where the commit gives the buffers back.
PutbackPcs == {"putback", "reset"}

\* The commit gives the buffers back: every page is counted, and in the end there.
Collects(s) ==
    /\ rpcPc[s] \in PutbackPcs => Owed(s) = 0 /\ srvBatch[s] = batch
    /\ rpcPc[s] = "reset" => \A p \in batched : HasAtLeast(s, p)

\* No commit works on the page the multicast thread is at.
Undisturbed(s) ==
    /\ clash[s] = FALSE
    /\ flow[s] # None => convey[s][flow[s].buf] = FALSE

Accounted(s) ==
    /\ Undisturbed(s) /\ Collects(s)
    /\ Settled(s) => Finished(s)
    /\ ~Settled(s) => Underway(s)

BatchInv ==
    /\ \A c \in Cpus : Distinct(todo[c])
    /\ NeverEarly => \A s \in Alive : InTouch(s) => Accounted(s)

----------------------------------------------------------------------------
(* Counting. *)

LEMMA SumOfNats ==
    ASSUME NEW a \in Nat, NEW b \in Nat, NEW c \in Nat, NEW d \in Nat, NEW e \in Nat
    PROVE  /\ a + b + c + d + e \in Nat
           /\ a + b + c + d + e = 0 => a = 0 /\ b = 0 /\ c = 0 /\ d = 0 /\ e = 0
OBVIOUS

LEMMA SendingFinite ==
    /\ IsFiniteSet(Sending) /\ Cardinality(Sending) \in Nat
    /\ Cardinality(Sending) = 0 <=> Sending = {}
<1>1. IsFiniteSet(Sending)
  BY CpusAssumption, FS_Subset DEF Sending
<1>2. QED
  BY <1>1, FS_CardinalityType, FS_EmptySet

LEMMA Counts ==
    ASSUME DriverTypeOK, FarTypeOK, NetworkTypeOK, NEW s \in Servers
    PROVE  /\ Len(flight[s]) \in Nat /\ lost[s] \in Nat /\ Len(cq[s]) \in Nat
           /\ Working(s) \in Nat /\ Cardinality(Sending) \in Nat
           /\ srvBatch[s] \in Nat /\ batch \in Nat /\ Owed(s) \in Nat
           /\ Tally(s) = srvBatch[s] + Owed(s)
<1>1. Len(flight[s]) \in Nat /\ Len(cq[s]) \in Nat
  <2>1. flight[s] \in Seq(Page) /\ cq[s] \in Seq(Completion)
    BY DEF NetworkTypeOK, FarTypeOK
  <2>2. QED
    BY <2>1, LenProperties
<1>2. lost[s] \in Nat /\ srvBatch[s] \in Nat /\ batch \in Nat
  BY DEF NetworkTypeOK, FarTypeOK, DriverTypeOK
<1>3. Working(s) \in {0, 1} /\ Cardinality(Sending) \in Nat
  BY SendingFinite DEF Working
<1>4. Owed(s) \in Nat
  <2>1. Working(s) \in Nat
    BY <1>3
  <2>2. QED
    BY <1>1, <1>2, <1>3, <2>1, SumOfNats, Zenon DEF Owed
<1>5. QED
  BY <1>1, <1>2, <1>3, <1>4 DEF Tally

\* A server that is owed nothing has nothing on its way.
LEMMA NothingOwed ==
    ASSUME DriverTypeOK, FarTypeOK, NetworkTypeOK, NEW s \in Servers, Owed(s) = 0
    PROVE  /\ flight[s] = <<>> /\ lost[s] = 0 /\ cq[s] = <<>> /\ flow[s] = None
           /\ Sending = {}
<1>1. Len(flight[s]) = 0 /\ lost[s] = 0 /\ Len(cq[s]) = 0 /\ Working(s) = 0 /\ Cardinality(Sending) = 0
  <2> DEFINE a == Len(flight[s])  b == Len(cq[s])  w == Working(s)  n == Cardinality(Sending)
  <2>1. a \in Nat /\ lost[s] \in Nat /\ b \in Nat /\ w \in Nat /\ n \in Nat
    BY Counts
  <2>2. a + lost[s] + b + w + n = 0
    BY Zenon DEF Owed
  <2> HIDE DEF a, b, w, n
  <2>3. ASSUME NEW l \in Nat, a + l + b + w + n = 0
        PROVE  a = 0 /\ l = 0 /\ b = 0 /\ w = 0 /\ n = 0
    BY <2>1, <2>3
  <2>5. a = 0 /\ lost[s] = 0 /\ b = 0 /\ w = 0 /\ n = 0
    BY <2>1, <2>2, <2>3, Zenon
  <2>6. QED
    BY <2>5, Zenon DEF a, b, w, n
<1>2. flight[s] \in Seq(Page) /\ cq[s] \in Seq(Completion)
  BY DEF NetworkTypeOK, FarTypeOK
<1>3. flight[s] = <<>> /\ cq[s] = <<>>
  BY <1>1, <1>2, EmptySeq
<1>4. QED
  BY <1>1, <1>3, SendingFinite DEF Working

\* By how much what a server is owed changes.
OwedBy(s, i, j, k, m, n) ==
    /\ Len(flight'[s]) = Len(flight[s]) + i /\ lost'[s] = lost[s] + j
    /\ Len(cq'[s]) = Len(cq[s]) + k
    /\ Working(s)' = Working(s) + m /\ Cardinality(Sending') = Cardinality(Sending) + n

LEMMA OwedChange ==
    ASSUME DriverTypeOK, FarTypeOK, NetworkTypeOK, NEW s \in Servers
    PROVE  \A i, j, k, m, n \in Int :
             OwedBy(s, i, j, k, m, n) => Owed(s)' = Owed(s) + (i + j + k + m + n)
<1> SUFFICES ASSUME NEW i \in Int, NEW j \in Int, NEW k \in Int, NEW m \in Int, NEW n \in Int,
                    OwedBy(s, i, j, k, m, n)
             PROVE  Owed(s)' = Owed(s) + (i + j + k + m + n)
  OBVIOUS
<1> DEFINE a == Len(flight[s])  b == lost[s]  c == Len(cq[s])
           d == Working(s)  e == Cardinality(Sending)
<1>1. a \in Nat /\ b \in Nat /\ c \in Nat /\ d \in Nat /\ e \in Nat
  BY Counts
<1>2. Owed(s) = a + b + c + d + e
  BY Zenon DEF Owed
<1>3. Owed(s)' = (a + i) + (b + j) + (c + k) + (d + m) + (e + n)
  BY Zenon DEF Owed, OwedBy
<1> HIDE DEF a, b, c, d, e
<1>4. (a + i) + (b + j) + (c + k) + (d + m) + (e + n) = (a + b + c + d + e) + (i + j + k + m + n)
  BY <1>1
<1>5. QED
  BY <1>2, <1>3, <1>4, Zenon

\* What a page's way from the driver to a server's count does to it.
LEMMA OwedMoves ==
    ASSUME DriverTypeOK, FarTypeOK, NetworkTypeOK, NEW s \in Servers
    PROVE  /\ \/ OwedBy(s, 1, 0, 0, 0, -1) \/ OwedBy(s, -1, 0, 1, 0, 0)
              \/ OwedBy(s, -1, 1, 0, 0, 0) \/ OwedBy(s, 0, 0, -1, 1, 0)
              => Owed(s)' = Owed(s)
           /\ OwedBy(s, 0, 0, 0, 0, 1) => Owed(s)' = Owed(s) + 1
           /\ OwedBy(s, 0, 0, 0, -1, 0) \/ OwedBy(s, 0, 0, 0, 0, -1) => Owed(s)' = Owed(s) - 1
<1> DEFINE change(i, j, k, m, n) == Owed(s)' = Owed(s) + (i + j + k + m + n)
<1>0. Owed(s) \in Int /\ 0 \in Int /\ 1 \in Int /\ -1 \in Int
  BY Counts
<1>1. \A i, j, k, m, n \in Int : OwedBy(s, i, j, k, m, n) => change(i, j, k, m, n)
  BY OwedChange
<1> HIDE DEF change
<1>2. /\ OwedBy(s, 1, 0, 0, 0, -1) => change(1, 0, 0, 0, -1)
      /\ OwedBy(s, -1, 0, 1, 0, 0) => change(-1, 0, 1, 0, 0)
      /\ OwedBy(s, -1, 1, 0, 0, 0) => change(-1, 1, 0, 0, 0)
      /\ OwedBy(s, 0, 0, -1, 1, 0) => change(0, 0, -1, 1, 0)
      /\ OwedBy(s, 0, 0, 0, 0, 1) => change(0, 0, 0, 0, 1)
      /\ OwedBy(s, 0, 0, 0, -1, 0) => change(0, 0, 0, -1, 0)
      /\ OwedBy(s, 0, 0, 0, 0, -1) => change(0, 0, 0, 0, -1)
  BY <1>0, <1>1, Zenon
<1>3. /\ change(1, 0, 0, 0, -1) \/ change(-1, 0, 1, 0, 0) \/ change(-1, 1, 0, 0, 0)
         \/ change(0, 0, -1, 1, 0) => Owed(s)' = Owed(s)
      /\ change(0, 0, 0, 0, 1) => Owed(s)' = Owed(s) + 1
      /\ change(0, 0, 0, -1, 0) \/ change(0, 0, 0, 0, -1) => Owed(s)' = Owed(s) - 1
  BY <1>0 DEF change
<1>4. QED
  BY <1>2, <1>3, Zenon

----------------------------------------------------------------------------
(* What the driver's own steps do to the batch.                            *)

\* The page is counted, and then sent.
Reserves(c) ==
    /\ pc[c] = "reserve" /\ pc'[c] = "post" /\ arg'[c] = arg[c] /\ todo'[c] = todo[c]
    /\ batch' = batch + 1 /\ batched' = batched \cup {arg[c]}

\* The batch has been committed.
Clears(c) ==
    /\ pc[c] = "commit" /\ todo[c] = <<>> /\ pc'[c] = "reset" /\ todo'[c] = todo[c]
    /\ batch' = 0 /\ batched' = {}

\* The page was not sent.
GivesUp(c) == pc[c] = "post" /\ "post" \in Faults /\ pc'[c] = "idle" /\ todo'[c] = <<>>
              /\ batch' = batch /\ batched' = batched

StartsCommit(c) ==
    /\ pc[c] = "check" /\ pc'[c] = "commit" /\ todo'[c] = AliveOrder
    /\ batch' = batch /\ batched' = batched

\* Any other step.
Aside(c) ==
    /\ pc[c] \notin CommitPcs \cup {"post"} /\ pc'[c] \notin CommitPcs \cup {"post"}
    /\ todo'[c] \in {todo[c], Tail(todo[c]), <<>>, AliveOrder}
    /\ todo[c] = <<>> => todo'[c] \in {<<>>, AliveOrder}
    /\ batch' = batch /\ batched' = batched

LEMMA BatchMoves ==
    ASSUME DriverTypeOK, NEW c \in Cpus, DriverAlone(c)
    PROVE  Reserves(c) \/ Clears(c) \/ GivesUp(c) \/ StartsCommit(c) \/ Aside(c)
<1> USE DEF lockVars, stageVars, callVars, swapVars, Goto, CommitPcs
<1>0. /\ LocalStep(c)
      /\ batched' = CASE pc[c] = "reserve"                       -> batched \cup {arg[c]}
                      [] pc[c] = "commit" /\ pc'[c] = "reset"    -> {}
                      [] OTHER                                   -> batched
  BY Zenon DEF DriverAlone
<1>1. ASSUME pc[c] # "reserve", pc[c] # "commit" PROVE batched' = batched
  BY <1>0, <1>1
<1>2. ASSUME NEW o \in Offsets, StoreBegin(c, o) \/ StoreUnmapped(c, o) \/ LoadBegin(c, o) PROVE Aside(c)
  BY <1>1, <1>2 DEF StoreBegin, StoreUnmapped, LoadBegin, DriverTypeOK, Aside
<1>3. CASE EnterWrite(c)
  BY <1>1, <1>3 DEF EnterWrite, DriverTypeOK, Aside
<1>4. ASSUME NEW s \in Servers, OpenSkip(c, s) PROVE Aside(c)
  BY <1>1, <1>4 DEF OpenSkip, NextServer, DriverTypeOK, Aside
<1>5. CASE OpenDone(c)
  BY <1>1, <1>5 DEF OpenDone, DriverTypeOK, Aside
<1>6. CASE CheckBatch(c)
  BY <1>1, <1>6 DEF CheckBatch, DriverTypeOK, Aside, StartsCommit
<1>7. CASE ClearStage(c)
  BY <1>0, <1>7 DEF ClearStage, DriverTypeOK, Clears
<1>8. CASE Reserve(c)
  BY <1>0, <1>8 DEF Reserve, DriverTypeOK, Reserves
<1>9. CASE PostFails(c)
  <2>1. pc[c] = "post" /\ batch' = batch /\ "post" \in Faults /\ Return(c)
    BY <1>9 DEF PostFails, StoreResult
  <2>2. pc'[c] = "idle" /\ todo'[c] = <<>>
    BY <2>1 DEF Return, DriverTypeOK
  <2>3. QED
    BY <1>1, <2>1, <2>2 DEF GivesUp
<1>10. CASE ResetCount(c)
  <2>1. batch' = batch /\ pc[c] = "reset" /\ (Return(c) \/ (pc' = [pc EXCEPT ![c] = "reserve"] /\ todo' = todo))
    BY <1>10 DEF ResetCount, StoreResult
  <2>2. CASE Return(c)
    BY <1>1, <2>1, <2>2 DEF Return, DriverTypeOK, Aside
  <2>3. CASE pc' = [pc EXCEPT ![c] = "reserve"] /\ todo' = todo
    BY <1>1, <2>1, <2>3 DEF DriverTypeOK, Aside
  <2>4. QED
    BY <2>1, <2>2, <2>3
<1>11. ASSUME OpenFailed(c) \/ LoadDone(c)
              \/ (\E ok \in Outcomes("send") : PollSend(c, ok)) \/ \E s \in Servers : ReadFails(c, s)
       PROVE  Aside(c)
  <2>1. Return(c) /\ batch' = batch /\ pc[c] \in {"open", "loaded", "poll", "read"}
    BY <1>11 DEF OpenFailed, LoadDone, PollSend, ReadFails, StoreResult
  <2>2. QED
    BY <1>1, <2>1 DEF Return, DriverTypeOK, Aside
<1>12. ASSUME StageFull(c) \/ StageStore(c) \/ StageUnlocks(c) \/ StageRetakes(c)
              \/ CountLoad(c) \/ CountStore(c) \/ StageHit(c) \/ StageMiss(c) \/ ReadHangs(c)
       PROVE  Aside(c)
  <2>1. /\ todo' = todo /\ batch' = batch
        /\ pc[c] \in {"stage", "retake", "count", "add", "load", "read"}
        /\ \E l \in {"poll", "count", "retake", "add", "loaded", "read", "hung"} :
             pc' = [pc EXCEPT ![c] = l]
    BY <1>12 DEF StageFull, StageStore, StageUnlocks, StageRetakes, TakeSlot, CountLoad, CountStore,
       StageHit, StageMiss, ReadHangs
  <2>2. QED
    BY <1>1, <2>1 DEF DriverTypeOK, Aside
<1>13. QED
  BY <1>0, <1>2, <1>3, <1>4, <1>5, <1>6, <1>7, <1>8, <1>9, <1>10, <1>11, <1>12 DEF LocalStep

LEMMA AliveOnce == Distinct(AliveOrder) /\ Distinct(<<>>)
BY AliveOnceAssumption DEF Distinct

\* The loops over the alive servers call each of them once.
LEMMA TodoStep ==
    ASSUME PartsInv, [Next]_vars, \A c \in Cpus : Distinct(todo[c])
    PROVE  \A c \in Cpus : Distinct(todo'[c])
<1>0. DriverTypeOK /\ FarTypeOK /\ NetworkTypeOK
  BY PartsTypes
<1>1. ASSUME NEW d \in Cpus, \/ todo'[d] = todo[d] \/ todo'[d] \in {<<>>, AliveOrder}
                             \/ todo[d] # <<>> /\ todo'[d] = Tail(todo[d])
      PROVE  Distinct(todo'[d])
  <2>1. todo[d] \in Seq(Servers)
    BY <1>0 DEF DriverTypeOK
  <2>2. todo[d] # <<>> => Distinct(Tail(todo[d]))
    BY <2>1, HeadAndTail
  <2>3. QED
    BY <1>1, <2>2, AliveOnce
<1>2. ASSUME NEW c \in Cpus, CpuStep(c), NEW d \in Cpus PROVE Distinct(todo'[d])
  <2>1. CASE DriverAlone(c)
    <3>1. d # c => todo'[d] = todo[d]
      BY <1>0, <2>1, LocalMoves DEF DriverAlone, OnlyCpu
    <3>2. \/ todo'[c] = todo[c] \/ todo'[c] \in {<<>>, AliveOrder}
          \/ todo[c] # <<>> /\ todo'[c] = Tail(todo[c])
      BY <1>0, <2>1, BatchMoves DEF Reserves, Clears, GivesUp, StartsCommit, Aside
    <3>3. QED
      BY <1>1, <3>1, <3>2
  <2>2. CASE ~DriverAlone(c)
    <3>1. todo' = todo \/ (todo[c] # <<>> /\ todo' = [todo EXCEPT ![c] = Tail(@)])
      BY <1>2, <2>2 DEF CpuStep, CallOpen, OpenCall, OpenAnswered, OpenReturn, CallCommit, CommitCall,
         CallLost, OpenFails, CommitFails, CommitAnswered, CommitReturn, ReadRemote, RdmaRead,
         Multicast, Post, NextServer
    <3>2. todo'[d] = todo[d] \/ (todo[d] # <<>> /\ todo'[d] = Tail(todo[d]))
      BY <1>0, <3>1 DEF DriverTypeOK
    <3>3. QED
      BY <1>1, <3>2
  <2>3. QED
    BY <2>1, <2>2
<1>3. CASE UNCHANGED driverVars
  BY <1>3 DEF driverVars, callVars
<1>4. QED
  BY <1>0, <1>2, <1>3, NetSteps, SystemSteps DEF vars

----------------------------------------------------------------------------
(* Steps that leave the account as it is.                                  *)

SameServer(s) ==
    /\ flight'[s] = flight[s] /\ lost'[s] = lost[s] /\ cq'[s] = cq[s] /\ flow'[s] = flow[s]
    /\ srvBatch'[s] = srvBatch[s] /\ mem'[s] = mem[s] /\ delivered'[s] = delivered[s]
    /\ rpcPc'[s] \in PutbackPcs => rpcPc'[s] = rpcPc[s]
    /\ convey'[s] = convey[s] /\ clash'[s] = clash[s]

SameBatch ==
    /\ batch' = batch /\ batched' = batched /\ Sending' = Sending
    /\ \A c \in Sending : arg'[c] = arg[c]

LEMMA AccountKept ==
    ASSUME NEW s \in Servers, Accounted(s), SameServer(s), SameBatch, Settled(s)' <=> Settled(s)
    PROVE  Accounted(s)'
<1>1. Working(s)' = Working(s)
  BY DEF SameServer, Working
<1>2. Owed(s)' = Owed(s)
  BY <1>1, Zenon DEF SameServer, SameBatch, Owed
<1>3. Tally(s)' = Tally(s) /\ srvBatch'[s] = srvBatch[s]
  BY <1>2, Zenon DEF SameServer, Tally
<1>4. \A p : (Reached(s, p) <=> Reached(s, p)') /\ (HasAtLeast(s, p) <=> HasAtLeast(s, p)')
  BY DEF SameServer, SameBatch, Reached, HasAtLeast, AtLeast
<1>5. batch' = batch /\ batched' = batched /\ lost'[s] = lost[s]
  BY DEF SameServer, SameBatch
<1>6. Undisturbed(s)'
  BY DEF Accounted, Undisturbed, SameServer
<1>7. Collects(s)'
  <2>1. Collects(s) /\ (rpcPc'[s] \in PutbackPcs => rpcPc'[s] = rpcPc[s]) /\ "reset" \in PutbackPcs
    BY DEF Accounted, SameServer, PutbackPcs
  <2>2. rpcPc'[s] \in PutbackPcs => Owed(s)' = 0 /\ srvBatch'[s] = batch'
    BY <1>2, <1>3, <1>5, <2>1 DEF Collects
  <2>3. rpcPc'[s] = "reset" => \A p \in batched' : HasAtLeast(s, p)'
    BY <1>4, <1>5, <2>1 DEF Collects
  <2>4. QED
    BY <2>2, <2>3, Zenon DEF Collects
<1>8. Finished(s) => Finished(s)'
  BY <1>2, <1>3, <1>4, <1>5, Zenon DEF Finished
<1>9. Underway(s) => Underway(s)'
  BY <1>3, <1>4, <1>5, Zenon DEF Underway
<1>10. QED
  BY <1>6, <1>7, <1>8, <1>9 DEF Accounted

\* A CPU that holds ctrl.spinlock and is not calling a server: no server has
\* answered, nor works on, a commit.
LEMMA NoCommitNow ==
    ASSUME DriverInv, CallsAnswered, NEW c \in Cpus, pc[c] \in SpinPcs \ CommitPcs,
           pc[c] # "opening", NEW s \in Servers, ~broken[s]
    PROVE  ~Settled(s) /\ rpcPc[s] = "idle"
<1>1. \A d \in Cpus : pc[d] \in SpinPcs => d = c
  BY OneHolder
<1>2. \A d \in Cpus : pc[d] \notin RpcPcs /\ pc[d] \notin CommitPcs
  BY <1>1 DEF SpinPcs, CommitPcs, RpcPcs
<1>3. req[s] = None /\ rep[s] = None
  BY <1>2 DEF CallsAnswered, Calls
<1>4. CommitRequest # None
  BY ServerBatchAssumption, NoRequestAssumption DEF Requests, CommitRequest
<1>5. QED
  BY <1>2, <1>3, <1>4, NoReplyAssumption DEF CallsAnswered, Asked, Settled, Committed

\* What is settled depends on the CPU that commits, and the server's answer.
LEMMA SettledBy ==
    ASSUME NEW c \in Cpus, NEW s \in Servers, rep'[s] = rep[s],
           \A d \in Cpus : d # c => pc'[d] = pc[d] /\ todo'[d] = todo[d],
           \/ pc[c] \notin CommitPcs /\ pc'[c] \notin CommitPcs
           \/ /\ pc[c] \in CommitPcs /\ pc'[c] \in CommitPcs
              /\ s \in Elems(todo'[c]) <=> s \in Elems(todo[c])
    PROVE  Settled(s)' <=> Settled(s)
BY DEF Settled, Committed

----------------------------------------------------------------------------
(* The steps of a CPU.                                                     *)

\* Stores that begin and stop sending.
LEMMA SendingMoves ==
    ASSUME DriverTypeOK, NEW c \in Cpus, \A d \in Cpus : d # c => pc'[d] = pc[d]
    PROVE  /\ (pc[c] = "post" <=> pc'[c] = "post") => Sending' = Sending
           /\ pc[c] # "post" /\ pc'[c] = "post" =>
                /\ Sending' = Sending \cup {c}
                /\ Cardinality(Sending') = Cardinality(Sending) + 1
           /\ pc[c] = "post" /\ pc'[c] # "post" =>
                /\ Sending' = Sending \ {c} /\ c \in Sending
                /\ Cardinality(Sending') = Cardinality(Sending) - 1
<1>1. (pc[c] = "post" <=> pc'[c] = "post") => Sending' = Sending
  BY DEF Sending
<1>2. ASSUME pc[c] # "post", pc'[c] = "post"
      PROVE  Sending' = Sending \cup {c} /\ Cardinality(Sending') = Cardinality(Sending) + 1
  <2>1. Sending' = Sending \cup {c} /\ c \notin Sending
    BY <1>2 DEF Sending
  <2>2. QED
    BY <2>1, SendingFinite, FS_AddElement
<1>3. ASSUME pc[c] = "post", pc'[c] # "post"
      PROVE  /\ Sending' = Sending \ {c} /\ c \in Sending
             /\ Cardinality(Sending') = Cardinality(Sending) - 1
  <2>1. Sending' = Sending \ {c} /\ c \in Sending
    BY <1>3 DEF Sending
  <2>2. QED
    BY <2>1, SendingFinite, FS_RemoveElement
<1>4. QED
  BY <1>1, <1>2, <1>3

\* The page is counted on both sides of the account.
LEMMA ReserveAccounts ==
    ASSUME PartsInv, CallsAnswered, NEW c \in Cpus, OnlyCpu(c), Reserves(c),
           NEW s \in Servers, ~broken[s], SameServer(s), rep'[s] = rep[s], Accounted(s)
    PROVE  Accounted(s)'
<1>0. /\ DriverTypeOK /\ FarTypeOK /\ NetworkTypeOK /\ DriverInv
  BY PartsTypes DEF PartsInv
<1>1. /\ pc[c] = "reserve" /\ pc'[c] = "post" /\ arg'[c] = arg[c]
      /\ batch' = batch + 1 /\ batched' = batched \cup {arg[c]}
      /\ \A d \in Cpus : d # c => pc'[d] = pc[d] /\ arg'[d] = arg[d] /\ todo'[d] = todo[d]
  BY DEF Reserves, OnlyCpu
<1>2. ~Settled(s) /\ rpcPc[s] = "idle"
  BY <1>0, <1>1, NoCommitNow DEF SpinPcs, CommitPcs
<1>3. ~Settled(s)'
  BY <1>1, <1>2, SettledBy DEF CommitPcs
<1>4. Sending' = Sending \cup {c} /\ Cardinality(Sending') = Cardinality(Sending) + 1
  BY <1>0, <1>1, SendingMoves
<1>5. Owed(s)' = Owed(s) + 1
  <2>1. Len(flight'[s]) = Len(flight[s]) + 0 /\ lost'[s] = lost[s] + 0 /\ Len(cq'[s]) = Len(cq[s]) + 0
    BY <1>0, Counts DEF SameServer
  <2>2. Working(s)' = Working(s) + 0
    BY <1>0, Counts DEF SameServer, Working
  <2>3. OwedBy(s, 0, 0, 0, 0, 1)
    BY <1>4, <2>1, <2>2, Zenon DEF OwedBy
  <2>4. QED
    BY <1>0, <2>3, OwedMoves
<1>6. Tally(s)' = Tally(s) + 1 /\ Tally(s) \in Int /\ batch \in Int
  <2>1. Tally(s)' = srvBatch[s] + (Owed(s) + 1)
    BY <1>5, Zenon DEF Tally, SameServer
  <2>2. QED
    BY <1>0, <2>1, Counts
<1>7. Underway(s)'
  <2>1. \A p : Reached(s, p) => Reached(s, p)'
    BY <1>1, <1>4 DEF Reached, SameServer, Sending
  <2>2. Reached(s, arg[c])'
    BY <1>1, <1>4 DEF Reached
  <2>3. Underway(s) /\ lost'[s] = lost[s]
    BY <1>2 DEF Accounted, SameServer
  <2>4. Tally(s)' <= batch' /\ ("post" \notin Faults => Tally(s)' = batch')
    BY <1>1, <1>6, <2>3 DEF Underway
  <2>5. Tally(s) < batch => Tally(s)' < batch'
    BY <1>1, <1>6
  <2>6. QED
    BY <1>1, <2>1, <2>2, <2>3, <2>4, <2>5 DEF Underway
<1>8. QED
  BY <1>2, <1>3, <1>7 DEF Accounted, Undisturbed, Collects, PutbackPcs, SameServer

\* The driver counted a page no server will.
LEMMA GiveUpAccounts ==
    ASSUME PartsInv, NEW c \in Cpus, OnlyCpu(c), GivesUp(c),
           NEW s \in Servers, SameServer(s), rep'[s] = rep[s], Accounted(s)
    PROVE  Accounted(s)'
<1>0. /\ DriverTypeOK /\ FarTypeOK /\ NetworkTypeOK
  BY PartsTypes DEF PartsInv
<1>1. /\ pc[c] = "post" /\ pc'[c] = "idle" /\ "post" \in Faults /\ batch' = batch /\ batched' = batched
      /\ \A d \in Cpus : d # c => pc'[d] = pc[d] /\ arg'[d] = arg[d] /\ todo'[d] = todo[d]
  BY DEF GivesUp, OnlyCpu
<1>2. /\ Sending' = Sending \ {c} /\ c \in Sending
      /\ Cardinality(Sending') = Cardinality(Sending) - 1
  BY <1>0, <1>1, SendingMoves
<1>3. Owed(s) # 0
  BY <1>0, <1>2, NothingOwed
<1>4. ~Settled(s) /\ rpcPc[s] \notin PutbackPcs /\ Underway(s)
  BY <1>3 DEF Accounted, Finished, Collects
<1>5. ~Settled(s)'
  BY <1>1, <1>4, SettledBy DEF CommitPcs
<1>6. Owed(s)' = Owed(s) - 1
  <2>1. Len(flight'[s]) = Len(flight[s]) + 0 /\ lost'[s] = lost[s] + 0 /\ Len(cq'[s]) = Len(cq[s]) + 0
    BY <1>0, Counts DEF SameServer
  <2>2. Working(s)' = Working(s) + 0
    BY <1>0, Counts DEF SameServer, Working
  <2>3. Cardinality(Sending') = Cardinality(Sending) + (-1)
    BY <1>2, SendingFinite
  <2>4. OwedBy(s, 0, 0, 0, 0, -1)
    BY <2>1, <2>2, <2>3, Zenon DEF OwedBy
  <2>5. QED
    BY <1>0, <2>4, OwedMoves
<1>7. Tally(s)' < Tally(s) /\ Tally(s)' \in Int /\ Tally(s) \in Int /\ batch \in Int
  <2>1. Tally(s)' = srvBatch[s] + (Owed(s) - 1)
    BY <1>6, Zenon DEF Tally, SameServer
  <2>2. QED
    BY <1>0, <2>1, Counts
<1>8. Underway(s)'
  BY <1>1, <1>4, <1>7 DEF Underway
<1>9. Collects(s)' /\ Undisturbed(s)'
  BY <1>4 DEF Accounted, Undisturbed, Collects, SameServer, PutbackPcs
<1>10. QED
  BY <1>5, <1>8, <1>9 DEF Accounted

\* The batch starts anew when every server has settled the last one.
LEMMA ClearAccounts ==
    ASSUME PartsInv, NEW c \in Cpus, OnlyCpu(c), Clears(c),
           NEW s \in Servers, SameServer(s), rep'[s] = rep[s], Accounted(s)
    PROVE  Accounted(s)'
<1>0. DriverTypeOK /\ FarTypeOK /\ NetworkTypeOK
  BY PartsTypes DEF PartsInv
<1>1. /\ pc[c] = "commit" /\ pc'[c] = "reset" /\ todo[c] = <<>> /\ batch' = 0 /\ batched' = {}
      /\ \A d \in Cpus : d # c => pc'[d] = pc[d] /\ arg'[d] = arg[d]
  BY DEF Clears, OnlyCpu
<1>2. Settled(s)
  BY <1>1 DEF Settled, CommitPcs, Elems
<1>3. Owed(s) = 0 /\ srvBatch[s] = 0
  BY <1>2 DEF Accounted, Finished
<1>4. Sending' = Sending
  BY <1>0, <1>1, SendingMoves
<1>5. Owed(s)' = Owed(s)
  BY <1>4, Zenon DEF SameServer, Owed, Working
<1>6. Tally(s)' = 0
  <2>1. Tally(s)' = 0 + 0
    BY <1>3, <1>5, Zenon DEF Tally, SameServer
  <2>2. QED
    BY <2>1
<1>7. Underway(s)' /\ Finished(s)'
  BY <1>1, <1>3, <1>5, <1>6 DEF Underway, Finished, SameServer
<1>8. QED
  BY <1>1, <1>3, <1>5, <1>7 DEF Accounted, Undisturbed, Collects, SameServer

\* What a step of the driver by itself does to the account of a server.
LEMMA LocalAccounts ==
    ASSUME PartsInv, CallsAnswered, NEW c \in Cpus, DriverAlone(c),
           NEW s \in Alive, InTouch(s), Accounted(s)
    PROVE  Accounted(s)'
<1>0. DriverTypeOK /\ DriverInv /\ s \in Servers /\ s \in Elems(AliveOrder) /\ ~broken[s]
  BY PartsTypes, AliveAreServers DEF PartsInv, InTouch
<1>1. OnlyCpu(c)
  BY <1>0, LocalMoves DEF DriverAlone
<1>2. SameServer(s) /\ rep'[s] = rep[s]
  BY DEF DriverAlone, serverVars, queueVars, listVars, rmhVars, rpcVars, historyVars, SameServer
<1>3. ASSUME Aside(c) \/ StartsCommit(c) PROVE SameBatch
  <2>1. pc[c] # "post" /\ pc'[c] # "post" /\ batch' = batch /\ batched' = batched
    BY <1>3 DEF Aside, StartsCommit
  <2>2. Sending' = Sending
    BY <1>0, <1>1, <2>1, SendingMoves DEF OnlyCpu
  <2>3. \A d \in Sending : arg'[d] = arg[d]
    BY <1>1, <2>1 DEF Sending, OnlyCpu
  <2>4. QED
    BY <2>1, <2>2, <2>3 DEF SameBatch
<1>4. CASE Aside(c)
  <2>1. Settled(s)' <=> Settled(s)
    BY <1>0, <1>1, <1>2, <1>4, SettledBy DEF Aside, OnlyCpu
  <2>2. QED
    BY <1>0, <1>2, <1>3, <1>4, <2>1, AccountKept
<1>5. CASE StartsCommit(c)
  <2>1. ~Settled(s)
    BY <1>0, <1>5, NoCommitNow DEF StartsCommit, SpinPcs, CommitPcs
  <2>2. ~Settled(s)'
    BY <1>0, <1>1, <1>2, <1>5, <2>1 DEF StartsCommit, OnlyCpu, Settled, Committed
  <2>3. QED
    BY <1>0, <1>2, <1>3, <1>5, <2>1, <2>2, AccountKept
<1>6. QED
  BY <1>0, <1>1, <1>2, <1>4, <1>5, BatchMoves, ReserveAccounts, GiveUpAccounts, ClearAccounts

\* A page moves on between the driver and the server's count.
LEMMA PageMoves ==
    ASSUME NEW s, Accounted(s), Owed(s) # 0, Undisturbed(s)',
           rpcPc'[s] \in PutbackPcs => rpcPc'[s] = rpcPc[s], Settled(s)' <=> Settled(s),
           Tally(s)' = Tally(s), batch' = batch, batched' = batched,
           lost'[s] = lost[s] \/ lost'[s] > 0,
           \A p \in batched : Reached(s, p) => Reached(s, p)' \/ lost'[s] > 0
    PROVE  Accounted(s)'
<1>1. ~Settled(s) /\ rpcPc[s] \notin PutbackPcs /\ Underway(s)
  BY DEF Accounted, Finished, Collects
<1>2. Underway(s)'
  BY <1>1 DEF Underway
<1>3. Collects(s)'
  BY <1>1 DEF Collects, PutbackPcs
<1>4. QED
  BY <1>1, <1>2, <1>3 DEF Accounted

\* The page is sent.
LEMMA MulticastAccounts ==
    ASSUME PartsInv, NEW c \in Cpus, Multicast(c), NEW s \in Alive, Accounted(s)
    PROVE  Accounted(s)'
<1>0. DriverTypeOK /\ FarTypeOK /\ NetworkTypeOK /\ s \in Servers
  BY PartsTypes, AliveAreServers
<1>1. /\ pc[c] = "post" /\ pc'[c] = "stage" /\ \A d \in Cpus : d # c => pc'[d] = pc[d]
      /\ arg' = arg /\ todo' = todo /\ batch' = batch /\ batched' = batched /\ lost' = lost
      /\ flight'[s] = Append(flight[s], arg[c])
  BY <1>0 DEF Multicast, Post, Goto, lockVars, DriverTypeOK
<1>2. /\ cq' = cq /\ flow' = flow /\ srvBatch' = srvBatch /\ delivered' = delivered
      /\ rpcPc' = rpcPc /\ convey' = convey /\ clash' = clash /\ rep' = rep
  BY DEF Multicast, serverVars, queueVars, listVars, rmhVars, rpcVars, historyVars
<1>3. Sending' = Sending \ {c} /\ c \in Sending /\ Cardinality(Sending') = Cardinality(Sending) - 1
  BY <1>0, <1>1, SendingMoves
<1>4. flight[s] \in Seq(Page) /\ arg[c] \in Page
  BY <1>0, <1>1, PageOfCall DEF NetworkTypeOK
<1>5. Elems(flight'[s]) = Elems(flight[s]) \cup {arg[c]}
  BY <1>1, <1>4, ElemsOfAppend
<1>6. Owed(s)' = Owed(s) /\ Owed(s) # 0
  <2>1. Len(flight'[s]) = Len(flight[s]) + 1
    BY <1>1, <1>4, AppendProperties
  <2>2. lost'[s] = lost[s] + 0 /\ Len(cq'[s]) = Len(cq[s]) + 0 /\ Working(s)' = Working(s) + 0
    BY <1>0, <1>1, <1>2, Counts DEF Working
  <2>3. Cardinality(Sending') = Cardinality(Sending) + (-1)
    BY <1>3, SendingFinite
  <2>4. OwedBy(s, 1, 0, 0, 0, -1)
    BY <2>1, <2>2, <2>3, Zenon DEF OwedBy
  <2>5. Owed(s)' = Owed(s)
    BY <1>0, <2>4, OwedMoves
  <2>6. QED
    BY <1>0, <1>3, <2>5, NothingOwed
<1>7. Tally(s)' = Tally(s)
  BY <1>2, <1>6, Zenon DEF Tally
<1>8. \A p : Reached(s, p) => Reached(s, p)'
  BY <1>1, <1>2, <1>3, <1>5 DEF Reached
<1>9. Settled(s)' <=> Settled(s)
  BY <1>0, <1>1, <1>2, SettledBy DEF CommitPcs
<1>10. Undisturbed(s)'
  BY <1>2 DEF Accounted, Undisturbed
<1>11. QED
  BY <1>1, <1>2, <1>6, <1>7, <1>8, <1>9, <1>10, PageMoves

\* Calls of a server, and its answers, change nothing but what is settled: a
\* server stays settled when the answer to its commit is taken.
LEMMA CallAccounts ==
    ASSUME PartsInv, CallsAnswered, \A d \in Cpus : Distinct(todo[d]),
           NEW c \in Cpus, NEW t \in Servers,
           \/ CallOpen(c, t) \/ OpenAnswered(c, t) \/ CallCommit(c, t) \/ CommitAnswered(c, t)
           \/ CallWithoutAnswer(c, t) \/ ReadRemote(c, t),
           NEW s \in Alive, InTouch(s)', Accounted(s)
    PROVE  Accounted(s)'
<1> USE DEF lockVars, stageVars, callVars, swapVars, netVars, queueVars, listVars, rmhVars, rpcVars,
       historyVars, serverVars, Goto
<1>0. DriverTypeOK /\ FarTypeOK /\ NetworkTypeOK /\ s \in Servers
  BY PartsTypes, AliveAreServers
<1>1. SameServer(s)
  BY DEF CallOpen, OpenAnswered, CallCommit, CommitAnswered, CallWithoutAnswer, CallLost, OpenFails,
     CommitFails, ReadRemote, Call, TakeReply, SameServer, PutbackPcs
<1>2. SameBatch
  <2>1. /\ arg' = arg /\ batch' = batch /\ batched' = batched
        /\ \A d \in Cpus : d # c => pc'[d] = pc[d]
        /\ pc[c] # "post" /\ pc'[c] # "post"
    BY <1>0 DEF CallOpen, OpenAnswered, CallCommit, CommitAnswered, CallWithoutAnswer, CallLost,
       OpenFails, CommitFails, ReadRemote, OpenCall, OpenReturn, CommitCall, CommitReturn, RdmaRead,
       DriverTypeOK
  <2>2. QED
    BY <1>0, <2>1, SendingMoves DEF SameBatch
<1>3. CASE CallOpen(c, t) \/ CallCommit(c, t) \/ ReadRemote(c, t)
  <2>1. /\ rep' = rep /\ todo' = todo /\ \A d \in Cpus : d # c => pc'[d] = pc[d]
        /\ \/ pc[c] \notin CommitPcs /\ pc'[c] \notin CommitPcs
           \/ pc[c] \in CommitPcs /\ pc'[c] \in CommitPcs
    BY <1>0, <1>3 DEF CallOpen, CallCommit, ReadRemote, OpenCall, CommitCall, RdmaRead, Call,
       CommitPcs, DriverTypeOK
  <2>2. Settled(s)' <=> Settled(s)
    BY <1>0, <2>1, SettledBy
  <2>3. QED
    BY <1>0, <1>1, <1>2, <2>2, AccountKept
<1>4. CASE OpenAnswered(c, t)
  <2>1. /\ pc[c] = "opening" /\ pc'[c] = "open" /\ NextServer(c, t) /\ rep[t] # None /\ ~broken[t]
        /\ rep' = [rep EXCEPT ![t] = None]
        /\ \A d \in Cpus : d # c => pc'[d] = pc[d] /\ todo'[d] = todo[d]
    BY <1>0, <1>4 DEF OpenAnswered, OpenReturn, TakeReply, DriverTypeOK
  <2>2. Answering(c, t)
    BY <2>1 DEF CallsAnswered, Calls, RpcPcs
  <2>3. rep[t] = "opened"
    BY <2>1, <2>2 DEF Answering
  <2>4. Committed(s)' <=> Committed(s)
    BY <1>0, <2>1, <2>3, NoReplyAssumption DEF Committed, FarTypeOK
  <2>5. Settled(s)' <=> Settled(s)
    BY <2>1, <2>4 DEF Settled, CommitPcs
  <2>6. QED
    BY <1>0, <1>1, <1>2, <2>5, AccountKept
<1>5. CASE CommitAnswered(c, t)
  <2>1. /\ pc[c] = "committing" /\ pc'[c] = "commit" /\ NextServer(c, t) /\ rep[t] # None /\ ~broken[t]
        /\ rep' = [rep EXCEPT ![t] = None] /\ todo'[c] = Tail(todo[c])
        /\ \A d \in Cpus : d # c => pc'[d] = pc[d] /\ todo'[d] = todo[d]
    BY <1>0, <1>5 DEF CommitAnswered, CommitReturn, TakeReply, DriverTypeOK
  <2>2. Answering(c, t)
    BY <2>1 DEF CallsAnswered, Calls, RpcPcs
  <2>3. rep[t] = "committed"
    BY <2>1, <2>2 DEF Answering
  <2>4. todo[c] \in Seq(Servers) /\ todo[c] # <<>> /\ t = Head(todo[c])
    BY <1>0, <2>1 DEF DriverTypeOK, NextServer
  <2>5. t \notin Elems(Tail(todo[c])) /\ Elems(todo[c]) = {t} \cup Elems(Tail(todo[c]))
    BY <2>4, HeadAndTail
  <2>6. CASE s = t
    <3>1. Settled(s)' /\ Settled(s)
      BY <2>1, <2>3, <2>5, <2>6 DEF Settled, Committed, CommitPcs
    <3>2. QED
      BY <1>0, <1>1, <1>2, <3>1, AccountKept
  <2>7. CASE s # t
    <3>1. rep'[s] = rep[s] /\ (s \in Elems(todo'[c]) <=> s \in Elems(todo[c]))
      BY <1>0, <2>1, <2>5, <2>7 DEF FarTypeOK
    <3>2. Settled(s)' <=> Settled(s)
      BY <1>0, <2>1, <3>1, SettledBy DEF CommitPcs
    <3>3. QED
      BY <1>0, <1>1, <1>2, <3>2, AccountKept
  <2>8. QED
    BY <2>6, <2>7
<1>6. CASE CallWithoutAnswer(c, t)
  <2>1. /\ rep' = rep
        /\ \A d \in Cpus : d # c => pc'[d] = pc[d] /\ todo'[d] = todo[d]
        /\ \/ pc[c] \notin CommitPcs /\ pc'[c] \notin CommitPcs
           \/ pc[c] \in CommitPcs /\ pc'[c] \in CommitPcs /\ todo'[c] = todo[c]
           \/ /\ pc[c] \in CommitPcs /\ pc'[c] \in CommitPcs /\ todo'[c] = Tail(todo[c])
              /\ NextServer(c, t) /\ ~InTouch(t)'
    <3>1. /\ UNCHANGED serverVars
          /\ \/ OpenCall(c, t) \/ CommitCall(c, t) \/ OpenReturn(c, t, FALSE)
             \/ CommitReturn(c, t, FALSE) /\ ~InTouch(t)'
      BY <1>0, <1>6, WithoutAnswer
    <3>2. QED
      BY <1>0, <3>1 DEF OpenCall, CommitCall, OpenReturn, CommitReturn, CommitPcs, DriverTypeOK
  <2>2. CASE todo'[c] = Tail(todo[c]) /\ NextServer(c, t) /\ ~InTouch(t)'
    <3>1. s # t
      BY <2>2
    <3>2. todo[c] \in Seq(Servers) /\ todo[c] # <<>> /\ t = Head(todo[c])
      BY <1>0, <2>2 DEF DriverTypeOK, NextServer
    <3>3. Elems(todo[c]) = {t} \cup Elems(Tail(todo[c]))
      BY <3>2, HeadAndTail
    <3>4. s \in Elems(todo'[c]) <=> s \in Elems(todo[c])
      BY <2>2, <3>1, <3>3
    <3>5. Settled(s)' <=> Settled(s)
      BY <1>0, <2>1, <3>4, SettledBy
    <3>6. QED
      BY <1>0, <1>1, <1>2, <3>5, AccountKept
  <2>3. CASE ~(todo'[c] = Tail(todo[c]) /\ NextServer(c, t) /\ ~InTouch(t)')
    <3>1. Settled(s)' <=> Settled(s)
      BY <1>0, <2>1, <2>3, SettledBy
    <3>2. QED
      BY <1>0, <1>1, <1>2, <3>1, AccountKept
  <2>4. QED
    BY <2>2, <2>3
<1>7. QED
  BY <1>3, <1>4, <1>5, <1>6

----------------------------------------------------------------------------
(* The steps of the network and the servers.                               *)

\* A step of another server, or of its network.
LEMMA OtherAccounts ==
    ASSUME FarTypeOK, NetworkTypeOK, NEW t \in Servers, NetStep(t),
           NEW s \in Servers, s # t, Accounted(s)
    PROVE  Accounted(s)'
<1> USE DEF queueVars, listVars, rmhVars, rpcVars, historyVars, serverVars, netVars
<1>1. UNCHANGED driverVars /\ batched' = batched
  BY NetSteps DEF NetStep, Deliver, Lose, MulticastThreadAlone, RdmaThreadAlone
<1>2. SameBatch
  BY <1>1 DEF SameBatch, Sending, driverVars, lockVars, callVars
<1>3. SameServer(s) /\ rep'[s] = rep[s]
  <2> USE DEF FarTypeOK, NetworkTypeOK, SameServer, PutbackPcs
  <2>1. CASE Deliver(t)
    BY <2>1 DEF Deliver, Receive
  <2>2. CASE Lose(t)
    BY <2>2 DEF Lose
  <2>3. CASE MulticastThreadAlone(t)
    BY <2>3 DEF MulticastThreadAlone, MulticastThread, FlowAdd, FlowConvey
  <2>4. CASE RdmaThreadAlone(t)
    <3>1. flight' = flight /\ lost' = lost
      BY <2>4 DEF RdmaThreadAlone
    <3>2. CASE ServeOpen(t) \/ CommitEmpty(t) \/ CommitBegin(t)
      BY <3>1, <3>2 DEF ServeOpen, CommitEmpty, CommitBegin
    <3>3. CASE CommitConvey(t)
      BY <3>1, <3>3 DEF CommitConvey
    <3>4. CASE CommitPutback(t)
      BY <3>1, <3>4 DEF CommitPutback
    <3>5. CASE CommitReset(t)
      BY <3>1, <3>5 DEF CommitReset
    <3>6. QED
      BY <2>4, <3>2, <3>3, <3>4, <3>5 DEF RdmaThreadAlone, RdmaThread
  <2>5. QED
    BY <2>1, <2>2, <2>3, <2>4 DEF NetStep
<1>4. Settled(s)' <=> Settled(s)
  BY <1>1, <1>3 DEF Settled, Committed, driverVars, callVars
<1>5. QED
  BY <1>2, <1>3, <1>4, AccountKept

\* A page arrives.
LEMMA DeliverAccounts ==
    ASSUME PartsInv, NEW s \in Servers, Deliver(s), Accounted(s)
    PROVE  Accounted(s)'
<1>0. DriverTypeOK /\ FarTypeOK /\ NetworkTypeOK /\ ServerInv
  BY PartsTypes DEF PartsInv
<1>1. UNCHANGED driverVars /\ UNCHANGED <<batched, lost>> /\ flight'[s] = Tail(flight[s])
  BY <1>0 DEF Deliver, NetworkTypeOK
<1>2. /\ flow' = flow /\ srvBatch' = srvBatch /\ rep' = rep /\ rpcPc' = rpcPc
      /\ convey' = convey /\ clash' = clash
  BY DEF Deliver, Receive, listVars, rmhVars, rpcVars
<1>3. /\ flight[s] # <<>> /\ flight[s] \in Seq(Page) /\ Head(flight[s]) \in Page
      /\ Elems(flight[s]) = {Head(flight[s])} \cup Elems(Tail(flight[s]))
  <2>1. flight[s] # <<>> /\ flight[s] \in Seq(Page)
    BY <1>0 DEF Deliver, NetworkTypeOK
  <2>2. QED
    BY <2>1, HeadAndTail
<1>4. delivered'[s] = delivered[s] \cup {Head(flight[s])}
  BY <1>0, Arrives
<1>5. cq[s] \in Seq(Completion) /\ \E w \in Completion : cq'[s] = Append(cq[s], w)
  <2>1. cq[s] \in Seq(Completion) /\ posted[s] \in Seq(Bufs) /\ posted[s] # <<>>
    BY <1>0 DEF Deliver, Receive, FarTypeOK
  <2>2. [buf |-> Head(posted[s]), off |-> Head(flight[s]).off] \in Completion
    BY <1>3, <2>1, HeadAndTail DEF Completion, Page
  <2>3. cq'[s] = Append(cq[s], [buf |-> Head(posted[s]), off |-> Head(flight[s]).off])
    BY <1>0 DEF Deliver, Receive, FarTypeOK
  <2>4. QED
    BY <2>1, <2>2, <2>3
<1>6. Owed(s)' = Owed(s) /\ Owed(s) # 0
  <2>1. Len(flight'[s]) = Len(flight[s]) + (-1)
    BY <1>1, <1>3, HeadTailProperties, LenProperties
  <2>2. Len(cq'[s]) = Len(cq[s]) + 1
    BY <1>5, AppendProperties
  <2>3. lost'[s] = lost[s] + 0 /\ Working(s)' = Working(s) + 0
    BY <1>0, <1>1, <1>2, Counts DEF Working
  <2>4. Cardinality(Sending') = Cardinality(Sending) + 0
    BY <1>1, SendingFinite DEF Sending, driverVars, callVars
  <2>5. OwedBy(s, -1, 0, 1, 0, 0)
    BY <2>1, <2>2, <2>3, <2>4, Zenon DEF OwedBy
  <2>6. Owed(s)' = Owed(s)
    BY <1>0, <2>5, OwedMoves
  <2>7. QED
    BY <1>0, <1>3, <2>6, NothingOwed
<1>7. Tally(s)' = Tally(s)
  BY <1>2, <1>6, Zenon DEF Tally
<1>8. \A p : Reached(s, p) => Reached(s, p)'
  BY <1>1, <1>3, <1>4 DEF Reached, Sending, driverVars, callVars
<1>9. (Settled(s)' <=> Settled(s)) /\ batch' = batch
  BY <1>1, <1>2 DEF Settled, Committed, driverVars, callVars, lockVars
<1>10. Undisturbed(s)'
  BY <1>2 DEF Accounted, Undisturbed
<1>11. QED
  BY <1>1, <1>2, <1>6, <1>7, <1>8, <1>9, <1>10, PageMoves

\* A page is lost: from here on the tally stays, the pages need not.
LEMMA LoseAccounts ==
    ASSUME PartsInv, NEW s \in Servers, Lose(s), Accounted(s)
    PROVE  Accounted(s)'
<1>0. DriverTypeOK /\ FarTypeOK /\ NetworkTypeOK
  BY PartsTypes
<1>1. /\ UNCHANGED <<driverVars, serverVars, batched>> /\ flight'[s] = Tail(flight[s])
      /\ lost'[s] = lost[s] + 1
  BY <1>0 DEF Lose, NetworkTypeOK
<1>2. /\ cq' = cq /\ flow' = flow /\ srvBatch' = srvBatch /\ rep' = rep /\ rpcPc' = rpcPc
      /\ convey' = convey /\ clash' = clash
  BY <1>1 DEF serverVars, queueVars, listVars, rmhVars, rpcVars, historyVars
<1>3. flight[s] # <<>> /\ flight[s] \in Seq(Page)
  BY <1>0 DEF Lose, NetworkTypeOK
<1>4. Owed(s)' = Owed(s) /\ Owed(s) # 0
  <2>1. Len(flight'[s]) = Len(flight[s]) + (-1)
    BY <1>1, <1>3, HeadTailProperties, LenProperties
  <2>2. Len(cq'[s]) = Len(cq[s]) + 0 /\ Working(s)' = Working(s) + 0
    BY <1>0, <1>2, Counts DEF Working
  <2>3. Cardinality(Sending') = Cardinality(Sending) + 0
    BY <1>1, SendingFinite DEF Sending, driverVars, callVars
  <2>4. OwedBy(s, -1, 1, 0, 0, 0)
    BY <1>1, <2>1, <2>2, <2>3, Zenon DEF OwedBy
  <2>5. Owed(s)' = Owed(s)
    BY <1>0, <2>4, OwedMoves
  <2>6. QED
    BY <1>0, <1>3, <2>5, NothingOwed
<1>5. Tally(s)' = Tally(s)
  BY <1>2, <1>4, Zenon DEF Tally
<1>6. lost'[s] > 0
  <2>1. lost[s] \in Nat
    BY <1>0, Counts
  <2>2. QED
    BY <1>1, <2>1
<1>7. (Settled(s)' <=> Settled(s)) /\ batch' = batch
  BY <1>1, <1>2 DEF Settled, Committed, driverVars, callVars, lockVars
<1>8. Undisturbed(s)'
  BY <1>2 DEF Accounted, Undisturbed
<1>9. QED
  BY <1>1, <1>2, <1>4, <1>5, <1>6, <1>7, <1>8, PageMoves

\* The multicast thread takes a completion.
LEMMA FlowAddAccounts ==
    ASSUME PartsInv, NEW s \in Servers, FlowAdd(s), UNCHANGED <<driverVars, netVars>>, Accounted(s)
    PROVE  Accounted(s)'
<1>0. DriverTypeOK /\ FarTypeOK /\ NetworkTypeOK /\ ServerInv /\ QueueInv(s)
  BY PartsTypes DEF PartsInv, ServerInv
<1> DEFINE w == Head(cq[s])
<1>1. /\ w \in Completion /\ w.buf \in Elems(Arrived(s)) /\ w # None
      /\ cq[s] \in Seq(Completion) /\ cq[s] # <<>> /\ cq'[s] = Tail(cq[s])
      /\ flow[s] = None /\ flow'[s] = w
      /\ convey' = convey /\ delivered' = delivered /\ clash' = clash
  BY <1>0, FlowAddDoes DEF QueueInv
<1>2. srvBatch' = srvBatch /\ rep' = rep /\ rpcPc' = rpcPc
  BY DEF FlowAdd, rmhVars, rpcVars
<1>3. flight' = flight /\ lost' = lost /\ batched' = batched /\ batch' = batch
  BY DEF netVars, driverVars, lockVars
<1>4. Undisturbed(s)'
  <2>1. clash[s] = FALSE /\ w.buf \in Bufs
    BY <1>1 DEF Accounted, Undisturbed, Completion
  <2>2. OnlyListedMarked(s) /\ w.buf \notin Elems(commitList[s])
    BY <1>0, <1>1, <2>1 DEF QueueInv, InOneQueue
  <2>3. convey[s][w.buf] = FALSE
    BY <1>0, <2>1, <2>2 DEF OnlyListedMarked, FarTypeOK
  <2>4. QED
    BY <1>1, <2>1, <2>3 DEF Undisturbed
<1> HIDE DEF w
<1>5. Owed(s)' = Owed(s) /\ Owed(s) # 0
  <2>1. Len(cq'[s]) = Len(cq[s]) + (-1)
    BY <1>1, HeadTailProperties, LenProperties
  <2>2. Working(s)' = Working(s) + 1
    BY <1>1 DEF Working
  <2>3. lost'[s] = lost[s] + 0 /\ Len(flight'[s]) = Len(flight[s]) + 0
    BY <1>0, <1>3, Counts
  <2>4. Cardinality(Sending') = Cardinality(Sending) + 0
    BY SendingFinite DEF Sending, driverVars, callVars
  <2>5. OwedBy(s, 0, 0, -1, 1, 0)
    BY <2>1, <2>2, <2>3, <2>4, Zenon DEF OwedBy
  <2>6. Owed(s)' = Owed(s)
    BY <1>0, <2>5, OwedMoves
  <2>7. QED
    BY <1>0, <1>1, <2>6, NothingOwed
<1>6. Tally(s)' = Tally(s)
  BY <1>2, <1>5, Zenon DEF Tally
<1>7. \A p : Reached(s, p) => Reached(s, p)'
  BY <1>1, <1>3 DEF Reached, Sending, driverVars, callVars
<1>8. Settled(s)' <=> Settled(s)
  BY <1>2 DEF Settled, Committed, driverVars, callVars
<1>9. QED
  BY <1>2, <1>3, <1>4, <1>5, <1>6, <1>7, <1>8, PageMoves

\* The page is conveyed and counted.
LEMMA FlowConveyAccounts ==
    ASSUME CallsInv, NEW s \in Servers, FlowConvey(s), UNCHANGED <<driverVars, netVars>>, Accounted(s)
    PROVE  Accounted(s)'
<1>0. DriverTypeOK /\ FarTypeOK /\ NetworkTypeOK
  BY PartsTypes DEF CallsInv
<1>1. /\ flow[s] # None /\ flow'[s] = None
      /\ cq' = cq /\ delivered' = delivered /\ clash' = clash
  BY <1>0, FlowConveyDoes
<1>2. convey[s][flow[s].buf] = FALSE /\ CanConvey(s, flow[s].off)
  BY <1>1 DEF Accounted, Undisturbed, CallsInv, PagesAtHome, AtHome, CanConvey
<1>3. srvBatch'[s] = srvBatch[s] + 1 /\ rep' = rep /\ rpcPc' = rpcPc
  BY <1>0, <1>2 DEF FlowConvey, FarTypeOK, rpcVars
<1>4. flight' = flight /\ lost' = lost /\ batched' = batched /\ batch' = batch
  BY DEF netVars, driverVars, lockVars
<1>5. Undisturbed(s)'
  BY <1>1 DEF Accounted, Undisturbed
<1>6. Owed(s)' = Owed(s) - 1 /\ Owed(s) # 0
  <2>1. Working(s)' = Working(s) + (-1)
    BY <1>1 DEF Working
  <2>2. lost'[s] = lost[s] + 0 /\ Len(flight'[s]) = Len(flight[s]) + 0 /\ Len(cq'[s]) = Len(cq[s]) + 0
    BY <1>0, <1>1, <1>4, Counts
  <2>3. Cardinality(Sending') = Cardinality(Sending) + 0
    BY SendingFinite DEF Sending, driverVars, callVars
  <2>4. OwedBy(s, 0, 0, 0, -1, 0)
    BY <2>1, <2>2, <2>3, Zenon DEF OwedBy
  <2>5. Owed(s)' = Owed(s) - 1
    BY <1>0, <2>4, OwedMoves
  <2>6. QED
    BY <1>0, <1>1, <2>5, NothingOwed
<1>7. Tally(s)' = Tally(s)
  <2>1. Tally(s)' = (srvBatch[s] + 1) + (Owed(s) - 1)
    BY <1>3, <1>6, Zenon DEF Tally
  <2>2. Tally(s) = srvBatch[s] + Owed(s) /\ srvBatch[s] \in Int /\ Owed(s) \in Int
    BY <1>0, Counts
  <2>3. QED
    BY <2>1, <2>2
<1>8. \A p : Reached(s, p) => Reached(s, p)'
  BY <1>1, <1>4 DEF Reached, Sending, driverVars, callVars
<1>9. Settled(s)' <=> Settled(s)
  BY <1>3 DEF Settled, Committed, driverVars, callVars
<1>10. QED
  BY <1>3, <1>4, <1>5, <1>6, <1>7, <1>8, <1>9, PageMoves

LEMMA AwaitsItsBatch ==
    ASSUME CallsAnswered, NEW s \in Servers, CommitConvey(s)
    PROVE  srvBatch[s] >= SERVER_BATCH
<1>1. req[s] = CommitRequest
  BY DEF CommitConvey, CallsAnswered, Asked
<1>2. Awaited(s) = SERVER_BATCH
  BY <1>1 DEF Awaited, CommitRequest
<1>3. QED
  BY <1>2 DEF CommitConvey

\* A commit that has waited for the driver's batch has nothing left to convey:
\* what the server counted is all the driver did.
LEMMA CommitConveyAccounts ==
    ASSUME SystemInv, NEW s \in Servers, CommitConvey(s), srvBatch[s] >= batch,
           UNCHANGED <<driverVars, netVars>>, Accounted(s)
    PROVE  Accounted(s)'
<1>0. /\ DriverTypeOK /\ FarTypeOK /\ NetworkTypeOK /\ ServerInv
      /\ CallsAnswered /\ OrderInv(s) /\ BlocksOK(s)
  BY PartsTypes DEF SystemInv, CallsInv, PartsInv, ServerInv, QueueInv
<1>1. srvBatch[s] >= SERVER_BATCH
  BY <1>0, AwaitsItsBatch
<1>2. ~Settled(s)
  BY <1>1, ServerBatchAssumption DEF Accounted, Finished
<1>3. Owed(s) = 0 /\ srvBatch[s] = batch /\ Underway(s)
  <2>1. Underway(s)
    BY <1>2 DEF Accounted
  <2>2. Tally(s) = srvBatch[s] + Owed(s) /\ srvBatch[s] \in Nat /\ Owed(s) \in Nat /\ batch \in Nat
    BY <1>0, Counts
  <2>3. Tally(s) <= batch
    BY <2>1 DEF Underway
  <2>4. QED
    BY <2>1, <2>2, <2>3
<1>4. flow[s] = None /\ clash[s] = FALSE
  BY <1>0, <1>3, NothingOwed DEF Accounted, Undisturbed
<1>5. ToConvey(s) = {}
  <2> SUFFICES ASSUME NEW i \in ToConvey(s) PROVE FALSE
    OBVIOUS
  <2> DEFINE b == commitList[s][i]
  <2>1. b \in Elems(commitList[s]) /\ ~convey[s][b] /\ CanConvey(s, imm[s][b])
    BY <1>0, CommitConveyDoes
  <2>2. data[s][b].off = imm[s][b]
    BY <1>0, <2>1, PagesHeld
  <2>3. BlockOf[data[s][b].off] \notin Unallocatable
    BY <1>0, <2>1, <2>2 DEF CanConvey, BlocksOK
  <2>4. QED
    BY <1>0, <1>4, <2>1, <2>3 DEF OrderInv, MarkedAreConveyed
<1>6. /\ cq' = cq /\ flow' = flow /\ delivered' = delivered /\ clash' = clash
      /\ flight' = flight /\ lost' = lost /\ batched' = batched /\ batch' = batch
      /\ rep' = rep /\ Sending' = Sending
  BY <1>0, CommitConveyDoes DEF CommitConvey, netVars, driverVars, lockVars, callVars, Sending
<1>7. srvBatch'[s] = srvBatch[s]
  <2>1. srvBatch'[s] = srvBatch[s] + Cardinality({})
    BY <1>0, <1>5 DEF CommitConvey, FarTypeOK
  <2>2. srvBatch[s] \in Nat /\ Cardinality({}) = 0
    BY <1>0, Counts, FS_EmptySet
  <2>3. QED
    BY <2>1, <2>2
<1>8. Owed(s)' = Owed(s) /\ Tally(s)' = Tally(s)
  <2>1. Owed(s)' = Owed(s)
    BY <1>6, Zenon DEF Owed, Working
  <2>2. QED
    BY <1>7, <2>1, Zenon DEF Tally
<1>9. \A p : Reached(s, p) => Reached(s, p)'
  BY <1>6 DEF Reached, driverVars, callVars
<1>10. Underway(s)'
  BY <1>3, <1>6, <1>8, <1>9 DEF Underway
<1>11. ~Settled(s)'
  BY <1>2, <1>6 DEF Settled, Committed, driverVars, callVars
<1>12. rpcPc'[s] = "putback"
  BY <1>0 DEF CommitConvey, FarTypeOK
<1>13. QED
  BY <1>3, <1>4, <1>6, <1>7, <1>8, <1>10, <1>11, <1>12
     DEF Accounted, Undisturbed, Collects, PutbackPcs

\* When the buffers go back, every page of the batch has arrived and is in no queue
\* of the server any more: it is in its memory.
LEMMA PutbackAccounts ==
    ASSUME SystemInv, SystemInv', NEW s \in Servers, CommitPutback(s),
           UNCHANGED <<driverVars, netVars>>, Accounted(s)
    PROVE  Accounted(s)'
<1>0. /\ DriverTypeOK /\ FarTypeOK /\ NetworkTypeOK /\ QueueInv(s) /\ InOneQueue(s)
      /\ AtHome(s) /\ BlocksOK(s)
  BY PartsTypes DEF SystemInv, CallsInv, PartsInv, ServerInv, QueueInv, PagesAtHome
<1>1. /\ commitList'[s] = <<>> /\ Elems(commitList'[s]) = {}
      /\ clash'[s] <=> clash[s] \/ (flow[s] # None /\ flow[s].buf \in Elems(commitList[s]))
      /\ cq' = cq /\ flow' = flow /\ mem' = mem /\ delivered' = delivered
  BY <1>0, CommitPutbackDoes
<1>2. /\ Owed(s) = 0 /\ srvBatch[s] = batch
      /\ srvBatch' = srvBatch /\ rep' = rep /\ rpcPc'[s] = "reset" /\ clash'[s] \in BOOLEAN
  BY <1>0 DEF Accounted, Collects, PutbackPcs, CommitPutback, rmhVars, FarTypeOK
<1>3. flight[s] = <<>> /\ lost[s] = 0 /\ cq[s] = <<>> /\ flow[s] = None /\ Sending = {}
  BY <1>0, <1>2, NothingOwed
<1>4. clash'[s] = FALSE
  BY <1>1, <1>2, <1>3 DEF Accounted, Undisturbed
<1>5. /\ flight' = flight /\ lost' = lost /\ Sending' = Sending /\ batched' = batched /\ batch' = batch
      /\ Settled(s)' <=> Settled(s)
  BY <1>2 DEF netVars, driverVars, lockVars, callVars, Sending, Settled, Committed
<1>6. Owed(s)' = 0 /\ Tally(s)' = Tally(s)
  <2>1. Owed(s)' = Owed(s)
    BY <1>1, <1>5, Zenon DEF Owed, Working
  <2>2. QED
    BY <1>2, <2>1, Zenon DEF Tally
<1>7. \A p \in batched : HasAtLeast(s, p)'
  <2>1. CASE Settled(s)
    BY <1>1, <2>1 DEF Accounted, Finished, HasAtLeast, AtLeast
  <2>2. CASE ~Settled(s)
    <3>1. Underway(s)
      BY <2>2 DEF Accounted
    <3>2. Tally(s) = batch
      <4>1. Tally(s) = batch + 0 /\ batch \in Nat
        BY <1>0, <1>2, Counts
      <4>2. QED
        BY <4>1
    <3>3. \A p \in batched : Reached(s, p)
      <4>1. ~(Tally(s) < batch) /\ ~(lost[s] > 0)
        BY <1>0, <1>3, <3>2, Counts
      <4>2. QED
        BY <3>1, <4>1 DEF Underway
    <3>4. batched \subseteq delivered[s]
      BY <1>3, <3>3 DEF Reached, Elems
    <3>5. ASSUME NEW p \in delivered[s] PROVE HasAtLeast(s, p)'
      <4>1. NothingDropped(s)'
        BY <1>4 DEF SystemInv, OrderInv
      <4>2. p \in delivered'[s] /\ Elems(cq'[s]) = {} /\ Elems(commitList'[s]) = {}
        BY <1>1, <1>3, <3>5 DEF Elems
      <4>3. BlockOf[p.off] \notin Unallocatable
        BY <1>0, <3>5 DEF AtHome, BlocksOK
      <4>4. QED
        BY <4>1, <4>2, <4>3 DEF NothingDropped
    <3>6. QED
      BY <3>4, <3>5
  <2>3. QED
    BY <2>1, <2>2
<1>8. Collects(s)'
  BY <1>2, <1>5, <1>6, <1>7 DEF Collects, PutbackPcs
<1>9. \A p : Reached(s, p) => Reached(s, p)'
  BY <1>1, <1>5 DEF Reached, driverVars, callVars
<1>10. Underway(s) => Underway(s)'
  BY <1>5, <1>6, <1>9 DEF Underway
<1>11. Finished(s) => Finished(s)'
  BY <1>2, <1>5, <1>6, <1>7 DEF Finished
<1>12. QED
  BY <1>1, <1>3, <1>4, <1>5, <1>8, <1>10, <1>11 DEF Accounted, Undisturbed

\* The commit is answered: the driver may drop the batch.
LEMMA ResetAccounts ==
    ASSUME PartsInv, NEW s \in Servers, CommitReset(s), UNCHANGED <<driverVars, netVars>>, Accounted(s)
    PROVE  Accounted(s)'
<1>0. DriverTypeOK /\ FarTypeOK /\ NetworkTypeOK
  BY PartsTypes
<1>1. /\ Owed(s) = 0 /\ \A p \in batched : HasAtLeast(s, p)
      /\ srvBatch'[s] = 0 /\ rep'[s] = "committed" /\ rpcPc'[s] = "idle"
      /\ flow' = flow /\ convey' = convey /\ clash' = clash /\ mem' = mem
  BY <1>0 DEF Accounted, Collects, PutbackPcs, CommitReset, BatchLeft, historyVars, FarTypeOK
<1>2. Owed(s)' = 0
  <2>1. flight' = flight /\ lost' = lost /\ Sending' = Sending /\ cq' = cq
    BY DEF netVars, driverVars, callVars, Sending, CommitReset, queueVars
  <2>2. Owed(s)' = Owed(s)
    BY <1>1, <2>1, Zenon DEF Owed, Working
  <2>3. QED
    BY <1>1, <2>2
<1>3. batched' = batched
  BY DEF netVars
<1>4. Settled(s)' /\ Finished(s)'
  BY <1>1, <1>2, <1>3 DEF Settled, Committed, Finished, HasAtLeast, AtLeast
<1>5. QED
  BY <1>1, <1>4 DEF Accounted, Undisturbed, Collects, PutbackPcs

\* Opening a block, and a commit that starts to wait.
LEMMA ServeAccounts ==
    ASSUME PartsInv, CallsAnswered, NEW s \in Servers, ~broken[s], ServeOpen(s) \/ CommitBegin(s),
           UNCHANGED <<driverVars, netVars>>, Accounted(s)
    PROVE  Accounted(s)'
<1> USE DEF queueVars, listVars, rmhVars, rpcVars, historyVars, netVars
<1>0. FarTypeOK
  BY PartsTypes
<1>1. SameServer(s)
  BY <1>0 DEF ServeOpen, CommitBegin, SameServer, PutbackPcs, FarTypeOK
<1>2. SameBatch
  BY DEF SameBatch, Sending, driverVars, lockVars, callVars
<1>3. Committed(s)' <=> Committed(s)
  <2>1. CASE ServeOpen(s)
    <3>1. req[s] # None /\ rep'[s] = "opened"
      BY <1>0, <2>1 DEF ServeOpen, FarTypeOK
    <3>2. PICK c \in Cpus : Calls(c, s)
      BY <3>1 DEF CallsAnswered
    <3>3. rep[s] = None
      BY <3>1, <3>2 DEF CallsAnswered, Answering
    <3>4. QED
      BY <3>1, <3>3, NoReplyAssumption DEF Committed
  <2>2. CASE CommitBegin(s)
    BY <2>2 DEF CommitBegin, Committed
  <2>3. QED
    BY <2>1, <2>2
<1>4. Settled(s)' <=> Settled(s)
  BY <1>3 DEF Settled, driverVars, callVars
<1>5. QED
  BY <1>1, <1>2, <1>4, AccountKept

----------------------------------------------------------------------------
(* Every step keeps the account.                                           *)

LEMMA EarlyStays ==
    ASSUME FarTypeOK, NetworkTypeOK, AnyServerStep, NeverEarly'
    PROVE  NeverEarly
<1>1. ASSUME NEW t \in Servers, StepOf(t), NEW s \in Servers, early[s] PROVE early'[s]
  BY <1>1 DEF StepOf, MulticastThread, RdmaThread, FlowAdd, FlowConvey, ServeOpen, CommitEmpty,
     CommitBegin, CommitConvey, CommitPutback, CommitReset, TakeReply, Call, Receive, historyVars,
     FarTypeOK
<1>2. CASE UNCHANGED serverVars
  BY <1>2 DEF NeverEarly, serverVars, historyVars
<1>3. QED
  BY <1>1, <1>2 DEF AnyServerStep, NeverEarly

LEMMA BatchInit == Init => BatchInv
<1> SUFFICES ASSUME Init PROVE BatchInv
  OBVIOUS
<1>0. DriverTypeOK /\ FarTypeOK /\ NetworkTypeOK
  BY PartsInit, PartsTypes
<1>1. \A c \in Cpus : Distinct(todo[c])
  BY AliveOnce DEF Init, DriverInit
<1>2. ASSUME NEW s \in Alive PROVE Accounted(s)
  <2>0. s \in Servers
    BY AliveAreServers
  <2>1. /\ flight[s] = <<>> /\ lost[s] = 0 /\ cq[s] = <<>> /\ flow[s] = None /\ srvBatch[s] = 0
        /\ rpcPc[s] = "idle" /\ rep[s] = None /\ clash[s] = FALSE /\ batch = 0 /\ batched = {}
        /\ \A c \in Cpus : pc[c] = "idle"
    BY <2>0 DEF Init, DriverInit, FarInit
  <2>2. Sending = {} /\ Cardinality(Sending) = 0
    BY <2>1, FS_EmptySet DEF Sending
  <2>3. Owed(s) = 0 + 0 + 0 + 0 + 0
    BY <2>1, <2>2, Zenon, EmptySeq DEF Owed, Working
  <2>4. Tally(s) = 0
    <3>1. Owed(s) = 0
      BY <2>3
    <3>2. Tally(s) = 0 + 0
      BY <2>1, <3>1, Zenon DEF Tally
    <3>3. QED
      BY <3>2
  <2>5. ~Settled(s)
    BY <2>1, NoReplyAssumption DEF Settled, Committed, CommitPcs
  <2>6. Underway(s)
    BY <2>1, <2>4 DEF Underway
  <2>7. QED
    BY <2>1, <2>5, <2>6 DEF Accounted, Undisturbed, Collects, PutbackPcs
<1>3. QED
  BY <1>1, <1>2 DEF BatchInv

\* A commit of a server in touch gives no buffer back before the server has counted
\* what the driver did: an action property, and the condition on which the account is
\* kept.
WaitsForBatch ==
    \A s \in Servers :
        InTouch(s) /\ rpcPc[s] = "wait" /\ rpcPc'[s] = "putback" => srvBatch[s] >= batch

\* A server that is out of touch stays so.
LEMMA TouchStays ==
    ASSUME NetworkTypeOK, [Next]_vars, NEW s \in Servers, InTouch(s)'
    PROVE  InTouch(s)
<1>1. ASSUME NEW c \in Cpus, NEW t \in Servers, CallWithoutAnswer(c, t) PROVE InTouch(s)
  BY <1>1, WithoutAnswer DEF InTouch
<1>2. CASE UNCHANGED <<broken, missed>>
  BY <1>2 DEF InTouch
<1>3. QED
  BY <1>1, <1>2, SystemSteps DEF CpuStep, DriverAlone, Multicast, CallOpen, OpenAnswered, CallCommit,
     CommitAnswered, CallWithoutAnswer, ReadRemote, NetStep, Deliver, Lose, MulticastThreadAlone,
     RdmaThreadAlone, netVars, vars

LEMMA BatchStep ==
    ASSUME SystemInv, SystemInv', BatchInv, [Next]_vars, [WaitsForBatch]_vars
    PROVE  BatchInv'
<1>0. /\ DriverTypeOK /\ FarTypeOK /\ NetworkTypeOK /\ PartsInv /\ CallsAnswered /\ CallsInv
      /\ \A c \in Cpus : Distinct(todo[c])
  BY PartsTypes DEF SystemInv, CallsInv, BatchInv
<1>1. \A c \in Cpus : Distinct(todo'[c])
  BY <1>0, TodoStep
<1> SUFFICES ASSUME NeverEarly', NEW s \in Alive, InTouch(s)' PROVE Accounted(s)'
  BY <1>1, Zenon DEF BatchInv, Alive
<1>2. Accounted(s) /\ s \in Servers /\ InTouch(s) /\ ~broken[s]
  <2>1. AnyServerStep
    BY <1>0, Separate
  <2>2. NeverEarly
    BY <1>0, <2>1, EarlyStays
  <2>3. s \in Servers /\ InTouch(s)
    BY <1>0, AliveAreServers, TouchStays
  <2>4. QED
    BY <2>2, <2>3 DEF BatchInv, InTouch
<1>3. CASE \E c \in Cpus : CpuStep(c)
  BY <1>0, <1>2, <1>3, LocalAccounts, MulticastAccounts, CallAccounts DEF CpuStep, CallWithoutAnswer
<1>4. ASSUME NEW t \in Servers, NetStep(t), t # s PROVE Accounted(s)'
  BY <1>0, <1>2, <1>4, OtherAccounts
<1>5. CASE NetStep(s)
  <2>1. CASE Deliver(s) \/ Lose(s)
    BY <1>0, <1>2, <2>1, DeliverAccounts, LoseAccounts
  <2>2. CASE MulticastThreadAlone(s)
    BY <1>0, <1>2, <2>2, FlowAddAccounts, FlowConveyAccounts
       DEF MulticastThreadAlone, MulticastThread
  <2>3. CASE RdmaThreadAlone(s)
    <3>1. ~CommitEmpty(s)
      BY <1>0, <1>2 DEF CommitEmpty, NeverEarly, FarTypeOK
    <3>2. CommitConvey(s) => srvBatch[s] >= batch
      <4>1. CommitConvey(s) => rpcPc[s] = "wait" /\ rpcPc'[s] = "putback"
        BY <1>0, <1>2 DEF CommitConvey, FarTypeOK
      <4>2. UNCHANGED vars => rpcPc' = rpcPc
        BY DEF vars, serverVars, rpcVars
      <4>3. QED
        BY <1>2, <4>1, <4>2 DEF WaitsForBatch
    <3>3. QED
      BY <1>0, <1>2, <2>3, <3>1, <3>2, ServeAccounts, CommitConveyAccounts, PutbackAccounts,
         ResetAccounts
         DEF RdmaThreadAlone, RdmaThread
  <2>4. QED
    BY <1>5, <2>1, <2>2, <2>3 DEF NetStep
<1>6. CASE UNCHANGED vars
  <2>1. SameServer(s) /\ SameBatch /\ (Settled(s)' <=> Settled(s))
    BY <1>6 DEF vars, serverVars, queueVars, listVars, rmhVars, rpcVars, historyVars, netVars,
       driverVars, lockVars, callVars, SameServer, SameBatch, Sending, Settled, Committed
  <2>2. QED
    BY <1>2, <2>1, AccountKept
<1>7. QED
  BY <1>3, <1>4, <1>5, <1>6, SystemSteps

\* The account of the batch is kept for as long as commits wait for all of it,
\* whatever CONFIG_BATCH is at either end.
THEOREM BatchInvariant == Spec /\ [][WaitsForBatch]_vars => [](SystemInv /\ BatchInv)
<1>1. Init => SystemInv /\ BatchInv
  BY SystemInit, BatchInit
<1>2. SystemInv /\ BatchInv /\ [Next]_vars /\ [WaitsForBatch]_vars => (SystemInv /\ BatchInv)'
  BY SystemInvStep, BatchStep
<1>3. QED
  BY <1>1, <1>2, PTL DEF Spec

\* As long as no commit gives buffers back before the server has counted the
\* driver's batch, and none is answered on an empty list, an answered commit
\* means that every page of the batch is in the server's memory, when the driver
\* drops its copies (ib_rpc_commit_all, __process_rdma_rpc_commit).
THEOREM CommitIsDurable == Spec /\ [][WaitsForBatch]_vars => []CommitDurableUnlessEarly
<1>1. SystemInv /\ BatchInv => CommitDurableUnlessEarly
  <2> SUFFICES ASSUME BatchInv, NeverEarly, NEW s \in Alive, InTouch(s), Committed(s), NEW p \in batched
               PROVE  AtLeast(mem[s][p.off], p.ver)
    BY DEF CommitDurableUnlessEarly, CommitDurable
  <2>1. Accounted(s)
    BY DEF BatchInv
  <2>2. HasAtLeast(s, p)
    BY <2>1 DEF Accounted, Settled, Finished
  <2>3. QED
    BY <2>2 DEF HasAtLeast
<1>2. QED
  BY <1>1, BatchInvariant, PTL

\* On the same conditions no commit gives back the buffer the multicast thread is about
\* to convey, so that NoPageDropped and what goes with it have no exception there
\* (__process_multicast_rpc_flow, __process_rdma_rpc_commit).
THEOREM CommitsKeepClear ==
    Spec /\ [][WaitsForBatch]_vars => [](NeverEarly => \A s \in Alive : InTouch(s) => ~clash[s])
<1>1. SystemInv /\ BatchInv => (NeverEarly => \A s \in Alive : InTouch(s) => ~clash[s])
  BY DEF BatchInv, Accounted, Undisturbed
<1>2. QED
  BY <1>1, BatchInvariant, PTL

\* Under the same condition what the driver counted in ctrl.batch is, page for page,
\* counted by the server, on its way to it, or lost (maruswap_multicast_write,
\* ib_convey_page) - if every page it counts can be sent.
THEOREM PagesAreAccounted ==
    ASSUME "post" \notin Faults
    PROVE  Spec /\ [][WaitsForBatch]_vars => []PagesAccounted
<1>1. SystemInv /\ BatchInv => PagesAccounted
  <2> SUFFICES ASSUME SystemInv, BatchInv, NeverEarly, NEW s \in Alive, InTouch(s), ~Settled(s)
               PROVE  batch = srvBatch[s] + Len(flight[s]) + lost[s] + Len(cq[s])
                               + (IF flow[s] = None THEN 0 ELSE 1)
                               + Cardinality({c \in Cpus : pc[c] = "post"})
    BY DEF PagesAccounted, Settled, CommitPcs
  <2>1. batch = Tally(s)
    BY DEF BatchInv, Accounted, Underway
  <2> DEFINE a == Len(flight[s])  l == lost[s]  b == Len(cq[s])  w == Working(s)
             n == Cardinality(Sending)  v == srvBatch[s]
  <2>2. a \in Nat /\ l \in Nat /\ b \in Nat /\ w \in Nat /\ n \in Nat /\ v \in Nat
    BY PartsTypes, AliveAreServers, Counts DEF SystemInv, CallsInv
  <2>3. Tally(s) = v + (a + l + b + w + n)
    BY Zenon DEF Tally, Owed
  <2> HIDE DEF a, l, b, w, n, v
  <2>4. Tally(s) = v + a + l + b + w + n
    BY <2>2, <2>3
  <2>5. QED
    BY <2>1, <2>4, Zenon DEF a, l, b, w, n, v, Working, Sending
<1>2. QED
  BY <1>1, BatchInvariant, PTL

----------------------------------------------------------------------------
(* The pages the system has to keep, and where they are: in the stage, or  *)
(* in the memory of every server.                                          *)

\* The steps of a CPU, as far as the calls under way and what they store are
\* concerned.
Within(c) ==
    /\ pc[c] # "idle" /\ pc'[c] # "idle" /\ arg'[c] = arg[c] /\ stored' = stored
    /\ pc'[c] \in StorePcs <=> pc[c] \in StorePcs

Begins(c) == pc[c] = "idle" /\ pc'[c] \in {"lock", "load"} /\ stored' = stored

Refuses(c) ==
    /\ pc'[c] = pc[c] /\ arg'[c] = arg[c]
    /\ \E o \in Offsets : stored' = [stored EXCEPT ![o] = 0]

Stores(c) ==
    /\ pc[c] \in StorePcs /\ pc'[c] = "idle"
    /\ \E v \in {0, arg[c].ver} : /\ stored' = [stored EXCEPT ![arg[c].off] = v]
                                  /\ v # 0 => pc[c] = "poll"

Loads(c) == pc[c] \in LoadPcs /\ pc'[c] = "idle" /\ stored' = stored

LEMMA CallSteps ==
    ASSUME DriverTypeOK, NEW c \in Cpus, DriverStep(c)
    PROVE  /\ \A d \in Cpus : d # c => pc'[d] = pc[d] /\ arg'[d] = arg[d]
           /\ Within(c) \/ Begins(c) \/ Refuses(c) \/ Stores(c) \/ Loads(c)
<1> DEFINE Others == \A d \in Cpus : d # c => pc'[d] = pc[d] /\ arg'[d] = arg[d]
<1> USE DEF Goto, swapVars
<1>1. CASE Kernel(c)
  <2>1. ASSUME NEW o \in Offsets, StoreBegin(c, o) \/ LoadBegin(c, o) PROVE Others /\ Begins(c)
    BY <2>1 DEF StoreBegin, LoadBegin, Begins, DriverTypeOK
  <2>2. ASSUME NEW o \in Offsets, StoreUnmapped(c, o) PROVE Others /\ Refuses(c)
    BY <2>2 DEF StoreUnmapped, callVars, Refuses
  <2>3. QED
    BY <1>1, <2>1, <2>2 DEF Kernel
<1>2. ASSUME NEW ok \in BOOLEAN, StoreResult(c, ok), pc[c] \in StorePcs, ok => pc[c] = "poll"
      PROVE  Others /\ Stores(c)
  <2>1. Others /\ pc'[c] = "idle"
    BY <1>2 DEF StoreResult, Return, DriverTypeOK
  <2>2. PICK v \in {0, arg[c].ver} : v = (IF ok THEN arg[c].ver ELSE 0)
    OBVIOUS
  <2>3. stored' = [stored EXCEPT ![arg[c].off] = v] /\ (v # 0 => pc[c] = "poll")
    BY <1>2, <2>2 DEF StoreResult
  <2>4. QED
    BY <1>2, <2>1, <2>3 DEF Stores
<1>3. CASE OpenFailed(c) \/ SendFails(c)
  BY <1>2, <1>3 DEF OpenFailed, SendFails, PostFails, PollSend, StorePcs
<1>4. CASE ResetCount(c)
  <2>1. CASE err[c]
    BY <1>2, <1>4, <2>1 DEF ResetCount, StorePcs
  <2>2. CASE ~err[c]
    BY <1>4, <2>2 DEF ResetCount, Within, StorePcs, DriverTypeOK
  <2>3. QED
    BY <2>1, <2>2
<1>5. CASE RpcStep(c)
  BY <1>5 DEF RpcStep, OpenSkip, OpenCall, CommitCall, OpenReturn, CommitReturn, Within, StorePcs,
     DriverTypeOK
<1>6. CASE LoadReturns(c)
  BY <1>6 DEF LoadReturns, LoadDone, ReadFails, Return, Loads, LoadPcs, DriverTypeOK
<1>7. CASE \/ EnterWrite(c) \/ OpenDone(c) \/ CheckBatch(c) \/ ClearStage(c) \/ Reserve(c)
           \/ Post(c) \/ StageFull(c) \/ StageStore(c) \/ StageUnlocks(c) \/ StageRetakes(c)
           \/ CountLoad(c) \/ CountStore(c)
  BY <1>7 DEF EnterWrite, OpenDone, CheckBatch, ClearStage, Reserve, Post, StageFull, StageStore,
     StageUnlocks, StageRetakes, TakeSlot, CountLoad, CountStore, Within, StorePcs, DriverTypeOK
<1>8. CASE LoadStep(c)
  BY <1>8 DEF LoadStep, StageHit, StageMiss, ReadHangs, RdmaRead, Within, StorePcs, DriverTypeOK
<1>9. QED
  BY <1>1, <1>3, <1>4, <1>5, <1>6, <1>7, <1>8 DEF DriverStep

\* What is to be kept of an offset: its last store's page, or that of the store under
\* way once it has got to one of some steps.
Current(o, p, pcs) ==
    \/ stored[o] # 0 /\ p = [off |-> o, ver |-> stored[o]] /\ ~ \E c \in Cpus : Storing(c, o)
    \/ \E c \in Cpus : pc[c] \in pcs /\ arg[c] = p /\ p.off = o

\* A page becomes the current one only when its store gets to these steps.
LEMMA CurrentMoves ==
    ASSUME DriverTypeOK, OneCallPerOffset, NEW c \in Cpus, DriverStep(c),
           NEW pcs \in SUBSET StorePcs, "poll" \in pcs, NEW o \in Offsets, NEW p,
           Current(o, p, pcs)'
    PROVE  \/ Current(o, p, pcs)
           \/ pc[c] \notin pcs /\ pc'[c] \in pcs /\ arg'[c] = p /\ p.off = o
<1>1. /\ \A d \in Cpus : d # c => pc'[d] = pc[d] /\ arg'[d] = arg[d]
      /\ Within(c) \/ Begins(c) \/ Refuses(c) \/ Stores(c) \/ Loads(c)
  BY CallSteps
<1>2. CASE \E d \in Cpus : pc'[d] \in pcs /\ arg'[d] = p /\ p.off = o
  <2>1. PICK d \in Cpus : pc'[d] \in pcs /\ arg'[d] = p /\ p.off = o
    BY <1>2
  <2>2. CASE d # c
    BY <1>1, <2>1, <2>2 DEF Current
  <2>3. CASE d = c /\ pc[c] \in pcs
    <3>1. pc[c] # "idle" /\ pc'[c] # "idle" /\ pc[c] \in StorePcs
      BY <2>1, <2>3 DEF StorePcs
    <3>2. arg'[c] = arg[c]
      BY <1>1, <3>1 DEF Within, Begins, Refuses, Stores, Loads
    <3>3. QED
      BY <2>1, <2>3, <3>2 DEF Current
  <2>4. QED
    BY <2>1, <2>2, <2>3
<1>3. CASE stored'[o] # 0 /\ p = [off |-> o, ver |-> stored'[o]] /\ ~ \E d \in Cpus : Storing(d, o)'
  <2>1. CASE stored'[o] = stored[o]
    <3>1. CASE \E d \in Cpus : Storing(d, o)
      <4>1. PICK d \in Cpus : Storing(d, o)
        BY <3>1
      <4>2. d = c /\ pc[c] \in StorePcs /\ arg[c].off = o
        BY <1>1, <1>3, <4>1 DEF Storing
      <4>3. Stores(c)
        BY <1>1, <1>3, <4>2 DEF Within, Begins, Refuses, Loads, Storing, StorePcs, LoadPcs
      <4>4. pc[c] = "poll" /\ stored'[o] = arg[c].ver
        BY <1>3, <4>2, <4>3 DEF Stores, DriverTypeOK
      <4>5. arg[c] = p
        BY <1>3, <4>2, <4>4, PageOfCall DEF Page
      <4>6. QED
        BY <4>2, <4>4, <4>5 DEF Current
    <3>2. QED
      BY <1>3, <2>1, <3>1 DEF Current
  <2>2. CASE stored'[o] # stored[o]
    <3>1. Stores(c)
      BY <1>1, <1>3, <2>2 DEF Within, Begins, Refuses, Loads, DriverTypeOK
    <3>2. arg[c].off = o /\ stored'[o] = arg[c].ver /\ pc[c] = "poll"
      BY <1>3, <2>2, <3>1 DEF Stores, DriverTypeOK
    <3>3. arg[c] = p
      BY <1>3, <3>2, PageOfCall DEF Page
    <3>4. QED
      BY <1>3, <3>2, <3>3 DEF Current
  <2>3. QED
    BY <2>1, <2>2
<1>4. QED
  BY <1>2, <1>3 DEF Current

\* While a store is under way its page is the current one, or none is.
LEMMA CurrentOfStore ==
    ASSUME OneCallPerOffset, NEW c \in Cpus, pc[c] \in StorePcs,
           NEW pcs \in SUBSET StorePcs, NEW p, Current(arg[c].off, p, pcs)
    PROVE  pc[c] \in pcs /\ p = arg[c]
<1>1. Storing(c, arg[c].off)
  BY DEF Storing
<1>2. PICK d \in Cpus : pc[d] \in pcs /\ arg[d] = p /\ p.off = arg[c].off
  BY <1>1 DEF Current
<1>3. d = c
  BY <1>2 DEF OneCallPerOffset, StorePcs
<1>4. QED
  BY <1>2, <1>3

\* The steps of a store from the one after its page is counted, and from the one
\* after it is staged.
CountedPcs == {"post", "stage", "retake", "count", "add", "poll"}
StagedPcs == {"count", "add", "poll"}

LEMMA StepsInOrder ==
    ASSUME DriverTypeOK, NEW c \in Cpus, DriverStep(c)
    PROVE  /\ pc[c] \notin StorePcs /\ pc'[c] \in StorePcs => \E o \in Offsets : StoreBegin(c, o)
           /\ pc[c] \notin CountedPcs /\ pc'[c] \in CountedPcs => Reserve(c)
           /\ pc[c] \notin StagedPcs /\ pc'[c] \in StagedPcs =>
                StageFull(c) \/ StageStore(c) \/ StageRetakes(c)
<1> DEFINE P == /\ pc[c] \notin StorePcs /\ pc'[c] \in StorePcs => \E o \in Offsets : StoreBegin(c, o)
                /\ pc[c] \notin CountedPcs /\ pc'[c] \in CountedPcs => Reserve(c)
                /\ pc[c] \notin StagedPcs /\ pc'[c] \in StagedPcs =>
                     StageFull(c) \/ StageStore(c) \/ StageRetakes(c)
<1> USE DEF Goto, StorePcs, CountedPcs, StagedPcs
<1>1. CASE Kernel(c)
  <2>1. ASSUME NEW o \in Offsets, StoreBegin(c, o) PROVE P
    BY <2>1 DEF StoreBegin, DriverTypeOK
  <2>2. ASSUME NEW o \in Offsets, StoreUnmapped(c, o) \/ LoadBegin(c, o) PROVE P
    BY <2>2 DEF StoreUnmapped, LoadBegin, callVars, DriverTypeOK
  <2>3. QED
    BY <1>1, <2>1, <2>2 DEF Kernel
<1>2. CASE OpenFailed(c) \/ SendFails(c) \/ LoadReturns(c)
  <2>1. Return(c)
    BY <1>2 DEF OpenFailed, SendFails, PostFails, PollSend, LoadReturns, LoadDone, ReadFails, StoreResult
  <2>2. QED
    BY <2>1 DEF Return, DriverTypeOK
<1>3. CASE ResetCount(c)
  <2>1. pc[c] = "reset" /\ (Return(c) \/ pc' = [pc EXCEPT ![c] = "reserve"])
    BY <1>3 DEF ResetCount, StoreResult
  <2>2. QED
    BY <2>1 DEF Return, DriverTypeOK
<1>4. CASE RpcStep(c)
  BY <1>4 DEF RpcStep, OpenSkip, OpenCall, CommitCall, OpenReturn, CommitReturn, DriverTypeOK
<1>5. CASE EnterWrite(c) \/ OpenDone(c) \/ CheckBatch(c) \/ ClearStage(c) \/ Reserve(c) \/ Post(c)
  BY <1>5 DEF EnterWrite, OpenDone, CheckBatch, ClearStage, Reserve, Post, DriverTypeOK
<1>6. CASE StageFull(c) \/ StageStore(c) \/ StageUnlocks(c) \/ StageRetakes(c)
  BY <1>6 DEF StageFull, StageStore, StageUnlocks, StageRetakes, TakeSlot, DriverTypeOK
<1>7. CASE CountLoad(c) \/ CountStore(c) \/ LoadStep(c)
  BY <1>7 DEF CountLoad, CountStore, LoadStep, StageHit, StageMiss, ReadHangs, RdmaRead, DriverTypeOK
<1>8. QED
  BY <1>1, <1>2, <1>3, <1>4, <1>5, <1>6, <1>7 DEF DriverStep

\* What a CPU does to the batch.
LEMMA BatchedSteps ==
    ASSUME DriverTypeOK, NEW c \in Cpus, CpuStep(c)
    PROVE  \/ batched' = batched /\ pc[c] # "reserve"
           \/ Reserves(c) \/ Clears(c)
<1>1. CASE DriverAlone(c)
  <2>1. ASSUME pc[c] = "reserve" PROVE Reserves(c)
    <3>1. Reserve(c)
      BY <1>1, <2>1
         DEF DriverAlone, LocalStep, StoreBegin, StoreUnmapped, LoadBegin, EnterWrite, OpenFailed,
             OpenDone, OpenSkip, ReadFails, CheckBatch, ClearStage, ResetCount, PostFails, StageFull,
             TakeSlot, StageStore, StageUnlocks, StageRetakes, CountLoad, CountStore, PollSend,
             StageHit, StageMiss, ReadHangs, LoadDone
    <3>2. batched' = batched \cup {arg[c]}
      BY <1>1, <2>1 DEF DriverAlone
    <3>3. QED
      BY <2>1, <3>1, <3>2 DEF Reserve, Reserves, Goto, DriverTypeOK
  <2>2. QED
    BY <1>1, <2>1, BatchMoves DEF GivesUp, StartsCommit, Aside
<1>2. CASE ~DriverAlone(c)
  BY <1>2 DEF CpuStep, Multicast, Post, CallOpen, OpenCall, OpenAnswered, OpenReturn, CallCommit,
     CommitCall, CommitAnswered, CommitReturn, CallLost, OpenFails, CommitFails, ReadRemote, netVars
<1>3. QED
  BY <1>1, <1>2

\* A server's memory keeps what it has of an offset, or newer.
LEMMA MemoryKeeps ==
    ASSUME FarTypeOK, FarTypeOK', NEW s \in Servers, NEW p \in Page, HasAtLeast(s, p),
           Forward(s), clash'[s] = FALSE
    PROVE  HasAtLeast(s, p)'
<1> DEFINE o == p.off
<1>1. o \in Offsets /\ p.ver \in Nat
  BY MaxStoresAssumption DEF Page
<1>2. mem[s][o] \in Page /\ mem[s][o].ver \in Nat /\ mem[s][o].ver >= p.ver /\ mem'[s][o] \in Content
  BY <1>1, MaxStoresAssumption DEF HasAtLeast, AtLeast, FarTypeOK, Content, Page
<1>3. CASE mem'[s][o] = mem[s][o]
  BY <1>3 DEF HasAtLeast, AtLeast
<1>4. CASE mem'[s][o] # mem[s][o]
  <2>1. mem'[s][o] # None /\ mem'[s][o].ver > mem[s][o].ver
    BY <1>1, <1>2, <1>4 DEF Forward, HasAtLeast, AtLeast
  <2>2. mem'[s][o].ver \in Nat
    BY <1>2, <2>1, MaxStoresAssumption DEF Content, Page
  <2>3. QED
    BY <1>1, <1>2, <2>1, <2>2 DEF HasAtLeast, AtLeast
<1>5. QED
  BY <1>3, <1>4

\* Every page that counts is in the batch, which the commit will bring to every
\* server in touch, or there already.
PagesKept ==
    NeverEarly => \A s \in Alive : InTouch(s) => \A o \in Offsets : \A p \in Page :
        Current(o, p, CountedPcs) => p \in batched \/ HasAtLeast(s, p)

\* What the stage should have and has not is not in the batch any more.
StageKeepsBatch ==
    ~raced => \A o \in Offsets \ skipped : checkList[o] = None =>
        \A p \in Page : Current(o, p, StagedPcs) => p \notin batched

\* No server was sent a page of the offset newer than the current one.
CurrentIsLatest ==
    \A s \in Servers, o \in Offsets : \A p \in Page :
        Current(o, p, StorePcs) => \A q \in SentTo(s) : q.off = o => q.ver <= p.ver

\* The driver calls, and has rkeys of, alive servers only.
CallsAlive ==
    /\ \A c \in Cpus : Elems(todo[c]) \subseteq Alive
    /\ \A s \in Servers : rdmaInfo[s] # {} => s \in Alive

KeptInv == PagesKept /\ StageKeepsBatch /\ CurrentIsLatest /\ CallsAlive

LEMMA KeptInit == Init => KeptInv
<1> SUFFICES ASSUME Init PROVE KeptInv
  OBVIOUS
<1>1. /\ \A o \in Offsets : stored[o] = 0
      /\ \A c \in Cpus : pc[c] = "idle" /\ todo[c] = <<>>
      /\ \A s \in Servers : rdmaInfo[s] = {}
  BY DEF Init, DriverInit
<1>2. \A o \in Offsets, p \in Page :
       ~Current(o, p, CountedPcs) /\ ~Current(o, p, StagedPcs) /\ ~Current(o, p, StorePcs)
  BY <1>1 DEF Current, CountedPcs, StagedPcs, StorePcs
<1>3. Elems(<<>>) = {}
  BY DEF Elems
<1>4. QED
  BY <1>1, <1>2, <1>3 DEF KeptInv, PagesKept, StageKeepsBatch, CurrentIsLatest, CallsAlive

\* When the batch is dropped every server in touch has answered.
LEMMA ClearedBatchIsKept ==
    ASSUME BatchInv, NeverEarly, NEW c \in Cpus, Clears(c), NEW s \in Alive, InTouch(s),
           NEW p \in batched
    PROVE  HasAtLeast(s, p)
<1>1. Elems(<<>>) = {}
  BY DEF Elems
<1>2. Settled(s)
  BY <1>1 DEF Clears, Settled, CommitPcs
<1>3. QED
  BY <1>2 DEF BatchInv, Accounted, Finished

LEMMA PagesKeptStep ==
    ASSUME SystemInv, SystemInv', BatchInv, BatchInv', PagesKept, [Next]_vars
    PROVE  PagesKept'
<1>0. /\ DriverTypeOK /\ FarTypeOK /\ NetworkTypeOK /\ OneCallPerOffset /\ FarTypeOK'
  BY PartsTypes DEF SystemInv, CallsInv, PartsInv, DriverInv, ServerInv
<1> SUFFICES ASSUME NeverEarly', NEW s \in Alive, InTouch(s)', NEW o \in Offsets, NEW p \in Page,
                    Current(o, p, CountedPcs)'
             PROVE  p \in batched' \/ HasAtLeast(s, p)'
  BY DEF PagesKept, Alive
<1>1. NeverEarly /\ s \in Servers /\ InTouch(s)
  BY <1>0, Separate, EarlyStays, AliveAreServers, TouchStays
<1>2. ASSUME HasAtLeast(s, p) PROVE HasAtLeast(s, p)'
  <2>1. clash'[s] = FALSE
    BY DEF BatchInv, Accounted, Undisturbed, Alive
  <2>2. Forward(s)
    BY <1>1, <2>1, SystemInvStep
  <2>3. QED
    BY <1>0, <1>1, <1>2, <2>1, <2>2, MemoryKeeps
<1>3. ASSUME Current(o, p, CountedPcs), batched \subseteq batched'
      PROVE  p \in batched' \/ HasAtLeast(s, p)'
  BY <1>1, <1>2, <1>3 DEF PagesKept
<1>4. ASSUME NEW c \in Cpus, CpuStep(c)
      PROVE  p \in batched' \/ HasAtLeast(s, p)'
  <2>1. DriverStep(c)
    BY <1>0, <1>4, CpuSteps
  <2>2. \/ Current(o, p, CountedPcs)
        \/ pc[c] \notin CountedPcs /\ pc'[c] \in CountedPcs /\ arg'[c] = p
    <3>1. CountedPcs \in SUBSET StorePcs /\ "poll" \in CountedPcs
      BY DEF CountedPcs, StorePcs
    <3>2. QED
      BY <1>0, <2>1, <3>1, CurrentMoves
  <2>3. CASE Clears(c)
    <3>1. Current(o, p, CountedPcs)
      BY <2>2, <2>3 DEF Clears, CountedPcs
    <3>2. HasAtLeast(s, p)
      BY <1>1, <2>3, <3>1, ClearedBatchIsKept DEF PagesKept
    <3>3. QED
      BY <1>2, <3>2
  <2>4. CASE Reserves(c)
    BY <1>3, <2>2, <2>4 DEF Reserves
  <2>5. CASE batched' = batched /\ pc[c] # "reserve"
    <3>1. ~Reserve(c)
      BY <2>5 DEF Reserve
    <3>2. Current(o, p, CountedPcs)
      BY <1>0, <2>1, <2>2, <3>1, StepsInOrder
    <3>3. QED
      BY <1>3, <2>5, <3>2
  <2>6. QED
    BY <1>0, <1>4, <2>3, <2>4, <2>5, BatchedSteps
<1>5. CASE UNCHANGED <<driverVars, batched>>
  <2>1. Current(o, p, CountedPcs)
    BY <1>5 DEF Current, Storing, driverVars, callVars, swapVars
  <2>2. QED
    BY <1>3, <1>5, <2>1
<1>6. ASSUME NEW t \in Servers, NetStep(t) PROVE UNCHANGED <<driverVars, batched>>
  BY <1>6 DEF NetStep, Deliver, Lose, MulticastThreadAlone, RdmaThreadAlone, netVars
<1>7. QED
  BY <1>4, <1>5, <1>6, SystemSteps DEF vars, netVars

LEMMA StageKeepsBatchStep ==
    ASSUME SystemInv, StageKeepsBatch, [Next]_vars
    PROVE  StageKeepsBatch'
<1>0. /\ DriverTypeOK /\ FarTypeOK /\ NetworkTypeOK /\ OneCallPerOffset /\ CountCoversStage
  BY PartsTypes DEF SystemInv, CallsInv, PartsInv, DriverInv
<1> SUFFICES ASSUME ~raced', NEW o \in Offsets, o \notin skipped', checkList'[o] = None,
                    NEW p \in Page, Current(o, p, StagedPcs)', p \in batched'
             PROVE  FALSE
  BY DEF StageKeepsBatch
<1>1. StagedPcs \in SUBSET StorePcs /\ "poll" \in StagedPcs
  BY DEF StagedPcs, StorePcs
<1>2. ASSUME ~raced, o \notin skipped, checkList[o] = None, p \in batched, Current(o, p, StagedPcs)
      PROVE  FALSE
  BY <1>2 DEF StageKeepsBatch
<1>3. ASSUME NEW c \in Cpus, CpuStep(c) PROVE FALSE
  <2>1. DriverStep(c)
    BY <1>0, <1>3, CpuSteps
  <2>2. ~Clears(c)
    BY DEF Clears
  <2>3. ~ClearStage(c)
    <3>1. ASSUME ClearStage(c) PROVE Clears(c)
      <4>1. DriverAlone(c)
        BY <1>3, <3>1 DEF CpuStep, ClearStage, NextServer, CallOpen, OpenCall, OpenAnswered,
           OpenReturn, CallCommit, CommitCall, CommitAnswered, CommitReturn, CallLost, OpenFails,
           CommitFails, ReadRemote, Multicast, Post
      <4>2. pc[c] = "commit" /\ pc'[c] = "reset" /\ batched' = {}
        BY <1>0, <3>1, <4>1 DEF ClearStage, Goto, DriverAlone, DriverTypeOK
      <4>3. QED
        BY <3>1, <4>2 DEF ClearStage, Clears
    <3>2. QED
      BY <2>2, <3>1
  <2>4. ~raced
    BY <2>1, <2>3
       DEF DriverStep, Kernel, StoreBegin, StoreUnmapped, LoadBegin, EnterWrite, OpenFailed, OpenDone,
           CheckBatch, RpcStep, OpenSkip, OpenCall, CommitCall, OpenReturn, CommitReturn, ResetCount,
           Reserve, Post, StageFull, StageStore, StageUnlocks, StageRetakes, CountLoad, CountStore,
           SendFails, PostFails, PollSend, LoadStep, StageHit, StageMiss, ReadHangs, RdmaRead,
           LoadReturns, LoadDone, ReadFails, stageVars
  <2>5. ~StageRetakes(c) /\ ~StageUnlocks(c)
    BY <1>0, <2>4 DEF StageRetakes, StageUnlocks, CountCoversStage
  <2>6. /\ batched' = batched /\ pc[c] # "reserve"
        \/ Reserves(c)
    BY <1>0, <1>3, <2>2, BatchedSteps
  <2>7. ASSUME Current(o, p, StagedPcs), o \notin skipped, checkList[o] = None PROVE FALSE
    <3>1. p.off = o
      BY <2>7 DEF Current
    <3>2. CASE Reserves(c)
      <4>1. p \in batched \/ p = arg[c]
        BY <3>2 DEF Reserves
      <4>2. CASE p = arg[c]
        BY <1>0, <1>1, <2>7, <3>1, <3>2, <4>2, CurrentOfStore DEF Reserves, StorePcs, StagedPcs
      <4>3. QED
        BY <1>2, <2>4, <2>7, <4>1, <4>2
    <3>3. QED
      BY <1>2, <2>4, <2>6, <2>7, <3>2
  <2>8. \/ Current(o, p, StagedPcs)
        \/ pc[c] \notin StagedPcs /\ pc'[c] \in StagedPcs /\ arg'[c] = p /\ p.off = o
    BY <1>0, <1>1, <2>1, CurrentMoves
  <2>9. CASE pc[c] # "stage"
    <3>1. ~StageFull(c) /\ ~StageStore(c)
      BY <2>9 DEF StageFull, StageStore, TakeSlot
    <3>2. checkList' = checkList
      BY <2>1, <2>3, <2>5, <3>1
         DEF DriverStep, Kernel, StoreBegin, StoreUnmapped, LoadBegin, EnterWrite, OpenFailed, OpenDone,
             CheckBatch, RpcStep, OpenSkip, OpenCall, CommitCall, OpenReturn, CommitReturn, ResetCount,
             Reserve, Post, CountLoad, CountStore, SendFails, PostFails, PollSend, LoadStep, StageHit,
             StageMiss, ReadHangs, RdmaRead, LoadReturns, LoadDone, ReadFails, stageVars
    <3>3. skipped' = skipped
      BY <1>3, <2>9 DEF CpuStep, DriverAlone, Multicast, CallOpen, OpenAnswered, CallCommit,
         CommitAnswered, CallLost, OpenFails, CommitFails, ReadRemote, netVars
    <3>4. Current(o, p, StagedPcs)
      BY <1>0, <2>1, <2>5, <2>8, <3>1, StepsInOrder
    <3>5. QED
      BY <2>7, <3>2, <3>3, <3>4
  <2>10. CASE pc[c] = "stage"
    <3>1. DriverAlone(c) /\ (StageFull(c) \/ StageStore(c))
      BY <1>3, <2>1, <2>5, <2>10
         DEF CpuStep, Multicast, CallOpen, OpenAnswered, CallCommit, CommitAnswered, CallLost,
             OpenFails, CommitFails, ReadRemote,
             DriverStep, Kernel, StoreBegin, StoreUnmapped, LoadBegin, EnterWrite, OpenFailed, OpenDone,
             CheckBatch, RpcStep, OpenSkip, OpenCall, CommitCall, OpenReturn, CommitReturn, ClearStage,
             ResetCount, Reserve, Post, CountLoad, CountStore, SendFails, PostFails, PollSend, LoadStep,
             StageHit, StageMiss, ReadHangs, RdmaRead, LoadReturns, LoadDone, ReadFails
    <3>2. arg[c] \in Page /\ arg[c].off \in Offsets /\ arg'[c] = arg[c]
      BY <1>0, <2>10, <3>1, PageOfCall DEF StageFull, StageStore
    <3>3. arg[c].off # o /\ o \notin skipped /\ checkList'[o] = checkList[o]
      <4>1. CASE StageFull(c)
        <5>1. pc'[c] = "poll"
          BY <1>0, <4>1 DEF StageFull, Goto, DriverTypeOK
        <5>2. skipped' = skipped \cup {arg[c].off}
          BY <2>10, <3>1, <5>1 DEF DriverAlone
        <5>3. QED
          BY <1>0, <4>1, <5>2 DEF StageFull, DriverTypeOK
      <4>2. CASE StageStore(c)
        <5>1. pc'[c] = "count" /\ index # None
          BY <1>0, <4>2, NoneAssumption DEF StageStore, Goto, DriverTypeOK, Slots
        <5>2. skipped' = skipped \ {arg[c].off}
          BY <2>10, <3>1, <5>1 DEF DriverAlone
        <5>3. arg[c].off # o
          BY <1>0, <3>2, <4>2, <5>1 DEF StageStore, DriverTypeOK
        <5>4. QED
          BY <1>0, <4>2, <5>2, <5>3 DEF StageStore, DriverTypeOK
      <4>3. QED
        BY <3>1, <4>1, <4>2
    <3>4. QED
      BY <2>7, <2>8, <3>2, <3>3
  <2>11. QED
    BY <2>9, <2>10
<1>4. CASE UNCHANGED <<driverVars, batched, skipped>>
  <2>1. Current(o, p, StagedPcs) /\ ~raced /\ checkList[o] = None
    BY <1>4 DEF Current, Storing, driverVars, callVars, swapVars, stageVars
  <2>2. QED
    BY <1>2, <1>4, <2>1
<1>5. ASSUME NEW s \in Servers, NetStep(s) PROVE UNCHANGED <<driverVars, batched, skipped>>
  BY <1>5 DEF NetStep, Deliver, Lose, MulticastThreadAlone, RdmaThreadAlone, netVars
<1>6. QED
  BY <1>3, <1>4, <1>5, SystemSteps DEF vars, netVars

LEMMA CurrentIsLatestStep ==
    ASSUME SystemInv, CurrentIsLatest, OneCallPerOffset', [Next]_vars
    PROVE  CurrentIsLatest'
<1>0. /\ DriverTypeOK /\ FarTypeOK /\ NetworkTypeOK /\ OneCallPerOffset /\ PagesInOrder
  BY PartsTypes DEF SystemInv, CallsInv, PartsInv, DriverInv
<1> SUFFICES ASSUME NEW s \in Servers, NEW o \in Offsets, NEW p \in Page,
                    Current(o, p, StorePcs)', NEW q \in SentTo(s)', q.off = o
             PROVE  q.ver <= p.ver
  BY DEF CurrentIsLatest
<1>1. ASSUME Current(o, p, StorePcs), q \in SentTo(s) PROVE q.ver <= p.ver
  BY <1>1 DEF CurrentIsLatest
<1>2. ASSUME NEW c \in Cpus, CpuStep(c) PROVE q.ver <= p.ver
  <2>1. DriverStep(c)
    BY <1>0, <1>2, CpuSteps
  <2>2. \/ Current(o, p, StorePcs)
        \/ pc[c] \notin StorePcs /\ pc'[c] \in StorePcs /\ arg'[c] = p
    BY <1>0, <2>1, CurrentMoves DEF StorePcs
  <2>3. delivered' = delivered
    BY <1>2 DEF CpuStep, DriverAlone, Multicast, CallOpen, OpenAnswered, CallCommit, CommitAnswered,
       CallLost, OpenFails, CommitFails, ReadRemote, Call, TakeReply, serverVars, historyVars
  <2>4. CASE Multicast(c)
    <3>1. pc[c] = "post" /\ pc'[c] = "stage" /\ arg' = arg
      BY <1>0, <2>4 DEF Multicast, Post, Goto, DriverTypeOK
    <3>2. q \in SentTo(s) \/ q = arg[c]
      <4>1. flight[s] \in Seq(Page) /\ arg[c] \in Page
        BY <1>0, <3>1, PageOfCall DEF NetworkTypeOK
      <4>2. Elems(flight'[s]) \subseteq Elems(flight[s]) \cup {arg[c]}
        BY <2>4, <4>1, ElemsOfAppend DEF Multicast
      <4>3. QED
        BY <2>3, <4>2 DEF SentTo
    <3>3. Current(o, p, StorePcs)
      BY <2>2, <3>1 DEF StorePcs
    <3>4. CASE q = arg[c]
      <4>1. p = arg[c]
        BY <1>0, <3>1, <3>3, <3>4, CurrentOfStore DEF StorePcs
      <4>2. q.ver \in Nat
        BY <1>0, <3>1, <3>4, PageOfCall
      <4>3. QED
        BY <3>4, <4>1, <4>2
    <3>5. QED
      BY <1>1, <3>2, <3>3, <3>4
  <2>5. CASE ~Multicast(c)
    <3>1. flight' = flight
      BY <1>2, <2>5 DEF CpuStep, DriverAlone, CallOpen, OpenAnswered, CallCommit, CommitAnswered,
         CallLost, OpenFails, CommitFails, ReadRemote, netVars
    <3>2. q \in SentTo(s)
      BY <2>3, <3>1 DEF SentTo
    <3>3. CASE pc[c] \notin StorePcs /\ pc'[c] \in StorePcs /\ arg'[c] = p
      <4>1. PICK x \in Offsets : StoreBegin(c, x)
        BY <1>0, <2>1, <3>3, StepsInOrder
      <4>2. p.ver = stores + 1
        BY <1>0, <3>3, <4>1 DEF StoreBegin, DriverTypeOK
      <4>3. q.ver <= stores
        BY <1>0, <3>2 DEF PagesInOrder, InOrder
      <4>4. q.ver \in Int /\ stores \in Int
        <5>1. flight[s] \in Seq(Page) /\ delivered[s] \subseteq Page
          BY <1>0 DEF NetworkTypeOK, FarTypeOK
        <5>2. SentTo(s) \subseteq Page
          BY <5>1, ElemsOfSeq DEF SentTo
        <5>3. QED
          BY <1>0, <3>2, <5>2, MaxStoresAssumption DEF Page, DriverTypeOK
      <4>5. QED
        BY <4>2, <4>3, <4>4
    <3>4. QED
      BY <1>1, <2>2, <3>2, <3>3
  <2>6. QED
    BY <2>4, <2>5
<1>3. ASSUME UNCHANGED driverVars, SentTo(s)' \subseteq SentTo(s) PROVE q.ver <= p.ver
  BY <1>1, <1>3 DEF Current, Storing, driverVars, callVars, swapVars
<1>4. ASSUME NEW t \in Servers, NetStep(t)
      PROVE  UNCHANGED driverVars /\ SentTo(s)' \subseteq SentTo(s)
  <2>1. CASE Deliver(t)
    BY <1>0, <2>1, Arrives DEF SentTo
  <2>2. CASE Lose(t)
    <3>1. flight[t] \in Seq(Page) /\ flight[t] # <<>>
      BY <1>0, <2>2 DEF Lose, NetworkTypeOK
    <3>2. Elems(Tail(flight[t])) \subseteq Elems(flight[t])
      BY <3>1, HeadAndTail
    <3>3. QED
      BY <1>0, <2>2, <3>2 DEF Lose, SentTo, NetworkTypeOK, serverVars, historyVars
  <2>3. CASE MulticastThreadAlone(t) \/ RdmaThreadAlone(t)
    BY <2>3, ThreadsReceiveNothing DEF MulticastThreadAlone, RdmaThreadAlone, SentTo, netVars
  <2>4. QED
    BY <1>4, <2>1, <2>2, <2>3 DEF NetStep
<1>5. CASE UNCHANGED vars
  BY <1>3, <1>5 DEF vars, SentTo, serverVars, historyVars, netVars
<1>6. QED
  BY <1>2, <1>3, <1>4, <1>5, SystemSteps

LEMMA CallsAliveStep ==
    ASSUME SystemInv, CallsAlive, [Next]_vars
    PROVE  CallsAlive'
<1>0. DriverTypeOK /\ NetworkTypeOK
  BY PartsTypes DEF SystemInv, CallsInv
<1>1. ASSUME NEW d \in Cpus, \/ todo'[d] = todo[d] \/ todo'[d] \in {<<>>, AliveOrder}
                             \/ todo[d] # <<>> /\ todo'[d] = Tail(todo[d])
      PROVE  Elems(todo'[d]) \subseteq Alive
  <2>1. Elems(<<>>) = {}
    BY DEF Elems
  <2>2. QED
    BY <1>0, <1>1, <2>1, HeadOfTodo, AliveAreServers DEF CallsAlive
<1>2. ASSUME NEW c \in Cpus, CpuStep(c) PROVE CallsAlive'
  <2>1. CASE DriverAlone(c)
    <3>1. rdmaInfo' = rdmaInfo /\ \A d \in Cpus : d # c => todo'[d] = todo[d]
      BY <1>0, <2>1, LocalMoves DEF DriverAlone, OnlyCpu
    <3>2. \/ todo'[c] = todo[c] \/ todo'[c] \in {<<>>, AliveOrder}
          \/ todo[c] # <<>> /\ todo'[c] = Tail(todo[c])
      BY <1>0, <2>1, BatchMoves DEF Reserves, Clears, GivesUp, StartsCommit, Aside
    <3>3. QED
      BY <1>1, <3>1, <3>2 DEF CallsAlive, Alive
  <2>2. CASE ~DriverAlone(c)
    <3>1. /\ todo' = todo \/ (todo[c] # <<>> /\ todo' = [todo EXCEPT ![c] = Tail(@)])
          /\ \/ rdmaInfo' = rdmaInfo
             \/ /\ todo[c] # <<>>
                /\ \E b : rdmaInfo' = [rdmaInfo EXCEPT ![Head(todo[c])] = @ \cup {b}]
      BY <1>2, <2>2 DEF CpuStep, CallOpen, OpenCall, OpenAnswered, OpenReturn, CallCommit, CommitCall,
         CommitAnswered, CommitReturn, CallLost, OpenFails, CommitFails, ReadRemote, RdmaRead, Multicast, Post, NextServer, lockVars
    <3>2. \A d \in Cpus : Elems(todo'[d]) \subseteq Alive
      BY <1>0, <1>1, <3>1 DEF DriverTypeOK
    <3>3. todo[c] # <<>> => Head(todo[c]) \in Alive
      BY <1>0, HeadOfTodo DEF CallsAlive
    <3>4. \A s \in Servers : rdmaInfo'[s] # {} => s \in Alive
      BY <1>0, <3>1, <3>3 DEF CallsAlive, DriverTypeOK
    <3>5. QED
      BY <3>2, <3>4 DEF CallsAlive, Alive
  <2>3. QED
    BY <2>1, <2>2
<1>3. CASE UNCHANGED driverVars
  BY <1>3 DEF driverVars, lockVars, callVars, CallsAlive, Alive
<1>4. QED
  BY <1>0, <1>2, <1>3, NetSteps, SystemSteps DEF vars


THEOREM KeptInvariant == Spec /\ [][WaitsForBatch]_vars => [](SystemInv /\ BatchInv /\ KeptInv)
<1>1. Init => SystemInv /\ BatchInv /\ KeptInv
  BY SystemInit, BatchInit, KeptInit
<1>2. SystemInv /\ BatchInv /\ KeptInv /\ [Next]_vars /\ [WaitsForBatch]_vars
        => (SystemInv /\ BatchInv /\ KeptInv)'
  <2> SUFFICES ASSUME SystemInv, BatchInv, KeptInv, [Next]_vars, [WaitsForBatch]_vars
               PROVE  SystemInv' /\ BatchInv' /\ KeptInv'
    OBVIOUS
  <2>1. SystemInv'
    BY SystemInvStep
  <2>2. BatchInv'
    BY <2>1, BatchStep
  <2>3. OneCallPerOffset'
    BY <2>1 DEF SystemInv, CallsInv, PartsInv, DriverInv
  <2>4. PagesKept' /\ StageKeepsBatch' /\ CurrentIsLatest' /\ CallsAlive'
    BY <2>1, <2>2, <2>3, PagesKeptStep, StageKeepsBatchStep, CurrentIsLatestStep, CallsAliveStep
       DEF KeptInv
  <2>5. QED
    BY <2>1, <2>2, <2>4 DEF KeptInv
<1>3. QED
  BY <1>1, <1>2, PTL DEF Spec

----------------------------------------------------------------------------
(* The refinement: what the system answers for, and what a caller sees of  *)
(* each step.                                                              *)

\* A load that reads a server finds there what the last store wrote.
LEMMA ReadGetsLatest ==
    ASSUME SystemInv, BatchInv, KeptInv, NEW c \in Cpus, NEW s \in Servers, ReadRemote(c, s),
           arg[c].off \in Kept
    PROVE  mem[s][arg[c].off] = arg[c]
<1> DEFINE o == arg[c].off
<1>1. /\ DriverTypeOK /\ FarTypeOK /\ NetworkTypeOK /\ OneCallPerOffset
      /\ LoadsConform /\ LoadsAskForLast /\ OrderInv(s)
  BY PartsTypes DEF SystemInv, CallsInv, PartsInv, DriverInv
<1>2. pc[c] = "read" /\ BlockOf[o] \in rdmaInfo[s] /\ NeverEarly /\ ~raced /\ o \notin skipped
  BY DEF ReadRemote, RdmaRead, Kept
<1>3. arg[c] \in Page /\ o \in Offsets /\ arg[c].ver \in Nat
  BY <1>1, <1>2, PageOfCall
<1>4. s \in Alive /\ InTouch(s)
  BY <1>2 DEF KeptInv, CallsAlive, InTouch, NeverMissed, Kept, ReadRemote
<1>5. \A pcs \in SUBSET StorePcs : Current(o, arg[c], pcs)
  <2>1. arg[c].ver = stored[o] /\ stored[o] # 0
    BY <1>1, <1>2, <1>3, MaxStoresAssumption DEF LoadsAskForLast, LoadPcs, Page
  <2>2. ~ \E d \in Cpus : Storing(d, o)
    BY <1>1, <1>2 DEF OneCallPerOffset, Storing, StorePcs
  <2>3. arg[c] = [off |-> o, ver |-> stored[o]]
    BY <1>3, <2>1 DEF Page
  <2>4. QED
    BY <2>1, <2>2, <2>3 DEF Current
<1>6. Current(o, arg[c], CountedPcs) /\ Current(o, arg[c], StagedPcs) /\ Current(o, arg[c], StorePcs)
  BY <1>5 DEF CountedPcs, StagedPcs, StorePcs
<1>7. arg[c] \notin batched
  BY <1>1, <1>2, <1>3, <1>6 DEF KeptInv, StageKeepsBatch, LoadsConform
<1>8. HasAtLeast(s, arg[c])
  BY <1>2, <1>3, <1>4, <1>6, <1>7 DEF KeptInv, PagesKept
<1>9. mem[s][o] # None /\ mem[s][o].ver >= arg[c].ver
  BY <1>8 DEF HasAtLeast, AtLeast
<1>10. mem[s][o] \in SentTo(s) /\ mem[s][o].off = o
  <2>1. clash[s] = FALSE
    BY <1>2, <1>4 DEF BatchInv, Accounted, Undisturbed
  <2>2. Ordered(s)
    BY <1>1, <2>1 DEF OrderInv
  <2>3. QED
    BY <1>3, <1>9, <2>2 DEF Ordered, SentTo
<1>11. mem[s][o].ver <= arg[c].ver
  BY <1>3, <1>6, <1>10 DEF KeptInv, CurrentIsLatest
<1>12. mem[s][o] \in Page
  BY <1>1, <1>3, <1>9 DEF FarTypeOK, Content
<1>13. mem[s][o].ver = arg[c].ver
  BY <1>3, <1>9, <1>11, <1>12, MaxStoresAssumption DEF Page
<1>14. QED
  BY <1>3, <1>10, <1>12, <1>13 DEF Page


\* What the system answers for changes with what is staged or dropped, in no step a
\* caller sees.
LEMMA KeptMoves ==
    ASSUME DriverTypeOK, NEW c \in Cpus, CpuStep(c)
    PROVE  Kept' = Kept \/ UNCHANGED <<SwapCalls, stored, stores>>
<1>1. early' = early
  BY DEF CpuStep, DriverAlone, Multicast, CallOpen, OpenAnswered, CallCommit, CommitAnswered,
     CallLost, OpenFails, CommitFails, ReadRemote, Call, TakeReply, serverVars, historyVars
<1>2. ASSUME raced' = raced, skipped' = skipped, missed' = missed PROVE Kept' = Kept
  BY <1>1, <1>2 DEF Kept, NeverEarly, NeverMissed, Alive
<1>3. ASSUME UNCHANGED <<arg, got, stored, stores>>, pc[c] \in StorePcs,
             \E l \in StorePcs : pc' = [pc EXCEPT ![c] = l]
      PROVE  UNCHANGED <<SwapCalls, stored, stores>>
  <2>1. \A d \in Cpus : /\ pc'[d] \in StorePcs <=> pc[d] \in StorePcs
                        /\ pc'[d] = "idle" <=> pc[d] = "idle"
    BY <1>3 DEF StorePcs, DriverTypeOK
  <2>2. QED
    BY <1>3, <2>1 DEF SwapCalls, SwapCall
<1>4. CASE ClearStage(c) \/ StageFull(c) \/ StageStore(c) \/ StageUnlocks(c)
  BY <1>3, <1>4 DEF ClearStage, StageFull, StageStore, StageUnlocks, TakeSlot, Goto, swapVars, StorePcs
<1>5. ASSUME NEW s \in Servers, CommitFails(c, s) PROVE UNCHANGED <<SwapCalls, stored, stores>>
  BY <1>3, <1>5 DEF CommitFails, CommitReturn, Goto, swapVars, StorePcs
<1>6. CASE /\ ~(ClearStage(c) \/ StageFull(c) \/ StageStore(c) \/ StageUnlocks(c))
           /\ ~ \E s \in Servers : CommitFails(c, s)
  <2>1. CASE DriverAlone(c)
    <3>1. raced' = raced /\ pc[c] # "stage"
      BY <1>6, <2>1
         DEF DriverAlone, LocalStep, StoreBegin, StoreUnmapped, LoadBegin, EnterWrite, OpenFailed,
             OpenDone, OpenSkip, ReadFails, CheckBatch, ResetCount, Reserve, PostFails, StageRetakes,
             CountLoad, CountStore, PollSend, StageHit, StageMiss, ReadHangs, LoadDone, stageVars
    <3>2. QED
      BY <1>2, <2>1, <3>1 DEF DriverAlone
  <2>2. CASE ~DriverAlone(c)
    <3>1. skipped' = skipped /\ missed' = missed
      BY <1>6, <2>2 DEF CpuStep, Multicast, CallOpen, OpenAnswered, CallCommit, CommitAnswered, CallLost,
         OpenFails, ReadRemote, netVars
    <3>2. raced' = raced
      BY <1>6, <2>2 DEF CpuStep, Multicast, Post, CallOpen, OpenCall, OpenAnswered, OpenReturn, CallCommit,
         CommitCall, CommitAnswered, CommitReturn, CallLost, OpenFails, ReadRemote, RdmaRead, stageVars
    <3>3. QED
      BY <1>2, <3>1, <3>2
  <2>3. QED
    BY <2>1, <2>2
<1>7. QED
  BY <1>4, <1>5, <1>6

\* A call that goes on has its page from the stage or from a server's memory.
LEMMA GotSteps ==
    ASSUME DriverTypeOK, NEW c \in Cpus, CpuStep(c), ~StageHit(c), ~ \E s \in Servers : ReadRemote(c, s),
           NEW d \in Cpus
    PROVE  got'[d] = got[d] \/ pc'[d] = "idle"
<1>1. CASE DriverAlone(c)
  BY <1>1 DEF DriverAlone, LocalStep, StoreBegin, StoreUnmapped, LoadBegin, EnterWrite, OpenFailed,
     OpenDone, OpenSkip, ReadFails, CheckBatch, ClearStage, ResetCount, Reserve, PostFails, StageFull,
     StageStore, StageUnlocks, StageRetakes, TakeSlot, CountLoad, CountStore, PollSend, StageMiss,
     ReadHangs, LoadDone, StoreResult, Return, Goto, callVars, DriverTypeOK
<1>2. CASE ~DriverAlone(c)
  BY <1>2 DEF CpuStep, Multicast, Post, CallOpen, OpenCall, OpenAnswered, OpenReturn, CallCommit,
     CommitCall, CommitAnswered, CommitReturn, CallLost, OpenFails, CommitFails
<1>3. QED
  BY <1>1, <1>2

\* Whatever the caller does not see, the store takes or gives up an offset by.
LEMMA UnseenStep ==
    ASSUME UNCHANGED <<SwapCalls, stored, stores>>
    PROVE  KeptStore!StoreNext
<1>1. Kept' \in SUBSET Offsets
  BY DEF Kept
<1>2. KeptStore!Vouch
  BY <1>1 DEF KeptStore!Vouch
<1>3. QED
  BY <1>2 DEF KeptStore!StoreNext

\* A load that gets what the system keeps.
LEMMA KeptGetting ==
    ASSUME DriverTypeOK, NEW c \in Cpus, NEW d \in Content,
           pc[c] \in {"load", "read"}, got' = [got EXCEPT ![c] = d], Goto(c, "loaded"),
           UNCHANGED <<Kept, arg, stored, stores>>, arg[c].off \in Kept => d = arg[c]
    PROVE  KeptStore!StoreNext
<1>1. d \in IF arg[c].off \in Kept THEN {arg[c]} ELSE Content
  OBVIOUS
<1>2. /\ SwapCalls[c] # None /\ SwapCalls[c].op = "load" /\ SwapCalls[c].page = arg[c]
      /\ SwapCalls' = [SwapCalls EXCEPT ![c].got = d]
  BY GotCall
<1>3. KeptStore!LoadGets(c)
  BY <1>1, <1>2 DEF KeptStore!LoadGets, KeptStore!Content, KeptStore!Page, Content, Page
<1>4. QED
  BY <1>3 DEF KeptStore!StoreNext


LEMMA KeptCpuStep ==
    ASSUME SystemInv, BatchInv, KeptInv, NEW c \in Cpus, CpuStep(c)
    PROVE  KeptStore!StoreNext
<1>0. DriverTypeOK /\ FarTypeOK /\ NetworkTypeOK /\ DriverInv /\ LoadsConform /\ LoadsAskForLast
  BY PartsTypes DEF SystemInv, CallsInv, PartsInv
<1>1. CASE UNCHANGED <<SwapCalls, stored, stores>>
  BY <1>1, UnseenStep
<1>2. CASE Kept' = Kept /\ StageHit(c)
  <2>1. /\ pc[c] = "load" /\ got' = [got EXCEPT ![c] = slot[checkList[arg[c].off]]]
        /\ Goto(c, "loaded") /\ UNCHANGED <<arg, stored, stores>>
    BY <1>2 DEF StageHit, swapVars
  <2>2. arg[c].off \in Kept => arg[c].off \in Staged
    BY <1>2 DEF StageHit, Staged, Kept
  <2>3. QED
    BY <1>0, <1>2, <2>1, <2>2, StagedPageIsAsked, KeptGetting
<1>3. ASSUME Kept' = Kept, NEW s \in Servers, ReadRemote(c, s) PROVE KeptStore!StoreNext
  <2>1. /\ pc[c] = "read" /\ got' = [got EXCEPT ![c] = mem[s][arg[c].off]]
        /\ Goto(c, "loaded") /\ UNCHANGED <<arg, stored, stores>>
    BY <1>3 DEF ReadRemote, RdmaRead, swapVars
  <2>2. arg[c].off \in Offsets
    BY <1>0, <2>1, PageOfCall
  <2>3. mem[s][arg[c].off] \in Content
    BY <1>0, <2>2 DEF FarTypeOK
  <2>4. arg[c].off \in Kept => mem[s][arg[c].off] = arg[c]
    BY <1>3, ReadGetsLatest
  <2>5. QED
    BY <1>0, <1>3, <2>1, <2>3, <2>4, KeptGetting
<1>4. ASSUME Kept' = Kept, ~StageHit(c), ~ \E s \in Servers : ReadRemote(c, s),
             ~UNCHANGED <<SwapCalls, stored, stores>>
      PROVE  KeptStore!StoreNext
  <2>1. [StagedStore!StoreNext]_(StagedStore!storeVars)
    <3>1. AnyDriverStep
      BY <1>0, CpuSteps DEF AnyDriverStep
    <3>2. QED
      BY <1>0, <3>1, StoreStep
  <2>2. CASE \/ \E d \in Cpus, o \in Offsets : StagedStore!StoreBegins(d, o) \/ StagedStore!LoadBegins(d, o)
             \/ \E o \in Offsets : StagedStore!StoreRefused(o)
             \/ \E d \in Cpus : StagedStore!StoreEnds(d) \/ StagedStore!LoadEnds(d)
    <3>1. \A d \in Cpus, o \in Offsets :
            /\ StagedStore!StoreBegins(d, o) => KeptStore!StoreBegins(d, o)
            /\ StagedStore!LoadBegins(d, o) => KeptStore!LoadBegins(d, o)
      BY <1>4 DEF StagedStore!StoreBegins, KeptStore!StoreBegins, StagedStore!LoadBegins,
         KeptStore!LoadBegins, StagedStore!NewCall, KeptStore!NewCall, StagedStore!Free, KeptStore!Free
    <3>2. \A o \in Offsets : StagedStore!StoreRefused(o) => KeptStore!StoreRefused(o)
      BY <1>4 DEF StagedStore!StoreRefused, KeptStore!StoreRefused, StagedStore!Free, KeptStore!Free
    <3>3. \A d \in Cpus : /\ StagedStore!StoreEnds(d) => KeptStore!StoreEnds(d)
                          /\ StagedStore!LoadEnds(d) => KeptStore!LoadEnds(d)
      BY <1>4 DEF StagedStore!StoreEnds, KeptStore!StoreEnds, StagedStore!LoadEnds, KeptStore!LoadEnds
    <3>4. QED
      BY <2>2, <3>1, <3>2, <3>3 DEF KeptStore!StoreNext
  <2>3. ASSUME NEW d \in Cpus, StagedStore!LoadGets(d) PROVE FALSE
    <3>1. UNCHANGED <<stored, stores>> /\ SwapCalls[d] # None
      BY <2>3 DEF StagedStore!LoadGets
    <3>2. PICK e \in Content \cup {SwapCalls[d].page} : SwapCalls' = [SwapCalls EXCEPT ![d].got = e]
      BY <2>3 DEF StagedStore!LoadGets, StagedStore!Content, StagedStore!Page, Content, Page
    <3>3. pc[d] # "idle" /\ SwapCalls[d] =
            [op |-> IF pc[d] \in StorePcs THEN "store" ELSE "load", page |-> arg[d], got |-> got[d]]
      BY <3>1 DEF SwapCalls, SwapCall
    <3>4. SwapCalls'[d] = [SwapCalls[d] EXCEPT !.got = e]
      BY <3>2 DEF SwapCalls
    <3>5. e \in Content /\ arg[d] \in Page
      BY <1>0, <3>2, <3>3, CallOfCpu DEF Content
    <3>6. PICK op \in {"store", "load"} : SwapCalls[d] = [op |-> op, page |-> arg[d], got |-> got[d]]
      BY <3>3
    <3>7. SwapCalls'[d] = [op |-> op, page |-> arg[d], got |-> e]
      BY <3>4, <3>6
    <3>8. SwapCalls'[d] # None
      BY <3>5, <3>7, NoCallAssumption DEF FrontswapCall
    <3>9. pc'[d] # "idle" /\ SwapCalls'[d].got = got'[d]
      BY <3>8 DEF SwapCalls, SwapCall
    <3>10. e = got[d]
      BY <1>0, <1>4, <3>7, <3>9, GotSteps
    <3>11. SwapCalls' = SwapCalls
      <4>1. SwapCalls'[d] = SwapCalls[d]
        BY <3>6, <3>7, <3>10
      <4>2. \A a \in Cpus : a # d => SwapCalls'[a] = SwapCalls[a]
        BY <3>2 DEF SwapCalls
      <4>3. \A a \in Cpus : SwapCall(a)' = SwapCall(a)
        BY <4>1, <4>2 DEF SwapCalls
      <4>4. QED
        BY <4>3, Zenon DEF SwapCalls
    <3>12. QED
      BY <1>4, <3>1, <3>11
  <2>4. CASE StagedStore!Vouch
    BY <1>4, <2>4 DEF StagedStore!Vouch
  <2>5. CASE UNCHANGED StagedStore!storeVars
    BY <1>4, <2>5 DEF StagedStore!storeVars
  <2>6. QED
    BY <2>1, <2>2, <2>3, <2>4, <2>5 DEF StagedStore!StoreNext
<1>5. QED
  BY <1>0, <1>1, <1>2, <1>3, <1>4, KeptMoves


LEMMA KeptStep ==
    SystemInv /\ BatchInv /\ KeptInv /\ [Next]_vars => KeptStore!StoreNext
<1> SUFFICES ASSUME SystemInv, BatchInv, KeptInv, [Next]_vars PROVE KeptStore!StoreNext
  OBVIOUS
<1>1. NetworkTypeOK
  BY PartsTypes DEF SystemInv, CallsInv
<1>2. CASE UNCHANGED driverVars
  <2>1. UNCHANGED <<SwapCalls, stored, stores>>
    BY <1>2 DEF driverVars, callVars, swapVars, SwapCalls, SwapCall
  <2>2. QED
    BY <2>1, UnseenStep
<1>3. QED
  BY <1>1, <1>2, KeptCpuStep, NetSteps, SystemSteps DEF vars

\* The whole system is a frontswap backend on the condition on which a commit is
\* durable: a load of an offset it answers for gets the last store's page, from the
\* stage or by RDMA from a server's memory (maruswap_rdma_read, drive/sib.c).
THEOREM SystemRefinesStore == Spec /\ [][WaitsForBatch]_vars => SystemImplementsStore
<1>1. Init => KeptStore!StoreInit
  BY StoreInits DEF Init, StagedStore!StoreInit, KeptStore!StoreInit, Kept
<1>2. SystemInv /\ BatchInv /\ KeptInv /\ [Next]_vars => [KeptStore!StoreNext]_(KeptStore!storeVars)
  BY KeptStep
<1>3. QED
  BY <1>1, <1>2, KeptInvariant, PTL DEF Spec, SystemImplementsStore, KeptStore!StoreSpec
=============================================================================
