----------------------------- MODULE SwapDriver -----------------------------
(***************************************************************************)
(* The frontswap backend of the client node: drive/sib.c (the driver the   *)
(* Makefile builds), drive/ib.h and drive/maruswap.c.  CPUs store and load *)
(* pages concurrently.  A store multicasts its page to the servers, keeps  *)
(* a copy in a ring of DRIVER_BATCH staging slots, and every DRIVER_BATCH  *)
(* stores asks each server to commit, after which the staged copies are    *)
(* dropped.  A load takes the staged copy, or reads a server's memory.     *)
(*                                                                         *)
(* What the servers answer is a parameter of the actions that wait for it: *)
(* DriverNext lets it be anything, Maruswap.tla joins it to FarServer.tla. *)
(***************************************************************************)
EXTENDS SwapPages, Sequences, FiniteSets

CONSTANTS
    Cpus,           \* the CPUs that call into frontswap
    Readers,        \* bound: the CPUs that also load
    DRIVER_BATCH,   \* CONFIG_BATCH of drive/ib.h
    AliveOrder,     \* the alive members of ctrl.rdma_ctrl_list, in list order
    Faults          \* what may fail: "dma", "rpc", "post", "send", "nomem"

ASSUME CpusAssumption ==
    IsFiniteSet(Cpus) /\ None \notin Cpus /\ Readers \subseteq Cpus
ASSUME DriverBatchAssumption == DRIVER_BATCH \in Nat \ {0}
ASSUME AliveOrderAssumption == AliveOrder \in Seq(Servers)
\* set_rdma puts each of them in the list once (drive/ib.h:238).
ASSUME AliveOnceAssumption ==
    \A i, j \in DOMAIN AliveOrder : AliveOrder[i] = AliveOrder[j] => i = j

VARIABLES
    \* ctrl_t, under ctrl.spinlock
    spin,       \* the CPU holding ctrl.spinlock
    batch,      \* ctrl.batch: stores since the last commit
    rdmaInfo,   \* per server, the blocks whose rkey is known
    \* stage_buffer_t, under its xa_lock but for count
    xa,         \* the CPU holding check_list's xa_lock across steps
    checkList,  \* check_list: the slot an offset is staged in
    slot,       \* buffer: what each slot holds
    index,      \* the next slot to use
    count,      \* slots believed in use
    \* the CPUs: frame of maruswap_multicast_write or maruswap_rdma_read
    pc,
    arg,        \* the page the call is about
    todo,       \* servers an *_all loop has still to call
    err,        \* ret of the *_all loop
    ptr,        \* dst_buf of stage_buffer_store
    tmp,        \* count as stage_buffer_count_add loaded it
    got,        \* what a load put in its page
    \* what frontswap believes, and the history the properties refer to
    stored,     \* per offset, the store frontswap would load; 0: none
    stores,     \* number of stores begun
    raced,      \* a store was staged between a clear and its count reset,
                \* or let go of the xa_lock halfway
    late        \* stores of the last batch not staged when it was cleared

lockVars  == <<spin, batch, rdmaInfo>>
stageVars == <<xa, checkList, slot, index, count, raced, late>>
callVars  == <<pc, arg, todo, err, ptr, tmp, got>>
swapVars  == <<stored, stores>>
driverVars == <<lockVars, stageVars, callVars, swapVars>>

Slots == 0 .. DRIVER_BATCH - 1

StorePcs == {"lock", "open", "opening", "check", "commit", "committing",
             "reset", "reserve", "post", "stage", "retake", "count", "add",
             "poll"}
LoadPcs  == {"load", "read", "loaded", "hung"}

\* The servers whose connection was established.
Alive == {AliveOrder[i] : i \in DOMAIN AliveOrder}

\* The steps a CPU takes holding ctrl.spinlock.
SpinPcs  == {"open", "opening", "check", "commit", "committing", "reset",
             "reserve"}
\* The steps a CPU takes holding the xa_lock.
XaPcs    == {"count", "add"}

----------------------------------------------------------------------------
(* Helpers. *)

Outcomes(fault) == IF fault \in Faults THEN BOOLEAN ELSE {TRUE}

\* The swap cache lets one store or load at a time work on an offset.
Busy(o) == \E c \in Cpus : pc[c] # "idle" /\ arg[c].off = o

Goto(c, l) == pc' = [pc EXCEPT ![c] = l]

\* maruswap_multicast_write or maruswap_rdma_read returns.
Return(c) ==
    /\ Goto(c, "idle")
    /\ arg' = [arg EXCEPT ![c] = None]
    /\ todo' = [todo EXCEPT ![c] = <<>>]
    /\ err' = [err EXCEPT ![c] = FALSE]
    /\ ptr' = [ptr EXCEPT ![c] = None]
    /\ tmp' = [tmp EXCEPT ![c] = 0]
    /\ got' = [got EXCEPT ![c] = None]

\* A store that fails leaves frontswap without a copy of the offset.
StoreResult(c, ok) ==
    /\ Return(c)
    /\ stored' = [stored EXCEPT ![arg[c].off] = IF ok THEN arg[c].ver ELSE 0]
    /\ UNCHANGED stores

\* ctrl.batch has reached CONFIG_BATCH.
BatchFull_late == batch > DRIVER_BATCH                  \* mutant
BatchFull == batch >= DRIVER_BATCH

stage_buffer_full_late == count > DRIVER_BATCH          \* mutant
stage_buffer_full == count >= DRIVER_BATCH

NextSlot_unbounded(i) == i + 1                          \* mutant
NextSlot(i) == (i + 1) % DRIVER_BATCH

\* check_list without an entry.
stage_buffer_clear_skipped == checkList                 \* mutant
stage_buffer_clear == [o \in Offsets |-> None]

stage_buffer_count_reset_skipped == count               \* mutant
stage_buffer_count_reset == 0

----------------------------------------------------------------------------
(* maruswap_multicast_write, up to the multicast. *)

\* frontswap calls store; get_req_for_page maps the page.
StoreBegin(c, o) ==
    /\ pc[c] = "idle" /\ ~Busy(o) /\ stores < MaxStores
    /\ stores' = stores + 1
    /\ arg' = [arg EXCEPT ![c] = [off |-> o, ver |-> stores + 1]]
    /\ Goto(c, "lock")
    /\ UNCHANGED <<lockVars, stageVars, todo, err, ptr, tmp, got, stored>>

\* ... or cannot map it, and the store returns before it takes the lock.
StoreUnmapped(c, o) ==
    /\ "dma" \in Faults
    /\ pc[c] = "idle" /\ ~Busy(o) /\ stores < MaxStores
    /\ stores' = stores + 1
    /\ stored' = [stored EXCEPT ![o] = 0]
    /\ UNCHANGED <<lockVars, stageVars, callVars>>

\* check_rdma_info looks at every server of the list, alive or not.
check_rdma_info_never(b) == FALSE                        \* mutant
check_rdma_info(b) == \E s \in Servers : b \notin rdmaInfo[s]

EnterWrite(c) ==
    /\ pc[c] = "lock" /\ spin = None
    /\ spin' = c
    /\ IF check_rdma_info(BlockOf[arg[c].off])
       THEN /\ Goto(c, "open")
            /\ todo' = [todo EXCEPT ![c] = AliveOrder]
       ELSE Goto(c, "check") /\ UNCHANGED todo
    /\ UNCHANGED <<batch, rdmaInfo, stageVars, arg, err, ptr, tmp, got, swapVars>>

NextServer(c, s) == todo[c] # <<>> /\ s = Head(todo[c])

\* ib_rpc_open_unlocked: no call for a block whose rkey is known.
OpenSkip(c, s) ==
    /\ pc[c] = "open" /\ NextServer(c, s)
    /\ BlockOf[arg[c].off] \in rdmaInfo[s]
    /\ todo' = [todo EXCEPT ![c] = Tail(@)]
    /\ UNCHANGED <<lockVars, stageVars, pc, arg, err, ptr, tmp, got, swapVars>>

OpenCall(c, s) ==
    /\ pc[c] = "open" /\ NextServer(c, s)
    /\ BlockOf[arg[c].off] \notin rdmaInfo[s]
    /\ Goto(c, "opening")
    /\ UNCHANGED <<lockVars, stageVars, arg, todo, err, ptr, tmp, got, swapVars>>

OpenReturn(c, s, ok) ==
    /\ pc[c] = "opening" /\ NextServer(c, s)
    /\ rdmaInfo' = IF ok
                   THEN [rdmaInfo EXCEPT ![s] = @ \cup {BlockOf[arg[c].off]}]
                   ELSE rdmaInfo
    /\ err' = [err EXCEPT ![c] = @ \/ ~ok]
    /\ todo' = [todo EXCEPT ![c] = Tail(@)]
    /\ Goto(c, "open")
    /\ UNCHANGED <<spin, batch, stageVars, arg, ptr, tmp, got, swapVars>>

\* out_error: the lock is released and the store fails.
OpenFailed(c) ==
    /\ pc[c] = "open" /\ todo[c] = <<>> /\ err[c]
    /\ spin' = None
    /\ StoreResult(c, FALSE)
    /\ UNCHANGED <<batch, rdmaInfo, stageVars>>

OpenDone(c) ==
    /\ pc[c] = "open" /\ todo[c] = <<>> /\ ~err[c]
    /\ Goto(c, "check")
    /\ UNCHANGED <<lockVars, stageVars, arg, todo, err, ptr, tmp, got, swapVars>>

\* A full batch is committed before the page joins the next one.
CheckBatch(c) ==
    /\ pc[c] = "check"
    /\ IF BatchFull
       THEN /\ Goto(c, "commit")
            /\ todo' = [todo EXCEPT ![c] = AliveOrder]
       ELSE Goto(c, "reserve") /\ UNCHANGED todo
    /\ UNCHANGED <<lockVars, stageVars, arg, err, ptr, tmp, got, swapVars>>

----------------------------------------------------------------------------
(* ib_rpc_commit_all, called with ctrl.spinlock held. *)

CommitCall(c, s) ==
    /\ pc[c] = "commit" /\ NextServer(c, s)
    /\ Goto(c, "committing")
    /\ UNCHANGED <<lockVars, stageVars, arg, todo, err, ptr, tmp, got, swapVars>>

CommitReturn(c, s, ok) ==
    /\ pc[c] = "committing" /\ NextServer(c, s)
    /\ err' = [err EXCEPT ![c] = @ \/ ~ok]
    /\ todo' = [todo EXCEPT ![c] = Tail(@)]
    /\ Goto(c, "commit")
    /\ UNCHANGED <<lockVars, stageVars, arg, ptr, tmp, got, swapVars>>

\* batch and the staged copies go whatever the servers answered.  A store that
\* let go of the xa_lock halfway is overtaken by the clear.
ClearStage(c) ==
    /\ pc[c] = "commit" /\ todo[c] = <<>> /\ xa = None
    /\ batch' = 0
    /\ checkList' = stage_buffer_clear
    /\ raced' = \E d \in Cpus : pc[d] = "retake"
    /\ late' = Cardinality({d \in Cpus : pc[d] \in {"post", "stage", "retake"}})
    /\ Goto(c, "reset")
    /\ UNCHANGED <<spin, rdmaInfo, xa, slot, index, count, arg, todo, err, ptr,
                   tmp, got, swapVars>>

\* stage_buffer_count_reset is outside the xa_lock.
ResetCount(c) ==
    /\ pc[c] = "reset"
    /\ count' = stage_buffer_count_reset
    /\ IF err[c]
       THEN spin' = None /\ StoreResult(c, FALSE)
       ELSE /\ Goto(c, "reserve")
            /\ UNCHANGED <<spin, arg, todo, err, ptr, tmp, got, swapVars>>
    /\ UNCHANGED <<batch, rdmaInfo, xa, checkList, slot, index, raced, late>>

\* The page counts for the batch, and the lock is released, before it is sent.
Reserve(c) ==
    /\ pc[c] = "reserve"
    /\ batch' = batch + 1
    /\ spin' = None
    /\ Goto(c, "post")
    /\ UNCHANGED <<rdmaInfo, stageVars, arg, todo, err, ptr, tmp, got, swapVars>>

----------------------------------------------------------------------------
(* __ib_multicast_send and stage_buffer_store: no spinlock. *)

Post(c) ==
    /\ pc[c] = "post"
    /\ Goto(c, "stage")
    /\ UNCHANGED <<lockVars, stageVars, arg, todo, err, ptr, tmp, got, swapVars>>

PostFails(c) ==
    /\ "post" \in Faults
    /\ pc[c] = "post"
    /\ StoreResult(c, FALSE)
    /\ UNCHANGED <<lockVars, stageVars>>

\* No free slot: the older copy goes, the new one is not kept.
StageFull(c) ==
    /\ pc[c] = "stage" /\ xa = None /\ stage_buffer_full
    /\ checkList' = [checkList EXCEPT ![arg[c].off] = None]
    /\ Goto(c, "poll")
    /\ UNCHANGED <<lockVars, xa, slot, index, count, raced, late, arg, todo, err, ptr,
                   tmp, got, swapVars>>

\* The page is copied to the next slot ...
TakeSlot(c) ==
    /\ pc[c] = "stage" /\ xa = None /\ ~stage_buffer_full
    /\ slot' = [slot EXCEPT ![index] = arg[c]]
    /\ index' = NextSlot(index)
    /\ ptr' = [ptr EXCEPT ![c] = index]

\* ... and indexed; the xa_lock stays held for the count.
StageStore(c) ==
    /\ TakeSlot(c)
    /\ xa' = c
    /\ checkList' = [checkList EXCEPT ![arg[c].off] = index]
    /\ raced' = (raced \/ \E d \in Cpus : pc[d] = "reset")
    /\ Goto(c, "count")
    /\ UNCHANGED <<lockVars, count, late, arg, todo, err, tmp, got, swapVars>>

\* __xa_store(GFP_KERNEL) needs a node: it drops the lock to allocate one.
StageUnlocks(c) ==
    /\ "nomem" \in Faults
    /\ TakeSlot(c)
    /\ checkList[arg[c].off] = None
    /\ raced' = TRUE
    /\ Goto(c, "retake")
    /\ UNCHANGED <<lockVars, xa, checkList, count, late, arg, todo, err, tmp, got,
                   swapVars>>

\* It stores the entry, or gives up with an error nobody looks at.
StageRetakes(c) ==
    /\ pc[c] = "retake" /\ xa = None
    /\ xa' = c
    /\ \E entry \in {ptr[c], None} :
          checkList' = [checkList EXCEPT ![arg[c].off] = entry]
    /\ Goto(c, "count")
    /\ UNCHANGED <<lockVars, slot, index, count, raced, late, arg, todo, err, ptr,
                   tmp, got, swapVars>>

\* stage_buffer_count_add is a load and a store of a plain int.
CountLoad(c) ==
    /\ pc[c] = "count"
    /\ tmp' = [tmp EXCEPT ![c] = count]
    /\ Goto(c, "add")
    /\ UNCHANGED <<lockVars, stageVars, arg, todo, err, ptr, got, swapVars>>

CountStore(c) ==
    /\ pc[c] = "add"
    /\ count' = tmp[c] + 1
    /\ xa' = None
    /\ Goto(c, "poll")
    /\ UNCHANGED <<lockVars, checkList, slot, index, raced, late, arg, todo, err, ptr,
                   tmp, got, swapVars>>

\* The send completes, with success or not, and the store returns.
PollSend(c, ok) ==
    /\ pc[c] = "poll"
    /\ StoreResult(c, ok)
    /\ UNCHANGED <<lockVars, stageVars>>

----------------------------------------------------------------------------
(* maruswap_rdma_read. *)

\* frontswap loads only what a store left in it.
LoadBegin(c, o) ==
    /\ c \in Readers /\ pc[c] = "idle" /\ ~Busy(o) /\ stored[o] # 0
    /\ arg' = [arg EXCEPT ![c] = [off |-> o, ver |-> stored[o]]]
    /\ Goto(c, "load")
    /\ UNCHANGED <<lockVars, stageVars, todo, err, ptr, tmp, got, swapVars>>

StageHit(c) ==
    /\ pc[c] = "load" /\ xa = None /\ checkList[arg[c].off] # None
    /\ got' = [got EXCEPT ![c] = slot[checkList[arg[c].off]]]
    /\ Goto(c, "loaded")
    /\ UNCHANGED <<lockVars, stageVars, arg, todo, err, ptr, tmp, swapVars>>

StageMiss(c) ==
    /\ pc[c] = "load" /\ xa = None /\ checkList[arg[c].off] = None
    /\ Goto(c, "read")
    /\ UNCHANGED <<lockVars, stageVars, arg, todo, err, ptr, tmp, got, swapVars>>

\* RDMA READ of server s: main or sub, by the parity of the CPU the call runs on.
RdmaRead(c, s, d) ==
    /\ pc[c] = "read"
    /\ BlockOf[arg[c].off] \in rdmaInfo[s]
    /\ got' = [got EXCEPT ![c] = d]
    /\ Goto(c, "loaded")
    /\ UNCHANGED <<lockVars, stageVars, arg, todo, err, ptr, tmp, swapVars>>

\* No mapping, no rkey or a failed completion, as on a connection a failed RPC broke:
\* frontswap is told so.
ReadFails(c, s) ==
    /\ pc[c] = "read" /\ s \in Alive
    /\ \/ {"dma", "rpc", "send"} \cap Faults # {}
       \/ BlockOf[arg[c].off] \notin rdmaInfo[s]
    /\ Return(c)
    /\ UNCHANGED <<lockVars, stageVars, swapVars>>

\* A read that cannot be posted, as on a connection never established, is polled
\* for all the same.
ReadHangs(c) ==
    /\ pc[c] = "read" /\ (Alive # Servers \/ "post" \in Faults)
    /\ Goto(c, "hung")
    /\ UNCHANGED <<lockVars, stageVars, arg, todo, err, ptr, tmp, got, swapVars>>

LoadDone(c) ==
    /\ pc[c] = "loaded"
    /\ Return(c)
    /\ UNCHANGED <<lockVars, stageVars, swapVars>>

----------------------------------------------------------------------------
(* The specification. *)

DriverInit ==
    /\ spin = None /\ batch = 0
    /\ rdmaInfo = [s \in Servers |-> {}]
    /\ xa = None
    /\ checkList = [o \in Offsets |-> None]
    /\ slot = [i \in Slots |-> None]
    /\ index = 0 /\ count = 0 /\ raced = FALSE /\ late = 0
    /\ pc = [c \in Cpus |-> "idle"]
    /\ arg = [c \in Cpus |-> None]
    /\ todo = [c \in Cpus |-> <<>>]
    /\ err = [c \in Cpus |-> FALSE]
    /\ ptr = [c \in Cpus |-> None]
    /\ tmp = [c \in Cpus |-> 0]
    /\ got = [c \in Cpus |-> None]
    /\ stored = [o \in Offsets |-> 0]
    /\ stores = 0

\* The steps that need nothing from the servers.
LocalStep(c) ==
    \/ \E o \in Offsets : StoreBegin(c, o) \/ StoreUnmapped(c, o) \/ LoadBegin(c, o)
    \/ EnterWrite(c) \/ OpenFailed(c) \/ OpenDone(c)
    \/ \E s \in Servers : OpenSkip(c, s) \/ ReadFails(c, s)
    \/ CheckBatch(c) \/ ClearStage(c) \/ ResetCount(c) \/ Reserve(c)
    \/ PostFails(c)
    \/ StageFull(c) \/ StageStore(c) \/ StageUnlocks(c) \/ StageRetakes(c)
    \/ CountLoad(c) \/ CountStore(c)
    \/ \E ok \in Outcomes("send") : PollSend(c, ok)
    \/ StageHit(c) \/ StageMiss(c) \/ ReadHangs(c) \/ LoadDone(c)

\* What a server's memory may hold for an offset.
PastContent(o) == {None} \cup [off : {o}, ver : 1 .. stores]

\* The steps that call a server, or take what one answered.
RemoteStep(c) ==
    \/ Post(c)
    \/ \E s \in Servers :
         \/ OpenCall(c, s) \/ CommitCall(c, s)
         \/ \E ok \in Outcomes("rpc") : OpenReturn(c, s, ok) \/ CommitReturn(c, s, ok)
         \/ pc[c] = "read" /\ \E d \in PastContent(arg[c].off) : RdmaRead(c, s, d)

\* The bounded workload is over, or no CPU is left to go on with it.
DriverDone ==
    /\ \A c \in Cpus : pc[c] = "hung" \/ (pc[c] = "idle" /\ stores = MaxStores)
    /\ UNCHANGED driverVars

DriverNext == (\E c \in Cpus : LocalStep(c) \/ RemoteStep(c)) \/ DriverDone

DriverSpec == DriverInit /\ [][DriverNext]_driverVars

----------------------------------------------------------------------------
(* Properties. *)

\* Every variable holds a value of its type.
DriverTypeOK ==
    /\ spin \in Cpus \cup {None} /\ xa \in Cpus \cup {None}
    /\ batch \in Nat /\ late \in Nat
    /\ rdmaInfo \in [Servers -> SUBSET Blocks]
    /\ checkList \in [Offsets -> Slots \cup {None}]
    /\ slot \in [Slots -> Content]
    /\ index \in Slots /\ count \in Nat /\ raced \in BOOLEAN
    /\ pc \in [Cpus -> StorePcs \cup LoadPcs \cup {"idle"}]
    /\ arg \in [Cpus -> Content]
    /\ \A c \in Cpus : arg[c] = None <=> pc[c] = "idle"
    /\ todo \in [Cpus -> Seq(Servers)]
    /\ err \in [Cpus -> BOOLEAN]
    /\ ptr \in [Cpus -> Slots \cup {None}]
    /\ tmp \in [Cpus -> Nat]
    /\ got \in [Cpus -> Content]
    /\ stored \in [Offsets -> 0 .. MaxStores]
    /\ stores \in 0 .. MaxStores

\* The batch never outgrows the ring that stages it (sib.c:34-36).
BatchBound == batch <= DRIVER_BATCH

Storing(c, o) == pc[c] \in StorePcs /\ arg[c].off = o

\* The slot of offset o holds its newest copy: the one frontswap would load, or
\* the one being stored once it is staged.
SlotIntact(o) ==
    /\ stored[o] # 0 /\ ~(\E c \in Cpus : Storing(c, o))
          => slot[checkList[o]] = [off |-> o, ver |-> stored[o]]
    /\ \A c \in Cpus : Storing(c, o) /\ pc[c] \in {"count", "add", "poll"}
          => slot[checkList[o]] = arg[c]

\* Every indexed slot holds the newest copy of its offset: a copy stays in the
\* stage until the commit that makes the servers hold it (sib.c:34-36, 60-85).
StageIntact == \A o \in Offsets : checkList[o] # None => SlotIntact(o)

\* The ring is never turned over a slot that is still indexed, as long as no
\* store races with the clear and the count reset of a commit
\* (stage_buffer_store and the end of ib_rpc_commit_all).
StagedCopyIsLatest == ~raced => StageIntact

\* A store finds the stage full only if stores of an earlier batch were staged
\* late: otherwise one batch and its copies use up the ring together
\* (ctrl.batch and stage_buffer.count).
StageRefusesNone ==
    late = 0 => \A c \in Cpus : pc[c] = "stage" => ~stage_buffer_full

\* The call of maruswap_frontswap_store or maruswap_frontswap_load a CPU is in.
SwapCall(c) ==
    IF pc[c] = "idle" THEN None
    ELSE [op |-> IF pc[c] \in StorePcs THEN "store" ELSE "load",
          page |-> arg[c], got |-> got[c]]

\* The driver by itself answers for the copies it has staged.
Staged == {o \in Offsets : checkList[o] # None /\ ~raced}

SwapCalls == [c \in Cpus |-> SwapCall(c)]

StagedStore == INSTANCE SwapStore WITH
    begun <- stores, last <- stored, call <- SwapCalls, vouched <- Staged

\* The driver implements the frontswap backend: whatever the servers answer, a
\* load that finds its offset staged gets the last store's page, and every call
\* ends as the caller was told (maruswap_multicast_write, maruswap_rdma_read).
DriverImplementsStore == StagedStore!StoreSpec

----------------------------------------------------------------------------
(* The inductive invariant behind BatchBound and StagedCopyIsLatest.       *)

\* A CPU is in a critical section exactly when it holds the lock.
LocksHeld ==
    \A c \in Cpus : /\ pc[c] \in SpinPcs => spin = c
                    /\ pc[c] \in XaPcs <=> xa = c

\* Under the spinlock the batch has room for the page that joins it.
RoomInBatch ==
    /\ BatchBound
    /\ \A c \in Cpus : /\ pc[c] = "reset" => batch = 0
                       /\ pc[c] = "reserve" => batch < DRIVER_BATCH

OneCallPerOffset ==
    \A c, d \in Cpus : c # d /\ pc[c] # "idle" /\ pc[d] # "idle"
                        => arg[c].off # arg[d].off

\* How many slots ago slot i was taken: 1 for the last one.
Age(i) == IF index > i THEN index - i ELSE index - i + DRIVER_BATCH

\* The slots of the indexed copies are among the last count ones, or count + 1
\* while the xa_lock is held and the last one is still to be counted.
CountCoversStage ==
    /\ \A c \in Cpus : pc[c] = "retake" => raced
    /\ ~raced =>
         /\ \A c \in Cpus :
              /\ pc[c] = "add" => tmp[c] = count
              /\ pc[c] = "reset" => xa = None /\ \A o \in Offsets : checkList[o] = None
         /\ \A o \in Offsets : checkList[o] # None =>
              Age(checkList[o]) <= count + (IF xa = None THEN 0 ELSE 1)

\* The inductive invariant of the driver.
DriverInv ==
    /\ DriverTypeOK /\ LocksHeld /\ RoomInBatch /\ OneCallPerOffset
    /\ CountCoversStage /\ StagedCopyIsLatest
=============================================================================
