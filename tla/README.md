# Maruswap in TLA+

Maruswap swaps pages of one Linux node to the memory of two others.  A frontswap
driver on the client node multicasts every page to both far memory servers,
keeps a copy in a ring of staging slots, and after a batch of pages asks each
server to commit.  A page is loaded from the stage, or read from a server by
one-sided RDMA.

The modules here model the driver the Makefile builds (`src/drive/sib.c`,
`src/drive/ib.h`, `src/drive/maruswap.c`) and the servers (`src/lib/handler.c`,
`memblock.c`, `ib.c`, `rpc.c`), the test client that runs against the servers
(`src/client/main.c`, `src/lib/test.c`), and the two drivers beside the built one
(`src/drive/ib.c`, `cib.c`).  TLC checks them on small instances; TLAPS proves
the theorems listed below for every value of the constants.

## Inventory

| part | source | state | operations |
|---|---|---|---|
| frontswap module | `drive/maruswap.c` | none | store, load; invalidate does nothing |
| driver, data path | `drive/sib.c`, `drive/ib.h` | `ctrl.spinlock`, `ctrl.batch`, `rdma_info` per server; the stage: `check_list` (an xarray with its own lock), slots, `index`, `count` | `maruswap_multicast_write`, `maruswap_rdma_read`, `ib_rpc_open_all`, `ib_rpc_commit_all`, `stage_buffer_*` |
| driver, RPC | `drive/sib.c` `__ib_rpc` | 256 binders, the requests and replies of a connection | open, commit, qcommit (no caller) |
| driver, connections | `drive/sib.c` rdma_cm callbacks | `alive`, completions, queue pairs | `init_ib`, `cleanup_ib`, events |
| server, handlers | `lib/handler.c` | `commit_list`, `rw->convey`, `mmh->lock`, `rmh->batch` | the multicast thread (`flow`) and the rdma thread (`open`, `commit`, `qcommit`) |
| server, blocks | `lib/memblock.c` | blocks of 2^18 pages | `add_memblock`, `memblock_die` |
| server, connections | `lib/ib.c` | receive buffers, event channels | `alloc_*_handler`, `ib_putback_recv_work`, `*_die` |
| header arithmetic | `sib.c`, `ib.h`, `rpc.c`, `handler.c` | none | build and take apart 32-bit immediate values; place receive buffers |
| test client | `client/main.c`, `lib/test.c` `test_rpc_open`, `lib/rpc.c` | the offsets and numbers of a batch | open, multicast, commit, read back |
| unbuilt drivers | `drive/ib.c`, `cib.c` (`rib.c` is the same file) | `check_list`, `read_list`, `batch`, spinlock, shared queue pairs | store and load without a stage |
| vendored headers | `include/list_head.h`, `atomic.h` | list nodes | `list_add`, `list_del_init`, the safe walk |

They interact in three ways.  The CPUs of the client share the driver's state: the
open, commit and batch bookkeeping under `ctrl.spinlock`, the staging ring under the
lock of its xarray, and `stage_buffer.count` partly under neither.  The driver and a server
exchange RPCs on a reliable connection, on which the driver polls with the
spinlock held.  Pages travel by multicast datagrams, which are neither reliable
nor ordered with the RPCs.  On a server two threads share `commit_list`, the
receive buffers and the batch count.

What is hard is listed in `PROJECT.json` under "hazards", each at its line.
The core of it: a page may be dropped from the stage only when the servers hold it,
and that is decided by three counters (`ctrl.batch`, `stage_buffer.count`, `rmh->batch`)
that three parties update without a common lock.

What makes each part correct:

* driver: the batch never exceeds the ring; an indexed slot holds the newest copy of its
  offset; error paths give locks back; every store returns;
* RPC: a reply reaches the call it answers; binders are not lost; a call returns;
* server: no receive buffer is lost or posted twice; no page that arrived is dropped;
  memory never goes back to an older page; an answered commit means the
  batch is in memory;
* connections: a driver that is loaded can use its servers; rmmod leaves nothing that could call
  into the module; insmod and rmmod end;
* alternative drivers: a completion reaches the frame it points to; a store that succeeds was sent;
* together: a load returns what the last store wrote (`SwapStore`).

## Modules

* `SwapPages` - the constants and the notion of a page (offset, number of the store)
  all others share.
* `SwapDriver` - the driver.  `pc[c]` is where CPU `c` is in `maruswap_multicast_write` or
  `maruswap_rdma_read`; the other call variables are its locals.  An action is one
  critical section or one access to shared state: `EnterWrite` takes the spinlock,
  `OpenCall`/`OpenReturn` and `CommitCall`/`CommitReturn` are the two ends of an RPC,
  `ClearStage` and `ResetCount` the end of `ib_rpc_commit_all`, `Reserve` the increment
  of the batch and the release of the lock, `Post`, `StageStore`, `CountLoad`, `CountStore` and
  `PollSend` are `__ib_multicast_send`.  What a server answers is nondeterministic here.
* `FarServer` - the servers.  `FlowAdd`/`FlowConvey` are the multicast thread,
  which links the buffer into `commit_list` before it takes the lock; `CommitBegin`,
  `CommitConvey`, `CommitPutback`, `CommitReset` are the rdma thread's commit: the wait for
  the count, the loop that copies what is not copied, the loop that gives the buffers back, the reset
  of the count and the answer.  The lock is free through the last three if the wait ended by the `break`
  at `handler.c:175`, so pages arrive and are counted between them.
* `Maruswap` - driver, servers and network joined: `Multicast` posts to every alive
  server's queue `flight`, `Deliver` and `Lose` are the network, `CallCommit` and
  `CommitAnswered` pair the driver's half of an RPC with the server's.  A call may also fail: the request may
  not get there (`CallLost`), and `OpenFails` and `CommitFails` return the error, before or after the server has
  the request.  A completion with an error leaves the connection `broken`; later calls and reads on
  it fail, and the driver goes on with the servers left.
* `Connections` - how the three get there and part again: `init_ib` opens the main server, the sub
  server and the multicast group in turn (`Open`, `WaitCompleted`, `WaitTimesOut`), the
  rdma_cm callbacks move `cm[c]` from stage to stage, `DestroyQp` and `DestroyId` are
  `cleanup_ib`.  A callback is one action, except where it calls `complete` before it
  stores its error: then `failing[c]` stands for the part in between.  `srv[s]` is
  where server `s` is, from `init_server` through the handling of one connection request to its end.
  `stage` says whether the 4 MiB of the staging ring were allocated: `init_stage_buffer` returns 0 either way.
* `SwapStore` - the abstract specification: what frontswap asks of a backend.  Stores and loads
  overlap, one at a time on an offset; a store succeeds or leaves frontswap without
  the page; a load of an offset the backend vouches for returns what its last store wrote.
  `SwapDriver` (for staged offsets), `Maruswap` (staged or not) and `AltDrivers` each
  implement it, by an INSTANCE that maps their calls to its calls and says which offsets they vouch for.
* `TestClient` - the clients of a server: any program at all, or the repository's
  test.  `OpenBlock`, `SendPage`, `CommitBatch` and `CheckPage` are the calls of `test_rpc_open`,
  each split where it polls.  A page the test sends holds its own offset as a number, so a copy of any age
  reads back right: `ReadsBack` compares offsets, as the test does.
* `AltDrivers` - stores and loads of `ib.c` and `cib.c`, with the queue pairs as state: work is posted
  to `sendq`, completes into `sendcq`, and whichever CPU polls takes the completion and writes
  the flag it points to.  `ib` marks an offset on `check_list` (`MarkPage`),
  then posts the page (`PostPage`, `PostFails`); the mark stays until the next commit and a load waits for that;
  `cib` writes to both servers in turn.  The servers are `FarServer`.
* `CommitList` - `commit_list` with its pointers.  `AddStore` is one of the four stores of
  `__list_add`, `Unlink` one of the steps of `list_del_init`; the locks are where the code has them.
* `Header` - the immediate values as integer arithmetic, with their real widths, and where in its
  region each receive buffer of a server lies.
* `Rpc` - `__ib_rpc` on top of `Header`: binders, error returns, the echoing server.
* `SwapDriver_proofs`, `FarServer_proofs`, `TestClient_proofs`, `Maruswap_proofs`, `Rpc_proofs`,
  `AltDrivers_proofs`, `Connections_proofs`, `CommitList_proofs` - the theorems about the module each is named after
  (`Rpc_proofs` also those about `Header`).
* `MCSwapDriver`, `MCTestClient`, `MCMaruswap`, `MCRpc`, `MCAltDrivers` - constants for TLC.

Definitions marked `mutant` are not part of the models.  Each is a plausible bug
in the definition that follows it, and `PROJECT.json` names the property that fails when it
takes that definition's place.

Abstractions.  A page is its offset and the number of the store that wrote it. The xarray is a function from
offsets to slots.  In `FarServer`, `commit_list` is a sequence, and a whole insertion is atomic, as is the
loop that gives the buffers back (the reset of the batch after it is a step of its own); `CommitList` has the
pointers and shows when that is a fair picture.  In `SwapDriver` a send and its completion are two steps of
one CPU; that CPUs share the queue pairs is in `AltDrivers`, whose drivers poll with the same code. A load
chooses its server freely, where the code takes the parity of the CPU it happens to run on.  The swap cache is
external: it keeps a second store or load of an offset out while one is in progress, as the `VM_BUG_ON_PAGE`
lines of both entry points assume.  Reads and writes of one variable are atomic, except `count += 1`, which is
a load and a store of a plain `int`.  A RDMA READ that cannot be posted is polled for ever: `ReadHangs` leaves
its CPU in `"hung"`.  `ib_poll_cq` returning a negative number (an invalid queue) is not modelled. In
`Maruswap`, a connection breaks by a call that fails: the events of rdma_cm that follow are in `Connections`.

In `Connections` small allocations succeed (that of the stage may fail), memory that is never freed is left
out, and two facts of rdma_cm are external: the callbacks of one identifier never overlap, and an identifier
whose callback returns an error is destroyed.  The model ends where the program does: after an oops
(`"crashed"`), and after a load that failed while identifiers still point into its code.

History variables: `raced` (a store was staged in the window at the end of a commit, or let the xa_lock go
halfway), `late` (stores of the last batch not yet staged when it was cleared), `early` (a commit was answered
on an empty list), `missed` (a commit was given up on a connection that still works, so the two ends count
different batches), `lost` (pages the network dropped), `clash` (a commit put back the buffer the multicast
thread was about to convey), `batched`, `skipped`, `delivered`, `failures`, `gaveUp` (waits that timed out),
`misused` (identifiers used after they were destroyed), `dropped` (a page of the test was lost), `torn` (a
step of `list_add` fell among those of `list_del_init`), `failed` (a send completed with an error) and
`blurred` (a commit of `ib.c` began while a page let through was uncounted, or with more than a batch).  No
guard reads them, except the client of `FarServer` and `PastContent`, which use `delivered` and `stores` to
number pages, and the bound `SendMayFail`, which reads `failed`.

## Runs

| run | shows | states |
|---|---|---|
| `SwapDriver_faults` | two CPUs, three offsets, batch 2, four stores; every call may fail, `__xa_store` may drop its lock: `BatchBound`, `StagedCopyIsLatest`, `StageRefusesNone`, the inductive invariant `DriverInv`, and the refinement `DriverImplementsStore` | 934,000 |
| `TestClient_clients` | one server with three buffers and batch 2 under any client (four pages, a block that cannot be had) and under the test (six pages, three batches, pages lost): buffers conserved; until a commit puts back the buffer the multicast thread is about to convey, posted buffers clean, no page dropped, memory moves forward; unless a commit is early, the test reads back what it sent; it ends | 821,000 |
| `Maruswap_batch` | main server only, two CPUs, three stores, batch 2, pages may be lost and calls may fail: durability of commits, agreement of the counters, and the refinement `SystemImplementsStore` (the batch that misses a page stays staged) | 154,000 |
| `Maruswap_servers` | both servers, two CPUs, two stores, batch 1: counters per server, `PagesHaveBlocks`, loads from either server, every store returns | 154,000 |
| `Rpc_blocks` | calls for block starts, every step may fail: replies, binders, return | 15,000 |
| `Connections` | loading and unloading `sib.ko` against two servers, everything that talks to the device or the network may fail or never answer: what a load is worth, what rmmod leaves, that both end | 573,000 |
| `AltDrivers_stores` | two CPUs, two offsets, two stores, batch 1, with `ib.c` against one server or `cib.c` against two, one send may fail: completions, the overshoot of the batch, agreement of the counters, and the refinement `AltDriversImplementStore` | 676,000 |
| `CommitList_threads` | three buffers, five pages, two commits, a page whose block cannot be had: the list is well formed, is a sequence, and its walks end | 729,000 |

Four runs find what a comment, a test or a message of the code says violated:

* `SwapDriver_overrun` - `StageIntact`.  A store staged between `clear_stage_buffer_addr` and
  `stage_buffer_count_reset` is not counted; the ring turns over its slot while
  the slot is still indexed, and a load of that offset gets another offset's page.
* `TestClient_readback` - `ReadBackMatches`.  A commit that overtakes its pages finds
  `commit_list` empty and is answered at once; the test then reads memory its pages
  have not reached, and takes its failure branch.
* `Maruswap_clash` - `NoPageDropped`.  The driver batches twice what the server does, as with 1024 and 512, so
  a commit is let go while pages of the batch are under way.  The multicast thread has linked a buffer
  (`handler.c:264`) and waits for the lock (266); the commit's second loop (187-193) puts that buffer back,
  its page unconveyed, and the next page is received into it over the first, which is nowhere.  If the thread
  conveys first, it leaves the mark on a posted buffer instead, and the next page in that buffer is skipped
  (267).
* `Rpc_pages` - `ReplyCarriesBinder`.  An OPEN puts the whole page offset where the
  header has its binder; unless the offset is a multiple of 256, the reply may name a binder nobody
  waits for.

The first three have a counterpart among the passing runs that excludes exactly that
situation (`~raced`, `~early`, `~clash`) and then holds, so the finding is the only way
to the failure.  For the third these are `NoPageDroppedUnlessClash`, `PostedBuffersCleanUnlessClash` and
`MemoryMovesForwardUnlessClash`, each for a server until its first clash.  Nothing prevents a clash but
a client that sends nothing during a commit and counts as the server does: the repository's test is one
(`TestIsNotRaced`), the driver with the sizes it has is not.

Bounds.  `MaxStores` bounds the stores; with a batch of two, four stores fill two batches, go through a
commit, and the ring wraps; `Maruswap_batch` has three, which reach into the second batch.  Two CPUs are
enough for every pair of critical sections to interleave; a third would wait for the spinlock or repeat the
part of the second.  Two offsets give an overwrite and a neighbour, three are needed to turn the ring over an
indexed slot.  `Connections` needs no bound: every count it keeps is bounded by the stages of a connection.
Three receive buffers with a batch of two leave one buffer for a page of the next batch.  The batches of
driver and server are equal in the passing runs: `Maruswap_clash` shows what else happens.  Symmetry permutes
offsets and CPUs; no property or constant tells them apart (`MCBlockOf` gives all offsets one block); the runs
with a liveness property use none. `Readers` keeps loads out of the runs that ask nothing about them.  The
fault a run does not name does not happen in it; of the `Maruswap` runs, `Maruswap_batch` has lost pages and
failing calls and the other two have neither.  That one server fails while the other answers is therefore in
the proofs and in no run.  `Rpc_blocks` uses two binders and three calls: two failures use the binders up and
the third call shows what follows. In `Maruswap_servers` a batch of one makes the second store commit the
first.  In `AltDrivers_stores` one send fails (`SendMayFail`), which is enough for a CPU to take another's
error and for a stray completion; a batch of one and two CPUs give the overshoot, a commit by a store and one
by a load, and a completion taken by the other CPU; `ib.c` has one alive server there, because its two servers
differ only by the order of the calls, which `Maruswap_servers` has.  In `CommitList_threads` three buffers
are the fewest with an entry before, at and after the one removed, and the fifth page reuses a buffer in the
second batch.  The test opens 25 blocks and sends to 16 of them; here one block is opened and the test's pages
lie in it.

Deadlock is checked except in both `TestClient` runs (a test that has ended, or a client that has sent its
bounded number of pages, leaves nothing to do), `Maruswap_batch` (a commit that misses a page waits for ever),
the two `Rpc` runs (binders used up), `Connections` (a module may stay loaded and see no further event),
`AltDrivers_stores` (a read of a server that is not connected is polled for ever, and the stores are bounded) and
`CommitList_threads` (the bounded pages and commits are over).

Fairness (`Maruswap!Fairness`).  Strong fairness for a CPU inside a call: the kernel's
queued spinlocks serve their waiters in order, and a CPU that holds one runs with interrupts off.
Weak fairness for the two polling threads of each server and for the delivery of a
datagram: `Maruswap_servers` has no loss.  Nothing makes the kernel start a call.  In
`Rpc`, weak fairness for the server and for the steps of `__ib_rpc` in which nothing fails, and for the
error completion of a queue pair that is broken already.  In `Connections`, weak fairness for insmod,
rmmod and the rest of a callback that has started, and nothing for the network or the servers:
`LoadEnds` rests on the timer alone.  In `TestClient`, weak fairness for the test (a sequential
program), for the two polling threads and for the network to deliver or drop; `TestEnds` excepts a
lost page, after which `ib_rpc` polls for ever.  In `CommitList`, weak fairness for both threads.

## Proofs

`SwapDriver_proofs` proves `DriverSpec => []DriverInv` for any set of CPUs, servers, offsets and
blocks, any batch size, any list of alive servers and any set of faults; the
assumptions are the named ASSUMEs of `SwapPages` and `SwapDriver`.  From it follow
`DriverTypes`, `BatchIsBounded` and `StageServesLatest`.  `StageHasRoom` needs to relate the stage's count to
the batch: as long as no store was staged late, `count` plus the CPUs that are about to count a page is at most
`batch`, nobody is staging while the count is reset, and the value `count += 1` has read is still the
count (`RingCovered`).  The lemmas are about `AnyDriverStep`, a driver to which a server may answer
a read with anything at all, so that they hold of the driver beside any servers.

It also proves `DriverSpec => DriverImplementsStore`: the initial states map to initial
states of `SwapStore`, and each action of the driver is one of its steps or changes only which offsets are
vouched for.  To `DriverInv` it adds `LoadsConform` (only a load that has its page has one, and a load that
goes to a server found its offset unstaged) and `LoadsAskForLast` (a load asks for the last store of its
offset, which no store changes meanwhile, by `OneCallPerOffset`).  What carries the proof is
that a `StageHit` of a vouched offset finds the copy `StagedCopyIsLatest` speaks of.

`FarServer_proofs` proves type correctness, `BuffersConserved`, `PostedBuffersCleanUnlessClash`,
`NoPageDroppedUnlessClash` and `MemoryMovesForwardUnlessClash` for any number of servers and buffers, any
batch size and any blocks that cannot be had, under a client that numbers its pages.  The last three say of a
server what their names do: they hold until a commit puts back the buffer its multicast thread is about to
convey, and promise nothing after.  The inductive invariant has two layers, each per server. `QueueInv`: the
sequences `posted`, `cq` and `commitList` hold each buffer exactly once between them, and the buffers a thread
has in its locals are where they should be.  `OrderInv`, outside `clash`: a buffer marked as conveyed is
listed and its page, or a newer one, is in memory; the pages of one offset wait in the order they arrived,
that is `Before` one another; and a page that arrived is in memory or still in its buffer.  The order is per
offset: nothing is claimed, and nothing needed, between pages of different offsets.  `OrderedStepOf` is the
part of a step that preserves it, so the same lemmas serve the three specifications the servers appear in.

`TestClient_proofs` carries those five over to a server under any client or under the test, and proves
`TestReadsBackWhatItSent`.  For that it ties the test's place in its batch to the server's: `CallsOK` (a
request or answer on its way is the one the test polls for), `BatchesOK` (the pages not lost are on the
network, arrived, listed or in memory) and `BatchCounted` (while the test waits for a commit that was not
early, the server has counted no more than the pages of this batch, so a commit that is answered has conveyed
all of them). From the same facts follows `TestIsNotRaced`: as long as no commit was early, the test meets no
clash, and its server drops no page.

`Maruswap_proofs` proves about the whole system what its parts promise alone: `SystemTypes`,
`SystemBoundsBatch`, `SystemConservesBuffers` and `SystemRefinesStagedStore` (its steps are `AnyDriverStep`s).
The rest needs facts that neither part has.  `CallsInv` adds `CallsAnswered` (a request or an answer belongs to
the one CPU that polls for it, with the spinlock), `BlocksKnown` (an rkey the driver holds is of a block the
server has, and a CPU past its open loop has them all) and `PagesAtHome`: from these follows
`SystemKeepsPagesHome`.  `SystemInv` adds `PagesInOrder` (the datagrams of an offset are on their way in the
order of their numbers, and a CPU that has not sent its page has the newest), which is what
`OrderInv` assumes of a client; with it `SystemDropsNoPage`, `SystemPostsCleanBuffers` and
`SystemMovesForward` follow, each of a server until it clashes, as in `FarServer_proofs`.

The second part of `Maruswap_proofs` is the account of a batch.  With the code's sizes, 1024 pages in the
driver and 512 in the server, a commit can put buffers back while pages of the batch are still coming, and
`PagesAccounted` and `CommitDurableUnlessEarly` are then false, as `NoPageDropped` is (`Maruswap_clash`).  So
the theorems speak of the behaviours in which that does not happen, whatever the sizes: `WaitsForBatch` is the
action property that a server in touch stops waiting only when it has counted at least the driver's batch.
The code does not establish it, and no theorem here says it does; what it leaves of the code's behaviours are
those in which a commit finds its batch complete.  `InTouch` is a server whose connection works and which no
commit was given up on.  The inductive invariant is `BatchInv`: for every server, `Tally` - what it has
counted, plus what it is `Owed` (on its way, lost, in the completion queue, under the multicast thread, or
about to be posted) - is the driver's batch until the commit is answered (`Underway`), and is zero, with every
page in memory, after it (`Finished`).  A page that cannot be posted (the fault `"post"`) is counted by the
driver alone: then the tally only falls short, which is enough for `CommitIsDurable` and not for
`PagesAreAccounted`. `Undisturbed` says that no commit is at work on the page the multicast thread conveys,
which is why no buffer clashes in these behaviours (`CommitsKeepClear`).  A server that is out of touch stays
so, and is accounted for no more.

On the account rests the refinement: `SystemRefinesStore` has the same hypothesis.  The obligation is the load
that reads a server: it must get the page the last store of its offset wrote, not an older one and not a newer
one.  `KeptInv` says where that page is, for the `Current` page of each offset (its last store's, or that of
the store under way).  Not older: it is in the batch, or every server in service has it or a newer one
(`PagesKept`), and if the stage does not have it, though it should, it is not in the batch any more
(`StageKeepsBatch`); so a load that misses the stage finds it in memory.  Not newer: no server was sent a
newer page of the offset (`CurrentIsLatest`), and the memory of a server that no buffer clashed in holds only
pages it was sent.  `CallsAlive` says that the servers asked are the ones in service.  A step that changes
what the system answers for (`raced`, `skipped`) is never one a caller sees (`KeptMoves`); every other step
was shown to be one of the abstract store for the driver alone (`StoreStep` of `SwapDriver_proofs`), and only
the loads have to be looked at again (`KeptCpuStep`).

`Rpc_proofs` proves `RkeysNameTheirBlock` for any servers, offsets within the tables, binders and failures.
`WireInv` says why: a queue pair that works holds nothing, or the request or the reply of the call in
progress; what a failed call left behind is on a queue pair in the error state, which is never polled again.
`RepliesNameCall` says what the reply names, for every call: the low byte of the page number ored with the
binder.  Where that byte is zero - a COMMIT, or the first page of a block - this is the binder
(`RepliesCarryBinder`), whatever calls came before; where it is not, `Rpc_pages` shows what happens.  Because
a reply may name another binder, what `Rpc_blocks` checks, `BindersAccounted`, is not true of every call and
not proved.  `BindersAreBounded` is what holds of all: the binders that are not free number at least the
failed calls and the one in progress, and at most twice as many.

`Rpc_proofs` also proves, about `Header` and for every 28-bit offset: `FlowAndReadAgree` (a page is conveyed to
where it is read), `PlacesDiffer`, `TablesReach` (the 128 entries of both tables suffice exactly below
128 blocks), `OpenNamesBlock`, `ReplyFindsCaller` (for headers whose low byte is free, the
condition `Rpc_pages` violates), `QcommitCounts`; and of the receive buffers, `RpcReceivesRegistered` (exactly
the first 1088 of the 4096 RPC receives lie in the registered region) and `MulticastReceivesApart`.

`Connections_proofs` proves type correctness, `LoadedUsable`, `UnloadedQuiet` and `MisusedOnlyAfterError`
for any three controllers.  `LoadedUsable` speaks of the moment after the last wait, so its proof has to
know what each completion was worth when it came: `Settled` (a controller that completed, or was
waited for with success, has left the connecting stages) and `Decided` (a server among them is alive,
failed, or about to be).  `UnloadedQuiet` follows `cleanup_ib` from controller to controller
(`CleanedQuiet`, `QpDestroyed`), and `DestroyedFor` keeps the reason an identifier is gone.
There is a lemma per process, each by cases on its actions.

`AltDrivers_proofs` proves about `ib` and `cib` what their invariants say, for any CPUs, servers
and buffers.  Where CPUs share the queues, a completion is worth something only if the flag it points to is
that of a CPU that still polls.  `CleanInv` is the reason it is, until a completion fails: every
entry of a queue has an owner (`EntriesOwned`), a CPU is owed one completion on the queue it polls and none
elsewhere (`OwedOnce`), and who is inside a remote call holds the spinlock (`LockHeld`).  No step of the code
takes a frame away from its owner while nothing failed, so `CompletionsReachTheirOwners` and
`CallsAreOneAtATime` follow; after a failure neither holds, for `out_error` of a failed send releases the
spinlock of whoever has it.  What a step of a CPU does to the queues is one of three things
(`WireStep`): it leaves them alone, it posts work for itself, or it gives up for the error of another.
`BatchOvershootIsBounded` is inductive only with the types, by one fact per step (`BatchStep`): a CPU that
joins the uncounted ones found the batch below its limit, and one that is counted leaves them.
`SuccessfulStoreIsSent` needs that an offset on `read_list` names a load that has read (`ReadsMarked`), and
that the kernel makes one call per offset at a time (`OneEach`).

`BatchesAgree` relates the driver's batch to each server's count of it, with all that lies between them.  Its
invariant is `AgreeInv`: until a send fails, each piece of work on a queue is the step its CPU is at
(`Matched`), the request or the answer of a server is that of the CPU that polls for it (`CallsOK`), and every
page on its way has its block at the server (`OpensAll`, `AtHome`) - a page whose block cannot be had would
leave the queue without being counted.  Until a commit is blurred there is then an `Account`: what a server
has counted and what is underway to it (`Tally`) is what the driver has sent (`Sent`), counted or not, until
the server has answered the commit (`Settled`), when both are zero.  A commit that begins with more than a
batch, or while a store is between the lock and its count, is what `blurred` excludes, and `Covers` says that
such a store does not appear later either; from it follows that a server that stops waiting has nothing
underway, so that no page is counted by the commit's loop, and none left for the next batch
(`CommitConveyAccounts`, `PutbackAccounts`).  The account is not inductive without `Undisturbed`: what is
listed was conveyed, but for the page the multicast thread is at.

`AltDriversRefineStore` is the refinement of `SwapStore` by both drivers.  Its obligation is again the load
that reads a server: the page in memory there must be that of the last store, `Written`, of its offset.
`KeepInv` says where that page is; it adds to `AgreeInv` and `SentInv` three parts.  `CallInv` is about calls,
whatever fails: what a CPU knows at each place of its path (`PathsOK`), and that a read on a queue is that of
the CPU that waits for it on that queue (`ReadsOwned`).  `CibInv` holds of `cib` until a send fails: nothing
is multicast (`NoPages`), a server that is not on a store's list of writes to come has its page (`WrittenTo`),
so a page that `Rests` with the backend, its store over, is at every server of the order the writes go in
(`WritesKept`).  `IbInv` holds of `ib` while it vouches for its offsets.  On the way from the multicast queue
over the network and the completion queue to memory, the pages of an offset stay in order, and the last of
them is the page that rests there or is about to be sent (`Newest`, defined with `Latest` queue by queue; each
step that moves a page moves it from the front of a queue to the end of the next).  What is on its way is on
`check_list` (`Listing`), so is what is about to be posted (`Marked`), and a load that reads finds its offset
not on it (`Unlisted`).  So nothing of its offset is on its way, and its page is in memory (`ReadFinds`).
That a commit empties `check_list` only when nothing is underway is `Account` again.  The steps are then
matched with those of the store: `BeginsSeen` and `EndSeen` for the calls' beginnings and ends, `WorkSeen` for
the read, `CpuSeen` for all of a CPU's steps, `StoreSteps` for everything.

`CommitList_proofs` proves the three safety properties of `CommitList` for any number of buffers.  Its first part is
about links alone: what list_add and list_del do to a ring (`RingPushed`, `RingCut`), and that a ring has
one order (`RingUnique`, by the least place where two orders would differ).  `ListOK(q)` says of a
sequence `q` what the two threads have stored so far: `AddOK` which of the four links of the new buffer are in place,
`DelOK` where the walk is and which neighbours list_del_init has read and joined, and `PlacesOK` which buffers
`q` holds.  Each step keeps `ListOK` for `q`, for `q` with the new buffer in front, or for `q` without the
one taken off, unless it tears the list; no step mends a torn one (`TornStays`).

The assumptions on constants are all named: `CpusAssumption` and its neighbours in `SwapPages` and
`SwapDriver`, `AliveOnceAssumption` among them (`alive_list` has a server once: a controller has one list
head), `NoCompletionAssumption`, `NoRequestAssumption` and `NoReplyAssumption` of `FarServer` (a missing value
is no completion, request or reply), `OneBatchAssumption` of `TestClient` (the test sends at least one batch,
as `test_rpc_open` does), `RpcAssumption` of `Rpc`, and those of `AltDrivers` on its bounds
(`AliveOrdersAssumption`, `CtrlOrderAssumption`, `AliveOnceAssumption` again, `AltCpusAssumption`,
`AltBatchAssumption`: lists of servers, each in one once, the main controller in the list of all (`set_rdma`
comes before `set_main_rdma_ctrl`), finitely many CPUs, a batch of at least one page; `QpsAssumption`: the
multicast queue pair is none of the servers') and of `CommitList` (`SizesAssumption`).

Every safety invariant, action property and refinement the passing runs check is a theorem, but for
`BindersAccounted`. Three are theorems under a condition on the behaviour, `WaitsForBatch`:
`CommitDurableUnlessEarly`, `PagesAccounted` (which also asks that sends can be posted) and
`SystemImplementsStore`.  Only model-checked: liveness under fairness, which is out of the prover's reach as
ENABLED is (`TestEnds`, `StoresReturn`, `CallsReturn`, `LoadEnds`, `CommitWalksEnd`), and the four
disagreements with the docs, which are counterexamples.

## Not modelled

* A second connection request and the teardown of a server step by step: after
  `rdma_connection_die` the other thread works on freed memory, which has no defined behaviour, and no
  source line says what should hold then.
* The connection managers of `ib.c` and `cib.c`: they are that of `sib.c` up to details, which `Connections`
  has.  Both files declare byte addresses where `drive/ib.h` and `maruswap.c` now pass page numbers, and the
  Kbuild leaves them out; `AltDrivers` takes a page for an offset and does not model that mismatch.
* `get_page` (marked NOT COMPLETE), the multicast commit and check, the worker thread nobody starts, the
  other functions of `lib/test.c`, `ib_multicast_rpc` and `ib_rpc_qcommit_all`: nothing calls them.
* Crash and restart: neither end keeps anything on disk or reconnects, so a crash ends the run of the system.
* Freeing of memory, small allocations, argument parsing, timing and printing.

`PROJECT.json` gives the reasons per component.

## Plan

The models are complete in the sense above, and what the prover can reach of their properties is proved.  A
change of the code that touches a modelled part begins with the module's definitions and its run; the proof of the
lemma named after the changed action is then the one to look at.
