----------------------------- MODULE CommitList -----------------------------
(***************************************************************************)
(* commit_list of a far memory server, pointer by pointer: the multicast   *)
(* thread links a buffer in with list_add before it takes mmh->lock, while *)
(* the rdma thread, with the lock, walks the list, puts each buffer back   *)
(* into the receive queue and takes it off with list_del_init              *)
(* (lib/handler.c over include/list_head.h).  FarServer.tla takes each of  *)
(* these for one step on a sequence; here they are the stores they are.    *)
(***************************************************************************)
EXTENDS Naturals, Sequences, FiniteSets

CONSTANTS
    NumBufs,        \* receive buffers
    SERVER_BATCH,   \* CONFIG_BATCH of include/rpc.h
    MaxPages,       \* bound: pages that arrive
    MaxCommits,     \* bound: commits the driver asks for
    Faults          \* "nomem": a page whose block cannot be had

ASSUME SizesAssumption ==
    /\ NumBufs \in Nat \ {0} /\ SERVER_BATCH \in Nat \ {0}
    /\ MaxPages \in Nat /\ MaxCommits \in Nat

VARIABLES
    next, prev,     \* the list_heads
    posted,         \* buffers in the receive queue
    arrived,        \* completions not polled
    convey, batch,  \* rw->convey, rmh->batch
    lock,           \* mmh->lock
    \* multicast_memory_thread
    addPc, new, first,
    \* rdma_memory_thread
    delPc, pos, safe, before, after,
    \* bounds and history
    pages, commits,
    torn            \* the stores of an add and of a delete overlapped

linkVars  == <<next, prev>>
bufVars   == <<posted, arrived, convey, batch>>
delLocals == <<before, after>>
addVars   == <<addPc, new, first>>
delVars   == <<delPc, pos, safe, delLocals>>
boundVars == <<pages, commits>>
listVars  == <<linkVars, bufVars, lock, addVars, delVars, boundVars, torn>>

Bufs == 1 .. NumBufs
Head0 == 0                      \* &mmh->commit_list
Nodes == Bufs \cup {Head0}

Adding   == {"add1", "add2", "add3", "add4"}
Deleting == {"unlink", "store", "relink", "init"}

----------------------------------------------------------------------------
(* The receive queue and the driver. *)

Arrive(b) ==
    /\ b \in posted /\ pages < MaxPages
    /\ posted' = posted \ {b}
    /\ arrived' = Append(arrived, b)
    /\ pages' = pages + 1
    /\ UNCHANGED <<linkVars, convey, batch, lock, addVars, delVars, commits, torn>>

----------------------------------------------------------------------------
(* __process_multicast_rpc_flow. *)

AddGoes(l) == addPc' = l /\ UNCHANGED <<new, first, bufVars, lock, delVars, boundVars>>

\* A step of one thread between the read of the other and its last store tears the
\* list; so does an add of a buffer that was put back and is not yet off the list.
AddTears(b) == delPc \in Deleting \ {"unlink"} \/ (delPc = "unlink" /\ b = pos)
DelTears == addPc \in Adding

\* list_add reads the first entry ...
First_last == prev[Head0]                               \* mutant
First == next[Head0]

AddBegin ==
    /\ addPc = "idle" /\ arrived # <<>>
    /\ new' = Head(arrived) /\ first' = First
    /\ arrived' = Tail(arrived)
    /\ addPc' = "add1"
    /\ torn' = (torn \/ AddTears(Head(arrived)))
    /\ UNCHANGED <<linkVars, posted, convey, batch, lock, delVars, boundVars>>

\* ... and __list_add makes four stores.
AddStore ==
    /\ \/ /\ addPc = "add1" /\ prev' = [prev EXCEPT ![first] = new]
          /\ AddGoes("add2") /\ UNCHANGED next
       \/ /\ addPc = "add2" /\ next' = [next EXCEPT ![new] = first]
          /\ AddGoes("add3") /\ UNCHANGED prev
       \/ /\ addPc = "add3" /\ prev' = [prev EXCEPT ![new] = Head0]
          /\ AddGoes("add4") /\ UNCHANGED next
       \/ /\ addPc = "add4" /\ next' = [next EXCEPT ![Head0] = new]
          /\ AddGoes("lock") /\ UNCHANGED prev
    /\ torn' = (torn \/ AddTears(new))

FlowLock ==
    /\ addPc = "lock" /\ lock = "free"
    /\ lock' = "multicast" /\ addPc' = "convey"
    /\ UNCHANGED <<linkVars, bufVars, new, first, delVars, boundVars, torn>>

Outcomes(fault) == IF fault \in Faults THEN BOOLEAN ELSE {TRUE}

\* ib_convey_page marks the buffer and counts the page.
Convey(b, ok) ==
    IF ~convey[b] /\ ok
    THEN convey' = [convey EXCEPT ![b] = TRUE] /\ batch' = batch + 1
    ELSE UNCHANGED <<convey, batch>>

FlowConvey(ok) ==
    /\ addPc = "convey"
    /\ Convey(new, ok)
    /\ lock' = "free" /\ addPc' = "idle"
    /\ UNCHANGED <<linkVars, posted, arrived, new, first, delVars, boundVars, torn>>

----------------------------------------------------------------------------
(* __process_rdma_rpc_commit. *)

CommitBegin ==
    /\ delPc = "idle" /\ commits < MaxCommits
    /\ commits' = commits + 1
    /\ delPc' = IF next[Head0] = Head0 THEN "idle" ELSE "wait"
    /\ UNCHANGED <<linkVars, bufVars, lock, addVars, pos, safe, delLocals, pages, torn>>

\* The first loop starts with the lock ...
WalkBegin ==
    /\ delPc = "wait" /\ batch >= SERVER_BATCH /\ lock = "free"
    /\ lock' = "rdma"
    /\ pos' = next[Head0] /\ safe' = next[next[Head0]]
    /\ delPc' = "walk"
    /\ UNCHANGED <<linkVars, bufVars, addVars, delLocals, boundVars, torn>>

\* ... conveys what is not, and breaks, without the lock, when it cannot.
WalkConvey(ok) ==
    /\ delPc = "walk" /\ pos # Head0
    /\ Convey(pos, ok)
    /\ IF convey[pos] \/ ok
       THEN pos' = safe /\ safe' = next[safe] /\ UNCHANGED <<lock, delPc>>
       ELSE lock' = "free" /\ delPc' = "second" /\ UNCHANGED <<pos, safe>>
    /\ UNCHANGED <<linkVars, posted, arrived, addVars, delLocals, boundVars, torn>>

WalkEnd ==
    /\ delPc = "walk" /\ pos = Head0
    /\ delPc' = "second"
    /\ UNCHANGED <<linkVars, bufVars, lock, addVars, pos, safe, delLocals, boundVars, torn>>

\* The second loop puts a buffer back into the receive queue ...
SafeNext_stale == next[Head0]                           \* mutant
SafeNext == next[next[Head0]]

LoopBegin ==
    /\ delPc = "second"
    /\ pos' = next[Head0] /\ safe' = SafeNext
    /\ delPc' = "putback"
    /\ UNCHANGED <<linkVars, bufVars, lock, addVars, delLocals, boundVars, torn>>

PutBack ==
    /\ delPc = "putback" /\ pos # Head0
    /\ convey' = [convey EXCEPT ![pos] = FALSE]
    /\ posted' = posted \cup {pos}
    /\ delPc' = "unlink"
    /\ UNCHANGED <<linkVars, arrived, batch, lock, addVars, pos, safe, delLocals, boundVars, torn>>

\* ... and then takes it off the list: list_del_init reads both links of the entry,
\* joins its neighbours and points it to itself.
Past_over == next[next[pos]]                            \* mutant
Past == next[pos]

Isolated_poison == NumBufs + 1                          \* mutant
Isolated == pos

Unlink ==
    /\ \/ /\ delPc = "unlink" /\ before' = prev[pos] /\ after' = Past
          /\ delPc' = "store" /\ UNCHANGED <<linkVars, pos, safe>>
       \/ /\ delPc = "store" /\ prev' = [prev EXCEPT ![after] = before]
          /\ delPc' = "relink" /\ UNCHANGED <<next, pos, safe, delLocals>>
       \/ /\ delPc = "relink" /\ next' = [next EXCEPT ![before] = after]
          /\ delPc' = "init" /\ UNCHANGED <<prev, pos, safe, delLocals>>
       \/ /\ delPc = "init"
          /\ next' = [next EXCEPT ![pos] = Isolated]
          /\ prev' = [prev EXCEPT ![pos] = Isolated]
          /\ pos' = safe /\ safe' = next'[safe]
          /\ delPc' = "putback" /\ UNCHANGED delLocals
    /\ torn' = (torn \/ DelTears)
    /\ UNCHANGED <<bufVars, lock, addVars, boundVars>>

CommitEnd ==
    /\ delPc = "putback" /\ pos = Head0
    /\ batch' = 0 /\ lock' = "free"
    /\ delPc' = "idle"
    /\ UNCHANGED <<linkVars, posted, arrived, convey, addVars, pos, safe, delLocals, boundVars, torn>>

----------------------------------------------------------------------------
(* The specification. *)

ListInit ==
    /\ next = [x \in Nodes |-> x] /\ prev = [x \in Nodes |-> x]
    /\ posted = Bufs /\ arrived = <<>>
    /\ convey = [b \in Bufs |-> FALSE] /\ batch = 0 /\ lock = "free"
    /\ addPc = "idle" /\ new = 1 /\ first = Head0
    /\ delPc = "idle" /\ pos = Head0 /\ safe = Head0
    /\ before = Head0 /\ after = Head0
    /\ pages = 0 /\ commits = 0 /\ torn = FALSE

MulticastThread ==
    AddBegin \/ AddStore \/ FlowLock \/ (\E ok \in Outcomes("nomem") : FlowConvey(ok))

CommitLoops ==
    \/ WalkBegin \/ (\E ok \in Outcomes("nomem") : WalkConvey(ok)) \/ WalkEnd
    \/ LoopBegin \/ PutBack \/ Unlink \/ CommitEnd

ListNext == (\E b \in Bufs : Arrive(b)) \/ MulticastThread \/ CommitBegin \/ CommitLoops

ListSpec == ListInit /\ [][ListNext]_listVars

\* Both threads go on for ever.
ListFairSpec == ListSpec /\ WF_listVars(MulticastThread) /\ WF_listVars(CommitLoops)

----------------------------------------------------------------------------
(* Properties. *)

Elems(q) == {q[i] : i \in DOMAIN q}

\* Along f from the head, the entries of q one by one and then the head again.
Distinct(q) == \A i, j \in DOMAIN q : q[i] = q[j] => i = j
Entry(q, k) == IF k \in DOMAIN q THEN q[k] ELSE Head0
Linked(f, q) == \A k \in 0 .. Len(q) : f[Entry(q, k)] = Entry(q, k + 1)
Ring(f, q) == Distinct(q) /\ Linked(f, q)

Orders == UNION {[1 .. n -> Bufs] : n \in 0 .. NumBufs}
IsRing == \E q \in Orders : Ring(next, q)
Chain == CHOOSE q \in Orders : Ring(next, q)
Cut(q, i) == [j \in 1 .. Len(q) - 1 |-> q[IF j < i THEN j ELSE j + 1]]

\* Every variable holds a value of its type.
ListTypeOK ==
    /\ next \in [Nodes -> Nodes] /\ prev \in [Nodes -> Nodes]
    /\ posted \subseteq Bufs /\ arrived \in Seq(Bufs)
    /\ convey \in [Bufs -> BOOLEAN] /\ batch \in Nat
    /\ lock \in {"free", "multicast", "rdma"}
    /\ addPc \in {"idle", "lock", "convey"} \cup Adding /\ new \in Bufs /\ first \in Nodes
    /\ delPc \in {"idle", "wait", "walk", "second", "putback"} \cup Deleting
    /\ {pos, safe, before, after} \subseteq Nodes /\ torn \in BOOLEAN

\* As long as no store of list_add fell among those of list_del_init, commit_list
\* is a ring that holds each buffer once which is neither in the receive queue nor
\* waiting to be polled, and reads the same in both directions.  (A torn list
\* loses buffers, or has one put back twice.)
ListWellFormed ==
    ~torn =>
      /\ posted \cap Elems(arrived) = {}
      /\ IsRing
      /\ Elems(Chain) =
           (Bufs \ (posted \cup Elems(arrived)
                    \cup (IF addPc \in Adding THEN {new} ELSE {})))
           \cup (IF delPc \in {"unlink", "store", "relink"} THEN {pos} ELSE {})
      /\ addPc \notin Adding /\ delPc \notin {"relink", "init"} =>
           \A x \in Elems(Chain) \cup {Head0} : prev[next[x]] = x

\* As long as the list is not torn, a step of either thread pushes one buffer in
\* front, takes one away or changes nothing: the sequence of FarServer.tla.
ListIsASequence ==
    [][~torn' =>
         \/ Chain' = Chain
         \/ \E b \in Bufs : Chain' = <<b>> \o Chain
         \/ \E i \in DOMAIN Chain : Chain' = Cut(Chain, i)]_listVars

\* The rdma thread's walks end however many buffers are linked in meanwhile, unless
\* the list was torn.
CommitWalksEnd ==
    delPc \notin {"idle", "wait"} ~> (delPc = "idle" \/ torn)
=============================================================================
