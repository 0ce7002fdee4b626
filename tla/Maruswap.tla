------------------------------ MODULE Maruswap ------------------------------
(***************************************************************************)
(* The whole system: the driver of SwapDriver.tla, the servers of          *)
(* FarServer.tla, and the network between them.  Pages travel by multicast *)
(* datagrams, first in first out to each server but not ordered with the   *)
(* RPCs, and may be lost; the RPCs and RDMA READs travel on a reliable     *)
(* connection per server.                                                  *)
(***************************************************************************)
EXTENDS SwapDriver, FarServer

VARIABLES
    flight,     \* per server, the pages multicast and not yet delivered
    broken,     \* per server: its RPC connection's queue pair is in the error state
    missed,     \* history: per server, a commit was given up on a connection that works
    lost,       \* history: per server, the number of pages lost
    batched,    \* history: pages counted in ctrl.batch since the last commit
    skipped     \* history: offsets whose last store found the stage full

netVars == <<flight, broken, missed, lost, batched, skipped>>
vars == <<driverVars, serverVars, netVars>>

----------------------------------------------------------------------------
(* Steps of the driver that involve the servers. *)

\* __ib_multicast_send posts the page to every member of the group.
Multicast(c) ==
    /\ Post(c)
    /\ flight' = [s \in Servers |-> IF s \in Alive THEN Append(flight[s], arg[c])
                                                   ELSE flight[s]]
    /\ UNCHANGED <<serverVars, broken, missed, lost, batched, skipped>>

\* __ib_rpc posts the request, and polls until the answer is there.
CallOpen(c, s) ==
    /\ OpenCall(c, s) /\ ~broken[s]
    /\ Call(s, [op |-> "open", block |-> BlockOf[arg[c].off], count |-> 0])
    /\ UNCHANGED netVars

OpenAnswered(c, s) ==
    /\ OpenReturn(c, s, TRUE) /\ ~broken[s] /\ TakeReply(s)
    /\ UNCHANGED netVars

CallCommit(c, s) ==
    /\ CommitCall(c, s) /\ ~broken[s]
    /\ Call(s, [op |-> "commit", block |-> None, count |-> 0])
    /\ UNCHANGED netVars

CommitAnswered(c, s) ==
    /\ CommitReturn(c, s, TRUE) /\ ~broken[s] /\ TakeReply(s)
    /\ UNCHANGED netVars

\* The request does not reach the server: it is refused, lost with the connection, or
\* flushed by a queue pair in the error state.
CallLost(c, s) ==
    /\ "rpc" \in Faults
    /\ OpenCall(c, s) \/ CommitCall(c, s)
    /\ UNCHANGED <<serverVars, netVars>>

\* A completion with an error breaks the connection, whether or not the server has
\* the request; only what was never posted leaves it as it was.
CallFails(c, s) ==
    \/ broken' = [broken EXCEPT ![s] = TRUE]
    \/ req[s] = None /\ rep[s] = None /\ UNCHANGED broken

\* ib_rpc_open_all and ib_rpc_commit_all go on with the next server.
OpenFails(c, s) ==
    /\ "rpc" \in Faults
    /\ OpenReturn(c, s, FALSE) /\ CallFails(c, s)
    /\ UNCHANGED <<serverVars, flight, missed, lost, batched, skipped>>

CommitFails(c, s) ==
    /\ "rpc" \in Faults
    /\ CommitReturn(c, s, FALSE) /\ CallFails(c, s)
    /\ missed' = [missed EXCEPT ![s] = @ \/ ~broken'[s]]
    /\ UNCHANGED <<serverVars, flight, lost, batched, skipped>>

\* The server's NIC reads its memory; no thread of the server is involved.
ReadRemote(c, s) ==
    /\ pc[c] = "read" /\ ~broken[s]
    /\ RdmaRead(c, s, mem[s][arg[c].off])
    /\ UNCHANGED <<serverVars, netVars>>

DriverAlone(c) ==
    /\ LocalStep(c)
    /\ batched' = CASE pc[c] = "reserve"                       -> batched \cup {arg[c]}
                    [] pc[c] = "commit" /\ pc'[c] = "reset"    -> {}
                    [] OTHER                                   -> batched
    /\ skipped' = IF pc[c] = "stage"
                  THEN IF pc'[c] = "poll" THEN skipped \cup {arg[c].off}
                                          ELSE skipped \ {arg[c].off}
                  ELSE skipped
    /\ UNCHANGED <<serverVars, flight, broken, missed, lost>>

----------------------------------------------------------------------------
(* The network and the servers. *)

Deliver(s) ==
    /\ flight[s] # <<>>
    /\ Receive(s, Head(flight[s]))
    /\ flight' = [flight EXCEPT ![s] = Tail(@)]
    /\ UNCHANGED <<driverVars, broken, missed, lost, batched, skipped>>

\* Datagrams are lost in the network, or for want of a posted buffer.
Lose(s) ==
    /\ flight[s] # <<>>
    /\ "loss" \in Faults \/ posted[s] = <<>>
    /\ flight' = [flight EXCEPT ![s] = Tail(@)]
    /\ lost' = [lost EXCEPT ![s] = @ + 1]
    /\ UNCHANGED <<driverVars, serverVars, broken, missed, batched, skipped>>

MulticastThreadAlone(s) == MulticastThread(s) /\ UNCHANGED <<driverVars, netVars>>

RdmaThreadAlone(s) == RdmaThread(s) /\ UNCHANGED <<driverVars, netVars>>

----------------------------------------------------------------------------
(* The specification. *)

Init ==
    /\ DriverInit /\ FarInit
    /\ flight = [s \in Servers |-> <<>>] /\ lost = [s \in Servers |-> 0]
    /\ broken = [s \in Servers |-> FALSE] /\ missed = [s \in Servers |-> FALSE]
    /\ batched = {} /\ skipped = {}

Quiet == \A s \in Servers : flight[s] = <<>> /\ cq[s] = <<>> /\ flow[s] = None

\* The bounded workload is over.
Done == DriverDone /\ Quiet /\ UNCHANGED <<serverVars, netVars>>

CpuStep(c) ==
    \/ DriverAlone(c) \/ Multicast(c)
    \/ \E s \in Servers :
         \/ CallOpen(c, s) \/ OpenAnswered(c, s) \/ OpenFails(c, s)
         \/ CallCommit(c, s) \/ CommitAnswered(c, s) \/ CommitFails(c, s)
         \/ CallLost(c, s)
         \/ ReadRemote(c, s)

Next ==
    \/ \E c \in Cpus : CpuStep(c)
    \/ \E s \in Servers :
         Deliver(s) \/ Lose(s) \/ MulticastThreadAlone(s) \/ RdmaThreadAlone(s)
    \/ Done

Spec == Init /\ [][Next]_vars

\* The kernel's spinlocks queue their waiters, so a CPU in a call gets every
\* lock it waits for; the servers' threads poll for ever; the network delivers.
\* Nothing obliges the kernel to start a store or a load.
Fairness ==
    /\ \A c \in Cpus : SF_vars(pc[c] # "idle" /\ CpuStep(c))
    /\ \A s \in Servers :
         /\ WF_vars(Deliver(s))
         /\ WF_vars(MulticastThreadAlone(s))
         /\ WF_vars(RdmaThreadAlone(s))

FairSpec == Spec /\ Fairness

----------------------------------------------------------------------------
(* Properties. *)

\* Every variable holds a value of its type.
TypeOK ==
    /\ DriverTypeOK /\ FarTypeOK
    /\ flight \in [Servers -> Seq(Page)] /\ lost \in [Servers -> Nat]
    /\ broken \in [Servers -> BOOLEAN] /\ missed \in [Servers -> BOOLEAN]
    /\ batched \subseteq Page /\ skipped \subseteq Offsets

Committed(s) == rep[s] = "committed"

NeverEarly == \A s \in Servers : ~early[s]

\* The connection of a server works, and no commit to it was given up.
InTouch(s) == ~broken[s] /\ ~missed[s]

\* When a server in touch has answered a commit, its memory holds every page of the
\* batch the driver is about to drop from the stage; lib/test.c reads them all.
CommitDurable ==
    \A s \in Alive : InTouch(s) /\ Committed(s) =>
        \A p \in batched : AtLeast(mem[s][p.off], p.ver)

\* So it is as long as every commit finds a page in commit_list
\* (__process_rdma_rpc_commit).
CommitDurableUnlessEarly == NeverEarly => CommitDurable

\* Until a commit is answered early, the driver's batch and the count of it of a server
\* in touch agree: what the driver counted is at the server, on its way, lost, or about
\* to be sent.
PagesAccounted ==
    NeverEarly => \A s \in Alive : InTouch(s) =>
        \/ \E c \in Cpus : pc[c] \in {"commit", "committing"} /\ s \notin Elems(todo[c])
        \/ Committed(s)
        \/ batch = srvBatch[s] + Len(flight[s]) + lost[s] + Len(cq[s])
                    + (IF flow[s] = None THEN 0 ELSE 1)
                    + Cardinality({c \in Cpus : pc[c] = "post"})

\* Every store returns, the one that finds the batch full too: the commit it
\* waits for, with ctrl.spinlock held, is answered.
StoresReturn == \A c \in Cpus : pc[c] = "lock" ~> pc[c] = "idle"

NeverMissed == \A s \in Alive : ~missed[s]

\* The system answers for every offset, staged or not, unless a commit was answered
\* early, or given up on a connection that works, a store raced with the last one, or
\* the stage had no room.  A connection that breaks makes no load wrong.
Kept == {o \in Offsets : NeverEarly /\ NeverMissed /\ ~raced /\ o \notin skipped}

KeptStore == INSTANCE SwapStore WITH
    begun <- stores, last <- stored, call <- SwapCalls, vouched <- Kept

\* Driver and servers together implement the frontswap backend: a load gets what
\* the last store of its offset wrote, whether it finds the page staged or reads
\* a server's memory.
SystemImplementsStore == KeptStore!StoreSpec

\* The pages on their way to a server are of blocks it has: add_memblock is
\* never called by both of its threads at once (handler.c:44, handler.c:123).
PagesHaveBlocks ==
    \A s \in Alive :
        /\ \A p \in Elems(flight[s]) : BlockOf[p.off] \in blocks[s]
        /\ \A w \in Elems(cq[s]) : BlockOf[w.off] \in blocks[s]
        /\ flow[s] # None => BlockOf[flow[s].off] \in blocks[s]
        /\ \A b \in Elems(commitList[s]) : BlockOf[imm[s][b]] \in blocks[s]
=============================================================================
