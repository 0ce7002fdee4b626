---------------------------- MODULE Connections ----------------------------
(***************************************************************************)
(* How the driver and the two servers connect: init_ib, cleanup_ib and the *)
(* rdma_cm callbacks of drive/sib.c, with the start of the servers and     *)
(* their answer to the connection request (server/main.c, lib/ib.c,        *)
(* init_handlers of lib/handler.c).  init_ib opens the main server, the    *)
(* sub server and the multicast group in turn and after each waits for a   *)
(* completion or a timeout, while the callbacks, run by the kernel one at  *)
(* a time per identifier, take the connection through its stages.          *)
(*                                                                         *)
(* Small allocations (kzalloc of a page or less, ib_alloc_pd, ib_alloc_cq) *)
(* do not fail; that of the stage, 4 MiB, may, and so may everything that  *)
(* talks to the device or the network.                                     *)
(***************************************************************************)
EXTENDS Naturals

CONSTANTS Main, Sub, Mcast      \* the controllers: rdma_ctrl 0, rdma_ctrl 1, multicast_ctrl

ASSUME ControllersAssumption == Main # Sub /\ Main # Mcast /\ Sub # Mcast

VARIABLES
    \* sib.ko
    module,     \* "loading", "loaded", "failed", "unloading", "unloaded", or "crashed" in an oops
    turn,       \* the controller init_ib or cleanup_ib is at
    step,       \* and where: "open", "wait", or "qp", "id"
    stage,      \* stage_buffer.buffer is allocated
    \* per controller
    cm,         \* its rdma_cm_id: "none", the event it is waiting for, "up", "closed", "destroyed"
    qp,         \* its queue pair pointer: "none", "live", or "stale" once destroyed
    alive,      \* alive; of the multicast controller, that ud_package has a queue pair
    cm_error,   \* cm_error is not 0
    cm_done,    \* completions not waited for
    failing,    \* its callback has called complete and has still to set cm_error
    \* per server
    srv,        \* "down", "listening", "ready", "accepted", "serving", "ended"
    \* history the properties refer to
    gaveUp,     \* controllers whose wait ended without a completion
    misused     \* controllers whose identifier was used after it was destroyed

loadVars == <<module, turn, step, stage>>
connVars == <<cm, qp, alive, cm_error, cm_done, failing>>
connectionsVars == <<loadVars, connVars, srv, gaveUp, misused>>

Servers == {Main, Sub}
Controllers == Servers \cup {Mcast}

Stages == {"none", "addr", "route", "connect", "join", "up", "closed", "destroyed"}

ConnectionsInit ==
    /\ module = "loading" /\ turn = Main /\ step = "open" /\ stage = FALSE
    /\ cm = [c \in Controllers |-> "none"]
    /\ qp = [c \in Controllers |-> "none"]
    /\ alive = [c \in Controllers |-> FALSE]
    /\ cm_error = [c \in Controllers |-> FALSE]
    /\ cm_done = [c \in Controllers |-> 0]
    /\ failing = [c \in Controllers |-> FALSE]
    /\ srv = [s \in Servers |-> "down"]
    /\ gaveUp = {}
    /\ misused = {}

-----------------------------------------------------------------------------
(* init_ib *)

\* init_rdma_ctrl, init_multicast_ctrl: the identifier is created and its
\* address is being resolved.
Open(c) ==
    /\ module = "loading" /\ turn = c /\ step = "open"
    /\ cm' = [cm EXCEPT ![c] = "addr"]
    /\ step' = "wait"
    /\ UNCHANGED <<module, turn, stage, qp, alive, cm_error, cm_done, failing, srv, gaveUp, misused>>

\* An address that cannot be parsed or resolved.  init_rdma_ctrl returns NULL
\* and init_ib prints the id it finds there; init_multicast_ctrl returns an
\* error.  What was opened before stays open.
OpenFails(c) ==
    /\ module = "loading" /\ turn = c /\ step = "open"
    /\ cm' = [cm EXCEPT ![c] = "destroyed"]
    /\ module' = IF c = Mcast THEN "failed" ELSE "crashed"
    /\ UNCHANGED <<turn, step, stage, qp, alive, cm_error, cm_done, failing, srv, gaveUp, misused>>

\* init_ib returns rdma_ctrl->cm_error, of the controller it opened last.
LoadResult == IF cm_error[Sub] THEN "failed" ELSE "loaded"

\* After the wait init_ib goes on, whatever the wait returned.  Last it allocates the
\* stage: init_stage_buffer returns 0 also when that fails.
Proceed(c) ==
    /\ step' = "open"
    /\ turn' = IF c = Main THEN Sub ELSE Mcast
    /\ IF c = Mcast
       THEN module' = LoadResult /\ stage' \in BOOLEAN
       ELSE UNCHANGED <<module, stage>>

\* mutant: a wait that returns though nothing completed
WaitCompleted_early(c) ==
    /\ module = "loading" /\ turn = c /\ step = "wait"
    /\ cm_done' = [cm_done EXCEPT ![c] = @ - 1]
    /\ Proceed(c)
    /\ UNCHANGED <<cm, qp, alive, cm_error, failing, srv, gaveUp, misused>>

WaitCompleted(c) ==
    /\ module = "loading" /\ turn = c /\ step = "wait"
    /\ cm_done[c] > 0
    /\ cm_done' = [cm_done EXCEPT ![c] = @ - 1]
    /\ Proceed(c)
    /\ UNCHANGED <<cm, qp, alive, cm_error, failing, srv, gaveUp, misused>>

\* mutant: the wait has neither a timeout nor a signal
WaitTimesOut_never(c) == FALSE /\ UNCHANGED connectionsVars

\* CONNECTION_TIMEOUT_MS is over, or a signal came.
WaitTimesOut(c) ==
    /\ module = "loading" /\ turn = c /\ step = "wait"
    /\ cm_done[c] = 0
    /\ gaveUp' = gaveUp \cup {c}
    /\ Proceed(c)
    /\ UNCHANGED <<connVars, srv, misused>>

-----------------------------------------------------------------------------
(* The callbacks of the two rdma controllers: ib_rdma_cm_handler *)

\* No callback of c is running.  A callback into the freed code of a load that
\* failed, and what follows an oops, is not modelled.
CanCall(c) == module \notin {"failed", "unloaded", "crashed"} /\ ~failing[c]

\* mutant: the error is lost
NoteError_forgotten(c) ==
    /\ cm_done' = [cm_done EXCEPT ![c] = @ + 1]
    /\ cm' = [cm EXCEPT ![c] = "closed"]
    /\ UNCHANGED cm_error

\* The end of a callback that failed.  rdma_cm destroys an identifier whose
\* callback returns an error; ib_multicast_cm_handler always returns 0.
NoteError(c) ==
    /\ cm_error' = [cm_error EXCEPT ![c] = TRUE]
    /\ cm_done' = [cm_done EXCEPT ![c] = @ + 1]
    /\ cm' = [cm EXCEPT ![c] = IF c = Mcast THEN "closed" ELSE "destroyed"]

\* rdma_addr_resolved: the queue pair is created and the route asked for.
AddrResolved(s) ==
    /\ CanCall(s) /\ cm[s] = "addr"
    /\ qp' = [qp EXCEPT ![s] = "live"]
    /\ cm' = [cm EXCEPT ![s] = "route"]
    /\ UNCHANGED <<loadVars, alive, cm_error, cm_done, failing, srv, gaveUp, misused>>

\* Without a queue pair, or with one the error path leaves.
AddrResolvedFails(s) ==
    /\ CanCall(s) /\ cm[s] = "addr"
    /\ \E q \in {"none", "live"} : qp' = [qp EXCEPT ![s] = q]
    /\ NoteError(s)
    /\ UNCHANGED <<loadVars, alive, failing, srv, gaveUp, misused>>

\* rdma_route_resolved asks the server for a connection.
RouteResolved(s) ==
    /\ CanCall(s) /\ cm[s] = "route"
    /\ cm' = [cm EXCEPT ![s] = "connect"]
    /\ UNCHANGED <<loadVars, qp, alive, cm_error, cm_done, failing, srv, gaveUp, misused>>

\* rdma_connect_locked fails: the queue pair is destroyed and rdma_ctrl->qp
\* keeps pointing at it.
RouteResolvedFails(s) ==
    /\ CanCall(s) /\ cm[s] = "route"
    /\ qp' = [qp EXCEPT ![s] = IF @ = "live" THEN "stale" ELSE @]
    /\ NoteError(s)
    /\ UNCHANGED <<loadVars, alive, failing, srv, gaveUp, misused>>

Accepted(s) == srv[s] \in {"accepted", "serving", "ended"}

\* rdma_connect_established: the receive buffers are mapped and posted, and
\* the controller is alive before the waiter is woken.
Established(s) ==
    /\ CanCall(s) /\ cm[s] = "connect" /\ Accepted(s)
    /\ cm' = [cm EXCEPT ![s] = "up"]
    /\ alive' = [alive EXCEPT ![s] = TRUE]
    /\ cm_done' = [cm_done EXCEPT ![s] = @ + 1]
    /\ UNCHANGED <<loadVars, qp, cm_error, failing, srv, gaveUp, misused>>

\* A buffer cannot be mapped or posted: the waiter is woken all the same, and
\* before the error is set.
EstablishedFails(s) ==
    /\ CanCall(s) /\ cm[s] = "connect" /\ Accepted(s)
    /\ cm' = [cm EXCEPT ![s] = "up"]
    /\ cm_done' = [cm_done EXCEPT ![s] = @ + 1]
    /\ failing' = [failing EXCEPT ![s] = TRUE]
    /\ UNCHANGED <<loadVars, qp, alive, cm_error, srv, gaveUp, misused>>

\* The rest of that callback.
CallbackEnds(c) ==
    /\ failing[c]
    /\ failing' = [failing EXCEPT ![c] = FALSE]
    /\ NoteError(c)
    /\ UNCHANGED <<loadVars, qp, alive, srv, gaveUp, misused>>

\* REJECTED, ADDR_ERROR, ROUTE_ERROR, CONNECT_ERROR, UNREACHABLE.
ErrorEvent(s) ==
    /\ CanCall(s) /\ cm[s] \in {"addr", "route", "connect"}
    /\ NoteError(s)
    /\ UNCHANGED <<loadVars, qp, alive, failing, srv, gaveUp, misused>>

\* mutant: the callback of a closed connection returns an error
Disconnected_error(s) ==
    /\ CanCall(s) /\ cm[s] = "up"
    /\ cm' = [cm EXCEPT ![s] = "destroyed"]
    /\ UNCHANGED <<loadVars, qp, alive, cm_error, cm_done, failing, srv, gaveUp, misused>>

\* DISCONNECTED is printed, nothing else: alive stays.
Disconnected(s) ==
    /\ CanCall(s) /\ cm[s] = "up"
    /\ cm' = [cm EXCEPT ![s] = "closed"]
    /\ UNCHANGED <<loadVars, qp, alive, cm_error, cm_done, failing, srv, gaveUp, misused>>

-----------------------------------------------------------------------------
(* The callbacks of the multicast controller: ib_multicast_cm_handler *)

MulticastAddrResolved ==
    /\ CanCall(Mcast) /\ cm[Mcast] = "addr"
    /\ cm' = [cm EXCEPT ![Mcast] = "join"]
    /\ UNCHANGED <<loadVars, qp, alive, cm_error, cm_done, failing, srv, gaveUp, misused>>

\* multicast_addr_resolved fails, or ADDR_ERROR, or MULTICAST_ERROR.
MulticastError ==
    /\ CanCall(Mcast) /\ cm[Mcast] \in {"addr", "join"}
    /\ NoteError(Mcast)
    /\ UNCHANGED <<loadVars, qp, alive, failing, srv, gaveUp, misused>>

\* multicast_ctrl_joined.  A queue pair that cannot be created is printed, and
\* the callback succeeds without one.
MulticastJoined ==
    /\ CanCall(Mcast) /\ cm[Mcast] = "join"
    /\ cm' = [cm EXCEPT ![Mcast] = "up"]
    /\ \E q \in {"none", "live"} :
          /\ qp' = [qp EXCEPT ![Mcast] = q]
          /\ alive' = [alive EXCEPT ![Mcast] = (q = "live")]
    /\ cm_done' = [cm_done EXCEPT ![Mcast] = @ + 1]
    /\ UNCHANGED <<loadVars, cm_error, failing, srv, gaveUp, misused>>

\* No address handle: here too complete comes before the error.
MulticastJoinedFails ==
    /\ CanCall(Mcast) /\ cm[Mcast] = "join"
    /\ cm' = [cm EXCEPT ![Mcast] = "up"]
    /\ cm_done' = [cm_done EXCEPT ![Mcast] = @ + 1]
    /\ failing' = [failing EXCEPT ![Mcast] = TRUE]
    /\ UNCHANGED <<loadVars, qp, alive, cm_error, srv, gaveUp, misused>>

-----------------------------------------------------------------------------
(* cleanup_ib *)

\* rdma_ctrl_list is a stack, so the sub server is first.
Unload ==
    /\ module = "loaded"
    /\ module' = "unloading" /\ turn' = Sub /\ step' = "qp"
    /\ UNCHANGED <<stage, connVars, srv, gaveUp, misused>>

\* Using an identifier that is gone may oops or go unnoticed.
UseId(c, after) ==
    IF cm[c] = "destroyed"
    THEN misused' = misused \cup {c} /\ module' \in {after, "crashed"}
    ELSE UNCHANGED misused /\ module' = after

\* if(rdma_ctrl->qp) rdma_destroy_qp(rdma_ctrl->rdma).  Before that the first
\* controller of the list frees the stage all of them point to.
DestroyQp(c) ==
    /\ module = "unloading" /\ turn = c /\ step = "qp"
    /\ IF qp[c] = "none"
       THEN UNCHANGED <<module, qp, misused>>
       ELSE UseId(c, "unloading") /\ qp' = [qp EXCEPT ![c] = "stale"]
    /\ stage' = (stage /\ c # Sub)
    /\ step' = "id"
    /\ UNCHANGED <<turn, cm, alive, cm_error, cm_done, failing, srv, gaveUp>>

AfterDestroy(c) == IF c = Mcast THEN "unloaded" ELSE "unloading"

\* mutant: the identifier is destroyed with its queue pair or not at all
DestroyId_partial(c) ==
    /\ module = "unloading" /\ turn = c /\ step = "id"
    /\ ~failing[c]
    /\ UseId(c, AfterDestroy(c))
    /\ cm' = [cm EXCEPT ![c] = IF qp[c] = "none" THEN @ ELSE "destroyed"]
    /\ turn' = IF c = Sub THEN Main ELSE Mcast
    /\ step' = "qp"
    /\ UNCHANGED <<stage, qp, alive, cm_error, cm_done, failing, srv, gaveUp>>

\* rdma_destroy_id, which waits for a callback that is running.
DestroyId(c) ==
    /\ module = "unloading" /\ turn = c /\ step = "id"
    /\ ~failing[c]
    /\ UseId(c, AfterDestroy(c))
    /\ cm' = [cm EXCEPT ![c] = "destroyed"]
    /\ turn' = IF c = Sub THEN Main ELSE Mcast
    /\ step' = "qp"
    /\ UNCHANGED <<stage, qp, alive, cm_error, cm_done, failing, srv, gaveUp>>

-----------------------------------------------------------------------------
(* The servers *)

ServerStep(s, from, to) ==
    /\ srv[s] = from
    /\ srv' = [srv EXCEPT ![s] = to]
    /\ UNCHANGED <<loadVars, connVars, gaveUp, misused>>

\* init_server: ib_rdma_server_connect, then ib_connect_multicast; each may fail,
\* and main returns.
ServerConnect(s) == \E to \in {"listening", "ended"} : ServerStep(s, "down", to)
ConnectMulticast(s) == \E to \in {"ready", "ended"} : ServerStep(s, "listening", to)

\* A connection request: alloc_rdma_memory_handler accepts it before the receive
\* buffers are posted and the memory is registered.
Accept(s) == cm[s] = "connect" /\ ServerStep(s, "ready", "accepted")

\* The queue pair cannot be created: the listening identifier is rejected, and
\* stop_handlers ends the server.
AcceptFails(s) == cm[s] = "connect" /\ ServerStep(s, "ready", "ended")

\* The rest of init_handlers: blocks, RPC buffers, multicast buffers, threads;
\* or stop_handlers.
StartHandlers(s) == \E to \in {"serving", "ended"} : ServerStep(s, "accepted", to)

\* A thread sees an unsuccessful completion and takes both connections down;
\* ib_pevent ends with rcm.alive.
ConnectionDie(s) == ServerStep(s, "serving", "ended")

-----------------------------------------------------------------------------
InitIb ==
    \E c \in Controllers : Open(c) \/ OpenFails(c) \/ WaitCompleted(c) \/ WaitTimesOut(c)

RdmaEvent(s) ==
    \/ AddrResolved(s) \/ AddrResolvedFails(s)
    \/ RouteResolved(s) \/ RouteResolvedFails(s)
    \/ Established(s) \/ EstablishedFails(s)
    \/ ErrorEvent(s) \/ Disconnected(s)

MulticastEvent ==
    \/ MulticastAddrResolved \/ MulticastError
    \/ MulticastJoined \/ MulticastJoinedFails

CleanupIb == \E c \in Controllers : DestroyQp(c) \/ DestroyId(c)

ServerProcess(s) ==
    \/ ServerConnect(s) \/ ConnectMulticast(s)
    \/ Accept(s) \/ AcceptFails(s) \/ StartHandlers(s) \/ ConnectionDie(s)

ConnectionsNext ==
    \/ InitIb
    \/ \E s \in Servers : RdmaEvent(s) \/ ServerProcess(s)
    \/ MulticastEvent
    \/ \E c \in Controllers : CallbackEnds(c)
    \/ Unload \/ CleanupIb

ConnectionsSpec == ConnectionsInit /\ [][ConnectionsNext]_connectionsVars

\* insmod and rmmod run in processes the kernel schedules, and a timer ends each
\* wait; nothing is assumed of the network or of the servers.
ConnectionsFairSpec ==
    /\ ConnectionsSpec
    /\ WF_connectionsVars(InitIb)
    /\ WF_connectionsVars(CleanupIb)
    /\ \A c \in Controllers : WF_connectionsVars(CallbackEnds(c))

-----------------------------------------------------------------------------
(* Properties *)

ConnectionsTypeOK ==
    /\ module \in {"loading", "loaded", "failed", "unloading", "unloaded", "crashed"}
    /\ turn \in Controllers
    /\ step \in {"open", "wait", "qp", "id"} /\ stage \in BOOLEAN
    /\ cm \in [Controllers -> Stages]
    /\ qp \in [Controllers -> {"none", "live", "stale"}]
    /\ alive \in [Controllers -> BOOLEAN]
    /\ cm_error \in [Controllers -> BOOLEAN]
    /\ cm_done \in [Controllers -> Nat]
    /\ failing \in [Controllers -> BOOLEAN]
    /\ srv \in [Servers -> {"down", "listening", "ready", "accepted", "serving", "ended"}]
    /\ gaveUp \subseteq Controllers
    /\ misused \subseteq Controllers

\* What the driver's other operations may rely on of a server: it answered, and
\* there are a queue pair and posted buffers.
Usable(s) == alive[s] /\ qp[s] = "live" /\ Accepted(s)

\* Once sib.ko is loaded, a server is usable unless its wait ended without a
\* completion, its callback failed, or the callback is about to say so
\* (sib.c:286, 464, 490): init_ib looks at one error of the three, maruswap_store
\* and maruswap_load at the queue pairs of both servers.  Of the stage a load
\* promises nothing (sib.c:42).
LoadedUsable ==
    module = "loaded" =>
        \A s \in Servers \ gaveUp : cm_error[s] \/ failing[s] \/ Usable(s)

\* After rmmod no callback can run, and a queue pair is left only by a callback
\* that came so late that cleanup_ib had passed it (sib.c:1265-1268).  The stage,
\* if there was one, is freed.
UnloadedQuiet ==
    module = "unloaded" => ~stage /\
        \A c \in Controllers :
            /\ cm[c] = "destroyed" /\ ~failing[c]
            /\ qp[c] = "live" => c \in gaveUp

\* cleanup_ib uses an identifier rdma_cm has destroyed only where a callback
\* failed without init_ib reporting it (sib.c:1266, 493).
MisusedOnlyAfterError == \A c \in misused : cm_error[c] /\ c # Mcast

\* insmod and rmmod end, whatever the network and the servers do (sib.c:286, 725).
LoadEnds == (module \in {"loading", "unloading"}) ~> (module \notin {"loading", "unloading"})
=============================================================================
