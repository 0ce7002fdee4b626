------------------------- MODULE Connections_proofs -------------------------
(***************************************************************************)
(* Type correctness and the three invariants of Connections, for any three *)
(* controllers.  None is inductive alone.  The strengthening says what a   *)
(* completion is worth: a controller that completed, or whose wait in      *)
(* init_ib ended with a completion, has left the stages of connecting      *)
(* (Settled), and a server among them is alive, failed, or about to be     *)
(* (Decided); and it follows cleanup_ib from controller to controller.     *)
(***************************************************************************)
EXTENDS Connections, TLAPS

\* init_ib has ended its wait for c.
Waited(c) ==
    \/ module \in {"loaded", "unloading", "unloaded"}
    \/ module = "loading" /\ turn = Mcast /\ c # Mcast
    \/ module = "loading" /\ turn = Sub /\ c = Main

Answered(c) == cm_done[c] > 0 \/ (Waited(c) /\ c \notin gaveUp)

\* cleanup_ib has destroyed the identifier of c.
Cleaned(c) ==
    \/ module = "unloaded"
    \/ module = "unloading" /\ turn = Mcast /\ c # Mcast
    \/ module = "unloading" /\ turn = Main /\ c = Sub

Ended == {"up", "closed", "destroyed"}

Settled(c) == Answered(c) => cm[c] \in Ended

\* init_ib has not come to c.
Unopened(c) ==
    module = "loading" /\ ~Waited(c) /\ (turn = c => step # "wait") => cm[c] = "none"

FailingIsUp(c) == failing[c] => cm[c] = "up"

DestroyedFor(c) ==
    cm[c] = "destroyed" =>
        \/ cm_error[c] /\ c # Mcast
        \/ module \in {"failed", "crashed"}
        \/ Cleaned(c)

CleanedQuiet(c) ==
    Cleaned(c) =>
        /\ cm[c] = "destroyed"
        /\ ~failing[c]
        /\ qp[c] = "live" => c \in gaveUp

\* cleanup_ib is between the queue pair and the identifier of c.
QpDestroyed(c) ==
    module = "unloading" /\ turn = c /\ step = "id" /\ qp[c] = "live" => c \in gaveUp

MisusedError(c) == c \in misused => cm_error[c] /\ c # Mcast

ControllerInv(c) ==
    /\ Settled(c)
    /\ Unopened(c)
    /\ FailingIsUp(c)
    /\ DestroyedFor(c)
    /\ CleanedQuiet(c)
    /\ QpDestroyed(c)
    /\ MisusedError(c)

Decided(s) == Answered(s) => cm_error[s] \/ failing[s] \/ alive[s]

AliveConnected(s) ==
    alive[s] =>
        /\ Accepted(s)
        /\ cm[s] \in Ended
        /\ module \in {"loading", "loaded"} => qp[s] = "live"

ConnectingHasQp(s) ==
    cm[s] \in {"route", "connect"} /\ module \in {"loading", "loaded"} => qp[s] = "live"

ServerInv(s) == Decided(s) /\ AliveConnected(s) /\ ConnectingHasQp(s)

\* cleanup_ib frees the stage at the first controller.
StageFreed ==
    \/ module = "unloaded"
    \/ module = "unloading" /\ (turn # Sub \/ step = "id")
    => ~stage

IInv ==
    /\ ConnectionsTypeOK
    /\ StageFreed
    /\ \A c \in Controllers : ControllerInv(c)
    /\ \A s \in Servers : ServerInv(s)

LEMMA InitIInv == ConnectionsInit => IInv
<1>1. SUFFICES ASSUME ConnectionsInit PROVE IInv
  OBVIOUS
<1>2. ConnectionsTypeOK
  BY <1>1 DEF ConnectionsInit, ConnectionsTypeOK, Controllers, Servers, Stages
<1>3. ASSUME NEW c \in Controllers PROVE ControllerInv(c)
  BY <1>1, <1>3, ControllersAssumption
  DEF ConnectionsInit, ControllerInv, Settled, Unopened, FailingIsUp, DestroyedFor, CleanedQuiet,
      QpDestroyed, MisusedError, Answered, Waited, Cleaned
<1>4. ASSUME NEW s \in Servers PROVE ServerInv(s)
  BY <1>1, <1>4, ControllersAssumption
  DEF ConnectionsInit, ServerInv, Decided, AliveConnected, ConnectingHasQp, Answered, Waited,
      Servers, Controllers
<1>5. StageFreed
  BY <1>1 DEF ConnectionsInit, StageFreed
<1>6. QED
  BY <1>2, <1>3, <1>4, <1>5 DEF IInv

\* init_ib: a wait that ends leaves a controller answered or given up.
LEMMA InitIbStep ==
    ASSUME IInv, NEW c \in Controllers,
           Open(c) \/ OpenFails(c) \/ WaitCompleted(c) \/ WaitTimesOut(c)
    PROVE  IInv'
<1> USE ControllersAssumption DEF IInv, ConnectionsTypeOK, Stages, Controllers, Servers, loadVars, connVars
<1> USE DEF ControllerInv, Settled, Unopened, FailingIsUp, DestroyedFor, CleanedQuiet, QpDestroyed,
            MisusedError, Answered, Waited, Cleaned, Ended, StageFreed
<1> USE DEF ServerInv, Decided, AliveConnected, ConnectingHasQp, Accepted
<1>1. CASE Open(c)
  <2>1. ConnectionsTypeOK'
    BY <1>1 DEF Open
  <2>2. ASSUME NEW d \in Controllers PROVE ControllerInv(d)'
    BY <1>1, <2>2 DEF Open
  <2>3. ASSUME NEW d \in Servers PROVE ServerInv(d)'
    BY <1>1, <2>3 DEF Open
  <2>4. StageFreed'
    BY <1>1 DEF Open
  <2>5. QED
    BY <2>1, <2>2, <2>3, <2>4 DEF IInv
<1>2. CASE OpenFails(c)
  <2>1. ConnectionsTypeOK'
    BY <1>2 DEF OpenFails
  <2>2. ASSUME NEW d \in Controllers PROVE ControllerInv(d)'
    BY <1>2, <2>2 DEF OpenFails
  <2>3. ASSUME NEW d \in Servers PROVE ServerInv(d)'
    BY <1>2, <2>3 DEF OpenFails
  <2>4. StageFreed'
    BY <1>2 DEF OpenFails
  <2>5. QED
    BY <2>1, <2>2, <2>3, <2>4 DEF IInv
<1>3. CASE WaitCompleted(c)
  <2>1. ConnectionsTypeOK'
    BY <1>3 DEF WaitCompleted, Proceed, LoadResult
  <2>2. ASSUME NEW d \in Controllers PROVE ControllerInv(d)'
    BY <1>3, <2>2 DEF WaitCompleted, Proceed, LoadResult
  <2>3. ASSUME NEW d \in Servers PROVE ServerInv(d)'
    BY <1>3, <2>3 DEF WaitCompleted, Proceed, LoadResult
  <2>4. StageFreed'
    BY <1>3 DEF WaitCompleted, Proceed, LoadResult
  <2>5. QED
    BY <2>1, <2>2, <2>3, <2>4 DEF IInv
<1>4. CASE WaitTimesOut(c)
  <2>1. ConnectionsTypeOK'
    BY <1>4 DEF WaitTimesOut, Proceed, LoadResult
  <2>2. ASSUME NEW d \in Controllers PROVE ControllerInv(d)'
    BY <1>4, <2>2 DEF WaitTimesOut, Proceed, LoadResult
  <2>3. ASSUME NEW d \in Servers PROVE ServerInv(d)'
    BY <1>4, <2>3 DEF WaitTimesOut, Proceed, LoadResult
  <2>4. StageFreed'
    BY <1>4 DEF WaitTimesOut, Proceed, LoadResult
  <2>5. QED
    BY <2>1, <2>2, <2>3, <2>4 DEF IInv
<1>5. QED
  BY <1>1, <1>2, <1>3, <1>4

\* The callbacks of a server's identifier: a completion comes with alive, cm_error or failing.
LEMMA RdmaEventStep ==
    ASSUME IInv, NEW s \in Servers,
           AddrResolved(s) \/ AddrResolvedFails(s) \/ RouteResolved(s) \/
           RouteResolvedFails(s) \/ Established(s) \/ EstablishedFails(s) \/
           ErrorEvent(s) \/ Disconnected(s)
    PROVE  IInv'
<1> USE ControllersAssumption DEF IInv, ConnectionsTypeOK, Stages, Controllers, Servers, loadVars, connVars
<1> USE DEF ControllerInv, Settled, Unopened, FailingIsUp, DestroyedFor, CleanedQuiet, QpDestroyed,
            MisusedError, Answered, Waited, Cleaned, Ended, StageFreed
<1> USE DEF ServerInv, Decided, AliveConnected, ConnectingHasQp, Accepted
<1>1. CASE AddrResolved(s)
  <2>1. ConnectionsTypeOK'
    BY <1>1 DEF AddrResolved, CanCall
  <2>2. ASSUME NEW d \in Controllers PROVE ControllerInv(d)'
    BY <1>1, <2>2 DEF AddrResolved, CanCall
  <2>3. ASSUME NEW d \in Servers PROVE ServerInv(d)'
    BY <1>1, <2>3 DEF AddrResolved, CanCall
  <2>4. StageFreed'
    BY <1>1 DEF AddrResolved, CanCall
  <2>5. QED
    BY <2>1, <2>2, <2>3, <2>4 DEF IInv
<1>2. CASE AddrResolvedFails(s)
  <2>1. ConnectionsTypeOK'
    BY <1>2 DEF AddrResolvedFails, NoteError, CanCall
  <2>2. ASSUME NEW d \in Controllers PROVE ControllerInv(d)'
    BY <1>2, <2>2 DEF AddrResolvedFails, NoteError, CanCall
  <2>3. ASSUME NEW d \in Servers PROVE ServerInv(d)'
    BY <1>2, <2>3 DEF AddrResolvedFails, NoteError, CanCall
  <2>4. StageFreed'
    BY <1>2 DEF AddrResolvedFails, NoteError, CanCall
  <2>5. QED
    BY <2>1, <2>2, <2>3, <2>4 DEF IInv
<1>3. CASE RouteResolved(s)
  <2>1. ConnectionsTypeOK'
    BY <1>3 DEF RouteResolved, CanCall
  <2>2. ASSUME NEW d \in Controllers PROVE ControllerInv(d)'
    BY <1>3, <2>2 DEF RouteResolved, CanCall
  <2>3. ASSUME NEW d \in Servers PROVE ServerInv(d)'
    BY <1>3, <2>3 DEF RouteResolved, CanCall
  <2>4. StageFreed'
    BY <1>3 DEF RouteResolved, CanCall
  <2>5. QED
    BY <2>1, <2>2, <2>3, <2>4 DEF IInv
<1>4. CASE RouteResolvedFails(s)
  <2>1. ConnectionsTypeOK'
    BY <1>4 DEF RouteResolvedFails, NoteError, CanCall
  <2>2. ASSUME NEW d \in Controllers PROVE ControllerInv(d)'
    BY <1>4, <2>2 DEF RouteResolvedFails, NoteError, CanCall
  <2>3. ASSUME NEW d \in Servers PROVE ServerInv(d)'
    BY <1>4, <2>3 DEF RouteResolvedFails, NoteError, CanCall
  <2>4. StageFreed'
    BY <1>4 DEF RouteResolvedFails, NoteError, CanCall
  <2>5. QED
    BY <2>1, <2>2, <2>3, <2>4 DEF IInv
<1>5. CASE Established(s)
  <2>1. ConnectionsTypeOK'
    BY <1>5 DEF Established, CanCall
  <2>2. ASSUME NEW d \in Controllers PROVE ControllerInv(d)'
    BY <1>5, <2>2 DEF Established, CanCall
  <2>3. ASSUME NEW d \in Servers PROVE ServerInv(d)'
    BY <1>5, <2>3 DEF Established, CanCall
  <2>4. StageFreed'
    BY <1>5 DEF Established, CanCall
  <2>5. QED
    BY <2>1, <2>2, <2>3, <2>4 DEF IInv
<1>6. CASE EstablishedFails(s)
  <2>1. ConnectionsTypeOK'
    BY <1>6 DEF EstablishedFails, CanCall
  <2>2. ASSUME NEW d \in Controllers PROVE ControllerInv(d)'
    BY <1>6, <2>2 DEF EstablishedFails, CanCall
  <2>3. ASSUME NEW d \in Servers PROVE ServerInv(d)'
    BY <1>6, <2>3 DEF EstablishedFails, CanCall
  <2>4. StageFreed'
    BY <1>6 DEF EstablishedFails, CanCall
  <2>5. QED
    BY <2>1, <2>2, <2>3, <2>4 DEF IInv
<1>7. CASE ErrorEvent(s)
  <2>1. ConnectionsTypeOK'
    BY <1>7 DEF ErrorEvent, NoteError, CanCall
  <2>2. ASSUME NEW d \in Controllers PROVE ControllerInv(d)'
    BY <1>7, <2>2 DEF ErrorEvent, NoteError, CanCall
  <2>3. ASSUME NEW d \in Servers PROVE ServerInv(d)'
    BY <1>7, <2>3 DEF ErrorEvent, NoteError, CanCall
  <2>4. StageFreed'
    BY <1>7 DEF ErrorEvent, NoteError, CanCall
  <2>5. QED
    BY <2>1, <2>2, <2>3, <2>4 DEF IInv
<1>8. CASE Disconnected(s)
  <2>1. ConnectionsTypeOK'
    BY <1>8 DEF Disconnected, CanCall
  <2>2. ASSUME NEW d \in Controllers PROVE ControllerInv(d)'
    BY <1>8, <2>2 DEF Disconnected, CanCall
  <2>3. ASSUME NEW d \in Servers PROVE ServerInv(d)'
    BY <1>8, <2>3 DEF Disconnected, CanCall
  <2>4. StageFreed'
    BY <1>8 DEF Disconnected, CanCall
  <2>5. QED
    BY <2>1, <2>2, <2>3, <2>4 DEF IInv
<1>9. QED
  BY <1>1, <1>2, <1>3, <1>4, <1>5, <1>6, <1>7, <1>8

\* The callbacks of the multicast identifier.
LEMMA MulticastEventStep ==
    ASSUME IInv,
           MulticastAddrResolved \/ MulticastError \/ MulticastJoined \/
           MulticastJoinedFails
    PROVE  IInv'
<1> USE ControllersAssumption DEF IInv, ConnectionsTypeOK, Stages, Controllers, Servers, loadVars, connVars
<1> USE DEF ControllerInv, Settled, Unopened, FailingIsUp, DestroyedFor, CleanedQuiet, QpDestroyed,
            MisusedError, Answered, Waited, Cleaned, Ended, StageFreed
<1> USE DEF ServerInv, Decided, AliveConnected, ConnectingHasQp, Accepted
<1>1. CASE MulticastAddrResolved
  <2>1. ConnectionsTypeOK'
    BY <1>1 DEF MulticastAddrResolved, CanCall
  <2>2. ASSUME NEW d \in Controllers PROVE ControllerInv(d)'
    BY <1>1, <2>2 DEF MulticastAddrResolved, CanCall
  <2>3. ASSUME NEW d \in Servers PROVE ServerInv(d)'
    BY <1>1, <2>3 DEF MulticastAddrResolved, CanCall
  <2>4. StageFreed'
    BY <1>1 DEF MulticastAddrResolved, CanCall
  <2>5. QED
    BY <2>1, <2>2, <2>3, <2>4 DEF IInv
<1>2. CASE MulticastError
  <2>1. ConnectionsTypeOK'
    BY <1>2 DEF MulticastError, NoteError, CanCall
  <2>2. ASSUME NEW d \in Controllers PROVE ControllerInv(d)'
    BY <1>2, <2>2 DEF MulticastError, NoteError, CanCall
  <2>3. ASSUME NEW d \in Servers PROVE ServerInv(d)'
    BY <1>2, <2>3 DEF MulticastError, NoteError, CanCall
  <2>4. StageFreed'
    BY <1>2 DEF MulticastError, NoteError, CanCall
  <2>5. QED
    BY <2>1, <2>2, <2>3, <2>4 DEF IInv
<1>3. CASE MulticastJoined
  <2>1. ConnectionsTypeOK'
    BY <1>3 DEF MulticastJoined, CanCall
  <2>2. ASSUME NEW d \in Controllers PROVE ControllerInv(d)'
    BY <1>3, <2>2 DEF MulticastJoined, CanCall
  <2>3. ASSUME NEW d \in Servers PROVE ServerInv(d)'
    BY <1>3, <2>3 DEF MulticastJoined, CanCall
  <2>4. StageFreed'
    BY <1>3 DEF MulticastJoined, CanCall
  <2>5. QED
    BY <2>1, <2>2, <2>3, <2>4 DEF IInv
<1>4. CASE MulticastJoinedFails
  <2>1. ConnectionsTypeOK'
    BY <1>4 DEF MulticastJoinedFails, CanCall
  <2>2. ASSUME NEW d \in Controllers PROVE ControllerInv(d)'
    BY <1>4, <2>2 DEF MulticastJoinedFails, CanCall
  <2>3. ASSUME NEW d \in Servers PROVE ServerInv(d)'
    BY <1>4, <2>3 DEF MulticastJoinedFails, CanCall
  <2>4. StageFreed'
    BY <1>4 DEF MulticastJoinedFails, CanCall
  <2>5. QED
    BY <2>1, <2>2, <2>3, <2>4 DEF IInv
<1>5. QED
  BY <1>1, <1>2, <1>3, <1>4

\* The end of a callback that failed, and cleanup_ib.
LEMMA CallbackAndCleanupStep ==
    ASSUME IInv, NEW c \in Controllers,
           CallbackEnds(c) \/ Unload \/ DestroyQp(c) \/ DestroyId(c)
    PROVE  IInv'
<1> USE ControllersAssumption DEF IInv, ConnectionsTypeOK, Stages, Controllers, Servers, loadVars, connVars
<1> USE DEF ControllerInv, Settled, Unopened, FailingIsUp, DestroyedFor, CleanedQuiet, QpDestroyed,
            MisusedError, Answered, Waited, Cleaned, Ended, StageFreed
<1> USE DEF ServerInv, Decided, AliveConnected, ConnectingHasQp, Accepted
<1>1. CASE CallbackEnds(c)
  <2>1. ConnectionsTypeOK'
    BY <1>1 DEF CallbackEnds, NoteError
  <2>2. ASSUME NEW d \in Controllers PROVE ControllerInv(d)'
    BY <1>1, <2>2 DEF CallbackEnds, NoteError
  <2>3. ASSUME NEW d \in Servers PROVE ServerInv(d)'
    BY <1>1, <2>3 DEF CallbackEnds, NoteError
  <2>4. StageFreed'
    BY <1>1 DEF CallbackEnds, NoteError
  <2>5. QED
    BY <2>1, <2>2, <2>3, <2>4 DEF IInv
<1>2. CASE Unload
  <2>1. ConnectionsTypeOK'
    BY <1>2 DEF Unload
  <2>2. ASSUME NEW d \in Controllers PROVE ControllerInv(d)'
    BY <1>2, <2>2 DEF Unload
  <2>3. ASSUME NEW d \in Servers PROVE ServerInv(d)'
    BY <1>2, <2>3 DEF Unload
  <2>4. StageFreed'
    BY <1>2 DEF Unload
  <2>5. QED
    BY <2>1, <2>2, <2>3, <2>4 DEF IInv
<1>3. CASE DestroyQp(c)
  <2>1. ConnectionsTypeOK'
    BY <1>3 DEF DestroyQp, UseId
  <2>2. ASSUME NEW d \in Controllers PROVE ControllerInv(d)'
    BY <1>3, <2>2 DEF DestroyQp, UseId
  <2>3. ASSUME NEW d \in Servers PROVE ServerInv(d)'
    BY <1>3, <2>3 DEF DestroyQp, UseId
  <2>4. StageFreed'
    BY <1>3 DEF DestroyQp, UseId
  <2>5. QED
    BY <2>1, <2>2, <2>3, <2>4 DEF IInv
<1>4. CASE DestroyId(c)
  <2>1. ConnectionsTypeOK'
    BY <1>4 DEF DestroyId, UseId, AfterDestroy
  <2>2. ASSUME NEW d \in Controllers PROVE ControllerInv(d)'
    BY <1>4, <2>2 DEF DestroyId, UseId, AfterDestroy
  <2>3. ASSUME NEW d \in Servers PROVE ServerInv(d)'
    BY <1>4, <2>3 DEF DestroyId, UseId, AfterDestroy
  <2>4. StageFreed'
    BY <1>4 DEF DestroyId, UseId, AfterDestroy
  <2>5. QED
    BY <2>1, <2>2, <2>3, <2>4 DEF IInv
<1>5. QED
  BY <1>1, <1>2, <1>3, <1>4

\* A server that accepted stays so.
LEMMA ServerProcessStep ==
    ASSUME IInv, NEW s \in Servers,
           ServerConnect(s) \/ ConnectMulticast(s) \/ Accept(s) \/ AcceptFails(s) \/
           StartHandlers(s) \/ ConnectionDie(s)
    PROVE  IInv'
<1> USE ControllersAssumption DEF IInv, ConnectionsTypeOK, Stages, Controllers, Servers, loadVars, connVars
<1> USE DEF ControllerInv, Settled, Unopened, FailingIsUp, DestroyedFor, CleanedQuiet, QpDestroyed,
            MisusedError, Answered, Waited, Cleaned, Ended, StageFreed
<1> USE DEF ServerInv, Decided, AliveConnected, ConnectingHasQp, Accepted
<1>1. CASE ServerConnect(s)
  <2>1. ConnectionsTypeOK'
    BY <1>1 DEF ServerConnect, ServerStep
  <2>2. ASSUME NEW d \in Controllers PROVE ControllerInv(d)'
    BY <1>1, <2>2 DEF ServerConnect, ServerStep
  <2>3. ASSUME NEW d \in Servers PROVE ServerInv(d)'
    BY <1>1, <2>3 DEF ServerConnect, ServerStep
  <2>4. StageFreed'
    BY <1>1 DEF ServerConnect, ServerStep
  <2>5. QED
    BY <2>1, <2>2, <2>3, <2>4 DEF IInv
<1>2. CASE ConnectMulticast(s)
  <2>1. ConnectionsTypeOK'
    BY <1>2 DEF ConnectMulticast, ServerStep
  <2>2. ASSUME NEW d \in Controllers PROVE ControllerInv(d)'
    BY <1>2, <2>2 DEF ConnectMulticast, ServerStep
  <2>3. ASSUME NEW d \in Servers PROVE ServerInv(d)'
    BY <1>2, <2>3 DEF ConnectMulticast, ServerStep
  <2>4. StageFreed'
    BY <1>2 DEF ConnectMulticast, ServerStep
  <2>5. QED
    BY <2>1, <2>2, <2>3, <2>4 DEF IInv
<1>3. CASE Accept(s)
  <2>1. ConnectionsTypeOK'
    BY <1>3 DEF Accept, ServerStep
  <2>2. ASSUME NEW d \in Controllers PROVE ControllerInv(d)'
    BY <1>3, <2>2 DEF Accept, ServerStep
  <2>3. ASSUME NEW d \in Servers PROVE ServerInv(d)'
    BY <1>3, <2>3 DEF Accept, ServerStep
  <2>4. StageFreed'
    BY <1>3 DEF Accept, ServerStep
  <2>5. QED
    BY <2>1, <2>2, <2>3, <2>4 DEF IInv
<1>4. CASE AcceptFails(s)
  <2>1. ConnectionsTypeOK'
    BY <1>4 DEF AcceptFails, ServerStep
  <2>2. ASSUME NEW d \in Controllers PROVE ControllerInv(d)'
    BY <1>4, <2>2 DEF AcceptFails, ServerStep
  <2>3. ASSUME NEW d \in Servers PROVE ServerInv(d)'
    BY <1>4, <2>3 DEF AcceptFails, ServerStep
  <2>4. StageFreed'
    BY <1>4 DEF AcceptFails, ServerStep
  <2>5. QED
    BY <2>1, <2>2, <2>3, <2>4 DEF IInv
<1>5. CASE StartHandlers(s)
  <2>1. ConnectionsTypeOK'
    BY <1>5 DEF StartHandlers, ServerStep
  <2>2. ASSUME NEW d \in Controllers PROVE ControllerInv(d)'
    BY <1>5, <2>2 DEF StartHandlers, ServerStep
  <2>3. ASSUME NEW d \in Servers PROVE ServerInv(d)'
    BY <1>5, <2>3 DEF StartHandlers, ServerStep
  <2>4. StageFreed'
    BY <1>5 DEF StartHandlers, ServerStep
  <2>5. QED
    BY <2>1, <2>2, <2>3, <2>4 DEF IInv
<1>6. CASE ConnectionDie(s)
  <2>1. ConnectionsTypeOK'
    BY <1>6 DEF ConnectionDie, ServerStep
  <2>2. ASSUME NEW d \in Controllers PROVE ControllerInv(d)'
    BY <1>6, <2>2 DEF ConnectionDie, ServerStep
  <2>3. ASSUME NEW d \in Servers PROVE ServerInv(d)'
    BY <1>6, <2>3 DEF ConnectionDie, ServerStep
  <2>4. StageFreed'
    BY <1>6 DEF ConnectionDie, ServerStep
  <2>5. QED
    BY <2>1, <2>2, <2>3, <2>4 DEF IInv
<1>7. QED
  BY <1>1, <1>2, <1>3, <1>4, <1>5, <1>6

LEMMA NextIInv == IInv /\ [ConnectionsNext]_connectionsVars => IInv'
<1>1. SUFFICES ASSUME IInv, [ConnectionsNext]_connectionsVars PROVE IInv'
  OBVIOUS
<1>2. CASE InitIb
  BY <1>1, <1>2, InitIbStep DEF InitIb
<1>3. ASSUME NEW s \in Servers, RdmaEvent(s) PROVE IInv'
  BY <1>1, <1>3, RdmaEventStep DEF RdmaEvent
<1>4. ASSUME NEW s \in Servers, ServerProcess(s) PROVE IInv'
  BY <1>1, <1>4, ServerProcessStep DEF ServerProcess
<1>5. CASE MulticastEvent
  BY <1>1, <1>5, MulticastEventStep DEF MulticastEvent
<1>6. ASSUME NEW c \in Controllers, CallbackEnds(c) \/ Unload \/ DestroyQp(c) \/ DestroyId(c)
      PROVE  IInv'
  BY <1>1, <1>6, CallbackAndCleanupStep
<1>7. CASE UNCHANGED connectionsVars
  BY <1>1, <1>7
  DEF IInv, ConnectionsTypeOK, ControllerInv, Settled, Unopened, FailingIsUp, DestroyedFor, CleanedQuiet,
      QpDestroyed, MisusedError, ServerInv, Decided, AliveConnected, ConnectingHasQp, Answered,
      Waited, Cleaned, Accepted, StageFreed, connectionsVars, loadVars, connVars
<1>8. Mcast \in Controllers
  BY DEF Controllers
<1>9. QED
  BY <1>1, <1>2, <1>3, <1>4, <1>5, <1>6, <1>7, <1>8 DEF ConnectionsNext, CleanupIb

THEOREM ConnectionsInductive == ConnectionsSpec => []IInv
BY InitIInv, NextIInv, PTL DEF ConnectionsSpec

\* Every variable stays in its range, whatever order callbacks, waits, servers
\* and rmmod run in (sib.c:445-497, 609-667, 1178-1282).
THEOREM ConnectionsTypeCorrect == ConnectionsSpec => []ConnectionsTypeOK
<1>1. IInv => ConnectionsTypeOK
  BY DEF IInv
<1>2. QED
  BY <1>1, ConnectionsInductive, PTL

\* What a load is worth: a server whose wait was answered is usable unless an
\* error is there or on its way (sib.c:286, 464, 490).
THEOREM LoadedUsableHolds == ConnectionsSpec => []LoadedUsable
<1>1. IInv => LoadedUsable
  <2>1. SUFFICES ASSUME IInv, module = "loaded", NEW s \in Servers \ gaveUp
                 PROVE  cm_error[s] \/ failing[s] \/ Usable(s)
    BY DEF LoadedUsable
  <2>2. ServerInv(s)
    BY <2>1 DEF IInv
  <2>3. QED
    BY <2>1, <2>2 DEF ServerInv, Decided, AliveConnected, Answered, Waited, Usable
<1>2. QED
  BY <1>1, ConnectionsInductive, PTL

\* After rmmod no identifier is left to call back, and no queue pair but that of
\* a callback that came too late (sib.c:1265-1278).
THEOREM UnloadedQuietHolds == ConnectionsSpec => []UnloadedQuiet
<1>1. IInv => UnloadedQuiet
  BY DEF IInv, StageFreed, ControllerInv, CleanedQuiet, Cleaned, UnloadedQuiet
<1>2. QED
  BY <1>1, ConnectionsInductive, PTL

\* cleanup_ib uses a destroyed identifier only of a server whose callback failed
\* (sib.c:1266, 493).
THEOREM MisusedOnlyAfterErrorHolds == ConnectionsSpec => []MisusedOnlyAfterError
<1>1. IInv => MisusedOnlyAfterError
  BY DEF IInv, ConnectionsTypeOK, ControllerInv, MisusedError, MisusedOnlyAfterError
<1>2. QED
  BY <1>1, ConnectionsInductive, PTL
=============================================================================
