-------------------------- MODULE AltDrivers_proofs --------------------------
(***************************************************************************)
(* Proofs about drive/ib.c and drive/cib.c: that the CPUs which poll each  *)
(* other's completion queues take what is theirs until a send fails, how   *)
(* far a batch overshoots, that a store that succeeds was sent, that a     *)
(* server counts the batch the driver does, and that both drivers keep     *)
(* what the kernel stores (they implement the store of SwapStore).         *)
(***************************************************************************)
EXTENDS AltDrivers, FarServer_proofs

----------------------------------------------------------------------------
(* Types. *)

LockPcs == {"open", "opening", "check", "commit", "committing"}
Pcs == {"idle", "lock", "mark", "post", "refused", "send", "write", "writing", "hung"} \cup LockPcs
         \cup {"load", "overdue", "read", "loaded"}

Frame == [pc : Pcs, op : {"store", "load", None}, page : Content, ctrl : Servers \cup {None},
          todo : Seq(Servers), err : BOOLEAN, done : BOOLEAN, got : Content]

\* A CPU in a call has its page, a load the server it reads, and a CPU that polls for
\* a server that server.
FrameOK(f) ==
    /\ f.pc # "idle" => f.page \in Page /\ f.op \in {"store", "load"}
    /\ f.pc \in {"load", "overdue", "read", "loaded"} => f.op = "load"
    /\ f.pc # "idle" /\ f.op = "load" => f.ctrl \in Servers
    /\ f.pc \in {"opening", "committing", "writing"} => f.todo # <<>>

FramesOK == frame \in [Cpus -> Frame] /\ \A c \in Cpus : FrameOK(frame[c])

Work == [cpu : Cpus \cup {None}, op : {"page", "read", "write"}, what : Page]
          \cup [cpu : Cpus \cup {None}, op : {"call"}, what : Requests]
Ending == [cpu : Cpus \cup {None}, ok : BOOLEAN]

CtrlTypes ==
    /\ spin \in Cpus \cup {None} /\ batch \in Nat
    /\ rdmaInfo \in [Servers -> SUBSET Blocks]
    /\ checkList \subseteq Offsets /\ readList \subseteq Offsets
    /\ loaded \in {"ib", "cib"} /\ failed \in BOOLEAN /\ blurred \in BOOLEAN

WireTypes ==
    /\ sendq \in [Qps -> Seq(Work)] /\ sendcq \in [Qps -> Seq(Ending)]
    /\ caller \in [Servers -> Cpus \cup {None}]
    /\ flight \in [Servers -> Seq(Page)]

KernelTypes == stored \in [Offsets -> 0 .. MaxStores] /\ stores \in 0 .. MaxStores

AltTypes == FramesOK /\ CtrlTypes /\ WireTypes /\ KernelTypes /\ ServerInv

LEMMA TypesHold == AltTypes => AltTypeOK
<1> SUFFICES ASSUME AltTypes PROVE AltTypeOK
  OBVIOUS
<1>1. \A c \in Cpus : frame[c].page \in Content /\ frame[c].got \in Content
  BY DEF AltTypes, FramesOK, Frame
<1>2. QED
  BY <1>1 DEF AltTypes, CtrlTypes, WireTypes, KernelTypes, Ending, AltTypeOK

LEMMA IdleFrameOK == IdleFrame \in Frame /\ FrameOK(IdleFrame)
BY NoneAssumption, EmptySeq DEF IdleFrame, Frame, FrameOK, Pcs, LockPcs, Content

\* What is known of the frame of a CPU in a call.
LEMMA FrameFacts ==
    ASSUME FramesOK, NEW c \in Cpus, ~At(c, "idle")
    PROVE  /\ frame[c].page \in Page /\ frame[c].page.off \in Offsets /\ Block(c) \in Blocks
           /\ frame[c].page.ver \in 1 .. MaxStores
           /\ frame[c].todo \in Seq(Servers)
           /\ frame[c].todo # <<>> => /\ Head(frame[c].todo) \in Servers
                                      /\ Tail(frame[c].todo) \in Seq(Servers)
<1>1. frame[c].page \in Page /\ frame[c].todo \in Seq(Servers)
  BY DEF FramesOK, Frame, FrameOK, At
<1>2. QED
  BY <1>1, BlockOfAssumption, HeadAndTail DEF Page, Block

\* A CPU that polls, polls a queue pair there is.
LEMMA PolledQp ==
    ASSUME FramesOK, NEW c \in Cpus, frame[c].pc \in PollsAt
    PROVE  QpOf(c) \in Qps
<1>1. ~At(c, "idle")
  BY DEF PollsAt, At
<1>2. At(c, "read") => frame[c].ctrl \in Servers
  BY DEF FramesOK, FrameOK, At
<1>3. frame[c].pc \in {"opening", "committing", "writing"} => Head(frame[c].todo) \in Servers
  BY <1>1, FrameFacts DEF FramesOK, FrameOK
<1>4. QED
  BY <1>2, <1>3 DEF QpOf, PollsAt, At, Qps

LEMMA AliveOrderIsSeq == CtrlTypes => AliveOrder \in Seq(Servers) /\ CtrlOrder \in Seq(Servers)
BY AliveOrdersAssumption, CtrlOrderAssumption DEF CtrlTypes, AliveOrder

\* Replacing the frame of one CPU.
LEMMA OneFrame ==
    ASSUME FramesOK, NEW c \in Cpus, NEW f \in Frame, FrameOK(f), frame' = [frame EXCEPT ![c] = f]
    PROVE  FramesOK'
BY DEF FramesOK, FrameOK


\* A step within a call changes at most these four fields.
Moves(c, l, q, e, d) ==
    frame' = [frame EXCEPT ![c] = [frame[c] EXCEPT !.pc = l, !.todo = q, !.err = e, !.done = d]]

LEMMA FrameMoves ==
    ASSUME FramesOK, NEW c \in Cpus, NEW l \in Pcs, NEW q \in Seq(Servers), NEW e \in BOOLEAN,
           NEW d \in BOOLEAN, Moves(c, l, q, e, d), ~At(c, "idle"),
           l \in {"load", "overdue", "read", "loaded"} => frame[c].op = "load",
           l \in {"opening", "committing", "writing"} => q # <<>>
    PROVE  FramesOK'
<1> DEFINE f == [frame[c] EXCEPT !.pc = l, !.todo = q, !.err = e, !.done = d]
<1>1. frame[c] \in Frame /\ FrameOK(frame[c]) /\ frame[c].pc # "idle"
  BY DEF FramesOK, At
<1>2. f \in Frame
  BY <1>1 DEF Frame
<1>3. FrameOK(f)
  BY <1>1 DEF Frame, FrameOK
<1>4. frame' = [frame EXCEPT ![c] = f]
  BY DEF Moves
<1> HIDE DEF f
<1>5. QED
  BY <1>2, <1>3, <1>4, OneFrame


\* The forms the actions write such a step in.
LEMMA MoveForms ==
    ASSUME FramesOK, NEW c \in Cpus, NEW l, NEW q, NEW e, NEW d
    PROVE  /\ frame' = [frame EXCEPT ![c].pc = l]
                => Moves(c, l, frame[c].todo, frame[c].err, frame[c].done)
           /\ frame' = [frame EXCEPT ![c].todo = q]
                => Moves(c, frame[c].pc, q, frame[c].err, frame[c].done)
           /\ frame' = [frame EXCEPT ![c].pc = l, ![c].todo = q]
                => Moves(c, l, q, frame[c].err, frame[c].done)
           /\ frame' = [frame EXCEPT ![c].pc = l, ![c].done = d]
                => Moves(c, l, frame[c].todo, frame[c].err, d)
           /\ frame' = [frame EXCEPT ![c].pc = l, ![c].todo = q, ![c].err = e]
                => Moves(c, l, q, e, frame[c].done)
           /\ frame' = [frame EXCEPT ![c].todo = q, ![c].pc = l, ![c].err = e]
                => Moves(c, l, q, e, frame[c].done)
<1>1. frame \in [Cpus -> Frame] /\ frame[c] \in Frame
  BY DEF FramesOK
<1>2. frame' = [frame EXCEPT ![c].pc = l] => Moves(c, l, frame[c].todo, frame[c].err, frame[c].done)
  BY <1>1 DEF Moves, Frame
<1>3. frame' = [frame EXCEPT ![c].todo = q] => Moves(c, frame[c].pc, q, frame[c].err, frame[c].done)
  BY <1>1 DEF Moves, Frame
<1>4. frame' = [frame EXCEPT ![c].pc = l, ![c].todo = q] => Moves(c, l, q, frame[c].err, frame[c].done)
  BY <1>1 DEF Moves, Frame
<1>5. frame' = [frame EXCEPT ![c].pc = l, ![c].done = d] => Moves(c, l, frame[c].todo, frame[c].err, d)
  BY <1>1 DEF Moves, Frame
<1>6. frame' = [frame EXCEPT ![c].pc = l, ![c].todo = q, ![c].err = e]
        => Moves(c, l, q, e, frame[c].done)
  BY <1>1 DEF Moves, Frame
<1>7. frame' = [frame EXCEPT ![c].todo = q, ![c].pc = l, ![c].err = e]
        => Moves(c, l, q, e, frame[c].done)
  BY <1>1 DEF Moves, Frame
<1>8. QED
  BY <1>2, <1>3, <1>4, <1>5, <1>6, <1>7


\* Every step of a CPU, by what it is for.
KernelCalls(c) == OwnStep(c) /\ UNCHANGED serverVars
RpcLoop(c) == TakeLock(c) \/ OpenSkip(c) \/ PostCall(c) \/ CallAnswered(c) \/ CallFails(c) \/ OldAnswer(c)
Unlocks(c) == OpenEnds(c) \/ CheckBatch(c) \/ CommitEnds(c)
Sends(c) == MarkPage(c) \/ PostPage(c) \/ PostFails(c) \/ SendFails(c) \/ CountPage(c)
Writes(c) == PostWrite(c) \/ WriteDone(c) \/ WriteFails(c) \/ AllWritten(c)
Loads(c) == LoadOverdue(c) \/ PostRead(c) \/ PageRead(c) \/ ReadFails(c) \/ LoadDone(c)

LEMMA CpuCases ==
    ASSUME NEW c \in Cpus, CpuStep(c)
    PROVE  KernelCalls(c) \/ RpcLoop(c) \/ Unlocks(c) \/ Sends(c) \/ Writes(c) \/ Loads(c) \/ PollsDone(c)
BY DEF CpuStep, KernelCalls, RpcLoop, Unlocks, Sends, Writes, Loads

\* How the frame of a CPU moves in the loops under the lock.
LEMMA RpcMoves ==
    ASSUME FramesOK, NEW c \in Cpus
    PROVE  /\ TakeLock(c) =>
                \/ At(c, "lock") /\ Moves(c, "open", AliveOrder, frame[c].err, frame[c].done)
                \/ At(c, "lock") /\ Moves(c, "check", frame[c].todo, frame[c].err, frame[c].done)
                \/ At(c, "overdue") /\ Moves(c, "commit", AliveOrder, FALSE, frame[c].done)
           /\ OpenSkip(c) =>
                /\ At(c, "open") /\ frame[c].todo # <<>>
                /\ Moves(c, "open", Tail(frame[c].todo), frame[c].err, frame[c].done)
           /\ PostCall(c) =>
                /\ frame[c].todo # <<>>
                /\ \/ At(c, "open") /\ Moves(c, "opening", frame[c].todo, frame[c].err, FALSE)
                   \/ At(c, "commit") /\ Moves(c, "committing", frame[c].todo, frame[c].err, FALSE)
           /\ CallAnswered(c) \/ CallFails(c) =>
                \E ok \in BOOLEAN :
                    \/ /\ At(c, "opening")
                       /\ Moves(c, "open", Tail(frame[c].todo), ~ok \/ frame[c].err, frame[c].done)
                    \/ /\ At(c, "committing")
                       /\ Moves(c, "commit", Tail(frame[c].todo), ~ok, frame[c].done)
           /\ OldAnswer(c) => frame' = frame
<1>0. frame \in [Cpus -> Frame] /\ frame[c] \in Frame
  BY DEF FramesOK
<1>1. ASSUME TakeLock(c)
      PROVE  \/ At(c, "lock") /\ Moves(c, "open", AliveOrder, frame[c].err, frame[c].done)
             \/ At(c, "lock") /\ Moves(c, "check", frame[c].todo, frame[c].err, frame[c].done)
             \/ At(c, "overdue") /\ Moves(c, "commit", AliveOrder, FALSE, frame[c].done)
  <2>1. \/ At(c, "lock") /\ frame' = [frame EXCEPT ![c].pc = "open", ![c].todo = AliveOrder]
        \/ At(c, "lock") /\ frame' = [frame EXCEPT ![c].pc = "check"]
        \/ At(c, "overdue") /\ StartCommit(c)
    BY <1>1 DEF TakeLock
  <2>2. StartCommit(c) => Moves(c, "commit", AliveOrder, FALSE, frame[c].done)
    BY MoveForms DEF StartCommit
  <2>3. QED
    BY <2>1, <2>2, MoveForms
<1>2. ASSUME OpenSkip(c)
      PROVE  /\ At(c, "open") /\ frame[c].todo # <<>>
             /\ Moves(c, "open", Tail(frame[c].todo), frame[c].err, frame[c].done)
  <2>1. /\ frame[c].pc = "open" /\ frame[c].todo # <<>>
        /\ frame' = [frame EXCEPT ![c].todo = Tail(frame[c].todo)]
    BY <1>0, <1>2 DEF OpenSkip, At
  <2>2. Moves(c, frame[c].pc, Tail(frame[c].todo), frame[c].err, frame[c].done)
    BY <2>1, MoveForms
  <2>3. QED
    BY <2>1, <2>2 DEF At
<1>3. ASSUME PostCall(c)
      PROVE  /\ frame[c].todo # <<>>
             /\ \/ At(c, "open") /\ Moves(c, "opening", frame[c].todo, frame[c].err, FALSE)
                \/ At(c, "commit") /\ Moves(c, "committing", frame[c].todo, frame[c].err, FALSE)
  <2>1. /\ frame[c].todo # <<>>
        /\ \/ At(c, "open") /\ frame' = [frame EXCEPT ![c].pc = "opening", ![c].done = FALSE]
           \/ At(c, "commit") /\ frame' = [frame EXCEPT ![c].pc = "committing", ![c].done = FALSE]
    BY <1>3 DEF PostCall
  <2>2. QED
    BY <2>1, MoveForms
<1>4. ASSUME CallAnswered(c) \/ CallFails(c)
      PROVE  \E ok \in BOOLEAN :
                    \/ /\ At(c, "opening")
                       /\ Moves(c, "open", Tail(frame[c].todo), ~ok \/ frame[c].err, frame[c].done)
                    \/ /\ At(c, "committing")
                       /\ Moves(c, "commit", Tail(frame[c].todo), ~ok, frame[c].done)
  <2>1. PICK ok \in BOOLEAN : CallEnds(c, ok) /\ frame[c].pc \in {"opening", "committing"}
    BY <1>4 DEF CallAnswered, CallFails
  <2>2. frame' = [frame EXCEPT ![c].todo = Tail(frame[c].todo),
                     ![c].pc = IF frame[c].pc = "opening" THEN "open" ELSE "commit",
                     ![c].err = ~ok \/ (frame[c].err /\ At(c, "opening"))]
    BY <1>0, <2>1 DEF CallEnds, Frame
  <2>3. CASE frame[c].pc = "opening"
    <3>1. (~ok \/ (frame[c].err /\ At(c, "opening"))) = (~ok \/ frame[c].err)
      BY <1>0, <2>3 DEF At, Frame
    <3>2. frame' = [frame EXCEPT ![c].todo = Tail(frame[c].todo), ![c].pc = "open",
                                 ![c].err = (~ok \/ frame[c].err)]
      BY <2>2, <2>3, <3>1
    <3>3. Moves(c, "open", Tail(frame[c].todo), ~ok \/ frame[c].err, frame[c].done)
      BY <3>2, MoveForms
    <3>4. QED
      BY <2>3, <3>3 DEF At
  <2>4. CASE frame[c].pc = "committing"
    <3>1. (~ok \/ (frame[c].err /\ At(c, "opening"))) = ~ok
      BY <2>1, <2>4 DEF At
    <3>2. frame' = [frame EXCEPT ![c].todo = Tail(frame[c].todo), ![c].pc = "commit",
                                 ![c].err = ~ok]
      BY <2>2, <2>4, <3>1
    <3>3. Moves(c, "commit", Tail(frame[c].todo), ~ok, frame[c].done)
      BY <3>2, MoveForms
    <3>4. QED
      BY <2>4, <3>3 DEF At
  <2>5. QED
    BY <2>1, <2>3, <2>4
<1>5. OldAnswer(c) => frame' = frame
  BY DEF OldAnswer
<1>6. QED
  BY <1>1, <1>2, <1>3, <1>4, <1>5

\* And where the lock is let go of, in the sends, the writes and the loads.
LEMMA UnlockMoves ==
    ASSUME FramesOK, NEW c \in Cpus
    PROVE  /\ OpenEnds(c) =>
                /\ At(c, "open")
                /\ Return(c) \/ Moves(c, "check", frame[c].todo, frame[c].err, frame[c].done)
           /\ CheckBatch(c) =>
                /\ At(c, "check")
                /\ \/ loaded = "ib" /\ Moves(c, "mark", frame[c].todo, frame[c].err, frame[c].done)
                   \/ Moves(c, "write", CtrlOrder, frame[c].err, frame[c].done)
                   \/ Moves(c, "commit", AliveOrder, FALSE, frame[c].done)
           /\ CommitEnds(c) =>
                /\ At(c, "commit")
                /\ \/ Return(c)
                   \/ Moves(c, "mark", frame[c].todo, frame[c].err, frame[c].done)
                   \/ /\ frame[c].op # "store"
                      /\ Moves(c, "load", frame[c].todo, frame[c].err, frame[c].done)
<1>1. OpenEnds(c) =>
                /\ At(c, "open")
                /\ Return(c) \/ frame' = [frame EXCEPT ![c].pc = "check"]
  BY DEF OpenEnds, StoreResult, Goto
<1>2. CheckBatch(c) =>
                /\ At(c, "check")
                /\ \/ loaded = "ib" /\ frame' = [frame EXCEPT ![c].pc = "mark"]
                   \/ frame' = [frame EXCEPT ![c].pc = "write", ![c].todo = CtrlOrder]
                   \/ StartCommit(c)
  BY DEF CheckBatch
<1>3. StartCommit(c) => Moves(c, "commit", AliveOrder, FALSE, frame[c].done)
  BY MoveForms DEF StartCommit
<1>4. CommitEnds(c) =>
                /\ At(c, "commit")
                /\ \/ Return(c)
                   \/ frame' = [frame EXCEPT ![c].pc = "mark"]
                   \/ frame[c].op # "store" /\ frame' = [frame EXCEPT ![c].pc = "load"]
  BY DEF CommitEnds, StoreResult, Goto
<1>5. QED
  BY <1>1, <1>2, <1>3, <1>4, MoveForms

LEMMA SendMoves ==
    ASSUME FramesOK, NEW c \in Cpus
    PROVE  /\ MarkPage(c) =>
                /\ At(c, "mark")
                /\ Return(c) \/ Moves(c, "post", frame[c].todo, frame[c].err, frame[c].done)
           /\ PostPage(c) =>
                At(c, "post") /\ Moves(c, "send", frame[c].todo, frame[c].err, FALSE)
           /\ PostFails(c) =>
                At(c, "post") /\ Moves(c, "refused", frame[c].todo, frame[c].err, frame[c].done)
           /\ SendFails(c) => frame[c].pc \in {"send", "refused"} /\ Return(c)
           /\ CountPage(c) => At(c, "send") /\ Return(c)
           /\ PostWrite(c) =>
                /\ At(c, "write") /\ frame[c].todo # <<>>
                /\ \/ Moves(c, "writing", frame[c].todo, frame[c].err, FALSE)
                   \/ Moves(c, "hung", frame[c].todo, frame[c].err, FALSE)
           /\ WriteDone(c) \/ WriteFails(c) =>
                /\ At(c, "writing")
                /\ \E err \in BOOLEAN :
                       Moves(c, "write", Tail(frame[c].todo), err, frame[c].done)
           /\ AllWritten(c) => At(c, "write") /\ Return(c)
<1>1. /\ MarkPage(c) => At(c, "mark") /\ (Return(c) \/ frame' = [frame EXCEPT ![c].pc = "post"])
      /\ PostPage(c) => At(c, "post") /\ frame' = [frame EXCEPT ![c].pc = "send", ![c].done = FALSE]
      /\ PostFails(c) => At(c, "post") /\ frame' = [frame EXCEPT ![c].pc = "refused"]
  BY DEF MarkPage, PostPage, PostFails, StoreResult, Goto
<1>2. /\ SendFails(c) => frame[c].pc \in {"send", "refused"} /\ Return(c)
      /\ CountPage(c) => At(c, "send") /\ Return(c)
      /\ AllWritten(c) => At(c, "write") /\ Return(c)
  BY DEF SendFails, CountPage, AllWritten, StoreResult, At
<1>3. PostWrite(c) =>
                /\ At(c, "write") /\ frame[c].todo # <<>>
                /\ \/ frame' = [frame EXCEPT ![c].pc = "writing", ![c].done = FALSE]
                   \/ frame' = [frame EXCEPT ![c].pc = "hung", ![c].done = FALSE]
  BY DEF PostWrite, PostRdma
<1>4. ASSUME WriteDone(c) \/ WriteFails(c)
      PROVE  /\ At(c, "writing")
             /\ \E err \in BOOLEAN : Moves(c, "write", Tail(frame[c].todo), err, frame[c].done)
  <2>1. PICK ok \in BOOLEAN : At(c, "writing") /\ WriteEnds(c, ok)
    BY <1>4 DEF WriteDone, WriteFails
  <2>2. frame' = [frame EXCEPT ![c].pc = "write", ![c].todo = Tail(frame[c].todo), ![c].err = ~ok]
    BY <2>1, Zenon DEF WriteEnds
  <2>3. Moves(c, "write", Tail(frame[c].todo), ~ok, frame[c].done) /\ (~ok) \in BOOLEAN
    BY <2>2, MoveForms
  <2>4. QED
    BY <2>1, <2>3
<1>5. QED
  BY <1>1, <1>2, <1>3, <1>4, MoveForms

LEMMA LoadMoves ==
    ASSUME FramesOK, NEW c \in Cpus
    PROVE  /\ LoadOverdue(c) =>
                /\ loaded = "ib" /\ At(c, "load")
                /\ Moves(c, "overdue", frame[c].todo, frame[c].err, frame[c].done)
           /\ PostRead(c) =>
                /\ At(c, "load")
                /\ \/ Moves(c, "read", frame[c].todo, frame[c].err, FALSE)
                   \/ Moves(c, "hung", frame[c].todo, frame[c].err, FALSE)
           /\ PageRead(c) =>
                /\ At(c, "read")
                /\ Moves(c, "loaded", frame[c].todo, frame[c].err, frame[c].done)
           /\ ReadFails(c) => At(c, "read") /\ Return(c)
           /\ LoadDone(c) => At(c, "loaded") /\ Return(c)
<1>1. /\ LoadOverdue(c) =>
           loaded = "ib" /\ At(c, "load") /\ frame' = [frame EXCEPT ![c].pc = "overdue"]
      /\ PageRead(c) => At(c, "read") /\ frame' = [frame EXCEPT ![c].pc = "loaded"]
  BY DEF LoadOverdue, PageRead, Goto
<1>2. PostRead(c) =>
                /\ At(c, "load")
                /\ \/ frame' = [frame EXCEPT ![c].pc = "read", ![c].done = FALSE]
                   \/ frame' = [frame EXCEPT ![c].pc = "hung", ![c].done = FALSE]
  BY DEF PostRead, PostRdma
<1>3. /\ ReadFails(c) => At(c, "read") /\ Return(c)
      /\ LoadDone(c) => At(c, "loaded") /\ Return(c)
  BY DEF ReadFails, LoadDone
<1>4. QED
  BY <1>1, <1>2, <1>3, MoveForms

\* A completion that is polled sets the flag of a frame, if of any.
LEMMA PollMoves ==
    ASSUME AltTypes, NEW c \in Cpus, PollsDone(c)
    PROVE  /\ Polling(c) /\ QpOf(c) \in Qps
           /\ sendcq[QpOf(c)] \in Seq(Ending) /\ sendcq[QpOf(c)] # <<>>
           /\ Head(sendcq[QpOf(c)]) \in Ending /\ Tail(sendcq[QpOf(c)]) \in Seq(Ending)
           /\ \/ frame' = frame
              \/ \E d \in Cpus : /\ d \in FlagOf(c, Head(sendcq[QpOf(c)]))
                                 /\ frame' = [frame EXCEPT ![d].done = TRUE]
<1>1. Polling(c) /\ QpOf(c) \in Qps
  BY PolledQp DEF PollsDone, Polling, AltTypes
<1>2. sendcq[QpOf(c)] \in Seq(Ending) /\ sendcq[QpOf(c)] # <<>>
  BY <1>1 DEF PollsDone, AltTypes, WireTypes
<1>3. Head(sendcq[QpOf(c)]) \in Ending /\ Tail(sendcq[QpOf(c)]) \in Seq(Ending)
  BY <1>2, HeadAndTail
<1> DEFINE w == Head(sendcq[QpOf(c)])
<1>4. PICK d \in FlagOf(c, w) : frame' = IF d = None THEN frame ELSE [frame EXCEPT ![d].done = TRUE]
  BY DEF PollsDone
<1>5. d \in Cpus \cup {None}
  BY <1>3, <1>4 DEF FlagOf, Ending
<1>6. QED
  BY <1>1, <1>2, <1>3, <1>4, <1>5, AltCpusAssumption

\* A step of a CPU within a call or out of one, and none that starts one.
Steps(c) == RpcLoop(c) \/ Unlocks(c) \/ Sends(c) \/ Writes(c) \/ Loads(c)

\* A move within a call.
MovesOn(c) ==
    \E l \in Pcs, q \in Seq(Servers), e, d \in BOOLEAN :
        /\ Moves(c, l, q, e, d)
        /\ ~At(c, "idle")
        /\ l \in {"load", "overdue", "read", "loaded"} => frame[c].op = "load"
        /\ l \in {"opening", "committing", "writing"} => q # <<>>

LEMMA MoveIsOn ==
    ASSUME NEW c \in Cpus, NEW l \in Pcs, NEW q \in Seq(Servers), NEW e \in BOOLEAN,
           NEW d \in BOOLEAN, Moves(c, l, q, e, d), ~At(c, "idle"),
           l \in {"load", "overdue", "read", "loaded"} => frame[c].op = "load",
           l \in {"opening", "committing", "writing"} => q # <<>>
    PROVE  MovesOn(c)
BY DEF MovesOn

\* What a step of a CPU can do to its frame.
LEMMA StepMoves ==
    ASSUME FramesOK, CtrlTypes, NEW c \in Cpus, Steps(c)
    PROVE  frame' = frame \/ Return(c) \/ MovesOn(c)
<1> DEFINE q == frame[c].todo  e == frame[c].err  d == frame[c].done
<1>1. q \in Seq(Servers) /\ e \in BOOLEAN /\ d \in BOOLEAN /\ AliveOrder \in Seq(Servers)
      /\ CtrlOrder \in Seq(Servers)
  BY AliveOrderIsSeq DEF FramesOK, Frame
<1>2. ~At(c, "idle") /\ q # <<>> => Tail(q) \in Seq(Servers)
  BY FrameFacts
<1>3. /\ frame[c].pc \in {"load", "overdue", "read", "loaded"} => frame[c].op = "load"
      /\ frame[c].pc # "idle" /\ frame[c].op # "store" => frame[c].op = "load"
      /\ frame[c].pc \in {"opening", "committing", "writing"} => q # <<>>
  BY DEF FramesOK, FrameOK
<1>4. /\ "open" \in Pcs /\ "check" \in Pcs /\ "commit" \in Pcs /\ "opening" \in Pcs
      /\ "committing" \in Pcs /\ "mark" \in Pcs /\ "write" \in Pcs /\ "writing" \in Pcs
      /\ "post" \in Pcs /\ "refused" \in Pcs /\ "send" \in Pcs /\ "hung" \in Pcs /\ "load" \in Pcs /\ "overdue" \in Pcs
      /\ "read" \in Pcs /\ "loaded" \in Pcs
  BY DEF Pcs, LockPcs
<1> HIDE DEF q, e, d
<1>5. CASE RpcLoop(c)
  <2>1. ASSUME TakeLock(c) PROVE MovesOn(c)
    <3>1. ~At(c, "idle")
      BY <2>1 DEF TakeLock, At
    <3>2. \/ Moves(c, "open", AliveOrder, e, d)
          \/ Moves(c, "check", q, e, d)
          \/ Moves(c, "commit", AliveOrder, FALSE, d)
      BY <2>1, RpcMoves DEF q, e, d
    <3>3. QED
      BY <1>1, <1>4, <3>1, <3>2, MoveIsOn
  <2>2. OpenSkip(c) => MovesOn(c)
    BY <1>1, <1>2, <1>4, RpcMoves, MoveIsOn DEF At, q, e, d
  <2>3. ASSUME PostCall(c) PROVE MovesOn(c)
    <3>1. ~At(c, "idle") /\ q # <<>>
      BY <2>3 DEF PostCall, At, q
    <3>2. Moves(c, "opening", q, e, FALSE) \/ Moves(c, "committing", q, e, FALSE)
      BY <2>3, RpcMoves DEF q, e
    <3>3. QED
      BY <1>1, <1>4, <3>1, <3>2, MoveIsOn
  <2>4. ASSUME CallAnswered(c) \/ CallFails(c) PROVE MovesOn(c)
    <3>1. PICK ok \in BOOLEAN :
                    \/ /\ At(c, "opening")
                       /\ Moves(c, "open", Tail(q), ~ok \/ e, d)
                    \/ /\ At(c, "committing")
                       /\ Moves(c, "commit", Tail(q), ~ok, d)
      BY <2>4, RpcMoves DEF q, e, d
    <3>2. (~ok \/ e) \in BOOLEAN /\ (~ok) \in BOOLEAN
      OBVIOUS
    <3>3. ~At(c, "idle") /\ Tail(q) \in Seq(Servers)
      BY <1>2, <1>3, <3>1 DEF At
    <3>4. QED
      BY <1>1, <1>4, <3>1, <3>2, <3>3, MoveIsOn
  <2>5. OldAnswer(c) => frame' = frame
    BY RpcMoves
  <2>6. QED
    BY <1>5, <2>1, <2>2, <2>3, <2>4, <2>5 DEF RpcLoop
<1>6. CASE Unlocks(c)
  <2>1. OpenEnds(c) => Return(c) \/ MovesOn(c)
    BY <1>1, <1>4, UnlockMoves, MoveIsOn DEF At, q, e, d
  <2>2. ASSUME CheckBatch(c) PROVE MovesOn(c)
    <3>1. ~At(c, "idle")
      BY <2>2 DEF CheckBatch, At
    <3>2. \/ Moves(c, "mark", q, e, d)
          \/ Moves(c, "write", CtrlOrder, e, d)
          \/ Moves(c, "commit", AliveOrder, FALSE, d)
      BY <2>2, UnlockMoves DEF q, e, d
    <3>3. QED
      BY <1>1, <1>4, <3>1, <3>2, MoveIsOn
  <2>3. ASSUME CommitEnds(c) PROVE Return(c) \/ MovesOn(c)
    <3>1. ~At(c, "idle") /\ (frame[c].op # "store" => frame[c].op = "load")
      BY <1>3, <2>3 DEF CommitEnds, At
    <3>2. \/ Return(c)
          \/ Moves(c, "mark", q, e, d)
          \/ frame[c].op # "store" /\ Moves(c, "load", q, e, d)
      BY <2>3, UnlockMoves DEF q, e, d
    <3>3. QED
      BY <1>1, <1>4, <3>1, <3>2, MoveIsOn
  <2>4. QED
    BY <1>6, <2>1, <2>2, <2>3 DEF Unlocks
<1>7. CASE Sends(c)
  <2>1. SendFails(c) \/ CountPage(c) => Return(c)
    BY SendMoves
  <2>2. ASSUME MarkPage(c) \/ PostPage(c) \/ PostFails(c) PROVE Return(c) \/ MovesOn(c)
    <3>1. ~At(c, "idle")
      BY <2>2 DEF MarkPage, PostPage, PostFails, At
    <3>2. \/ Return(c)
          \/ Moves(c, "post", q, e, d) \/ Moves(c, "send", q, e, FALSE) \/ Moves(c, "refused", q, e, d)
      BY <2>2, SendMoves DEF q, e, d
    <3>3. QED
      BY <1>1, <1>4, <3>1, <3>2, MoveIsOn
  <2>3. QED
    BY <1>7, <2>1, <2>2 DEF Sends
<1>8. CASE Writes(c)
  <2>1. ASSUME PostWrite(c) PROVE MovesOn(c)
    <3>1. ~At(c, "idle") /\ q # <<>>
      BY <2>1 DEF PostWrite, At, q
    <3>2. Moves(c, "writing", q, e, FALSE) \/ Moves(c, "hung", q, e, FALSE)
      BY <2>1, SendMoves DEF q, e
    <3>3. QED
      BY <1>1, <1>4, <3>1, <3>2, MoveIsOn
  <2>2. ASSUME WriteDone(c) \/ WriteFails(c) PROVE MovesOn(c)
    <3>1. At(c, "writing") /\ \E err \in BOOLEAN : Moves(c, "write", Tail(q), err, d)
      BY <2>2, SendMoves DEF q, d
    <3>2. ~At(c, "idle") /\ Tail(q) \in Seq(Servers)
      BY <1>2, <1>3, <3>1 DEF At
    <3>3. QED
      BY <1>1, <1>4, <3>1, <3>2, MoveIsOn
  <2>3. AllWritten(c) => Return(c)
    BY SendMoves
  <2>4. QED
    BY <1>8, <2>1, <2>2, <2>3 DEF Writes
<1>9. CASE Loads(c)
  <2>1. ASSUME LoadOverdue(c) \/ PageRead(c) \/ PostRead(c) PROVE MovesOn(c)
    <3>1. ~At(c, "idle") /\ frame[c].op = "load"
      BY <1>3, <2>1 DEF LoadOverdue, PageRead, PostRead, At
    <3>2. \/ Moves(c, "overdue", q, e, d)
          \/ Moves(c, "read", q, e, FALSE)
          \/ Moves(c, "hung", q, e, FALSE)
          \/ Moves(c, "loaded", q, e, d)
      BY <2>1, LoadMoves DEF q, e, d
    <3>3. QED
      BY <1>1, <1>4, <3>1, <3>2, MoveIsOn
  <2>3. ReadFails(c) \/ LoadDone(c) => Return(c)
    BY LoadMoves
  <2>4. QED
    BY <1>9, <2>1, <2>3 DEF Loads
<1>10. QED
  BY <1>5, <1>6, <1>7, <1>8, <1>9 DEF Steps

LEMMA StepFrames ==
    ASSUME FramesOK, CtrlTypes, NEW c \in Cpus, Steps(c)
    PROVE  FramesOK'
<1>1. ASSUME frame' = frame PROVE FramesOK'
  BY <1>1 DEF FramesOK
<1>2. ASSUME Return(c) PROVE FramesOK'
  BY <1>2, IdleFrameOK, OneFrame DEF Return
<1>3. ASSUME MovesOn(c) PROVE FramesOK'
  BY <1>3, FrameMoves DEF MovesOn
<1>4. QED
  BY <1>1, <1>2, <1>3, StepMoves

\* A call begins with a frame of its own.
Begins(c) ==
    \E f \in Frame : /\ At(c, "idle") /\ FrameOK(f) /\ frame' = [frame EXCEPT ![c] = f]
                     /\ f.pc \in {"lock", "load"} /\ ~Busy(f.page.off)

LEMMA CallBegins ==
    ASSUME FramesOK, KernelTypes, NEW c \in Cpus, KernelCalls(c)
    PROVE  frame' = frame \/ Begins(c)
<1>1. IdleFrame \in Frame /\ FrameOK(IdleFrame)
  BY IdleFrameOK
<1>2. ASSUME NEW o \in Offsets, StoreBegin(c, o) PROVE Begins(c)
  <2> DEFINE p == [off |-> o, ver |-> stores + 1]
             f == [IdleFrame EXCEPT !.pc = "lock", !.op = "store", !.page = p]
  <2>1. p \in Page
    BY <1>2, MaxStoresAssumption DEF StoreBegin, KernelTypes, Page
  <2>2. f \in Frame /\ FrameOK(f) /\ f.pc = "lock" /\ f.page.off = o
    BY <1>1, <2>1 DEF Content, IdleFrame, Frame, FrameOK, Pcs, LockPcs
  <2>3. frame' = [frame EXCEPT ![c] = f] /\ At(c, "idle") /\ ~Busy(o)
    BY <1>2 DEF StoreBegin
  <2> HIDE DEF f
  <2>4. QED
    BY <2>2, <2>3 DEF Begins
<1>3. ASSUME NEW o \in Offsets, NEW s \in Servers, LoadBegin(c, o, s) PROVE Begins(c)
  <2> DEFINE p == [off |-> o, ver |-> stored[o]]
             f == [IdleFrame EXCEPT !.pc = "load", !.op = "load", !.page = p, !.ctrl = s]
  <2>1. p \in Page
    BY <1>3, MaxStoresAssumption DEF LoadBegin, KernelTypes, Page
  <2>2. f \in Frame /\ FrameOK(f) /\ f.pc = "load" /\ f.page.off = o
    BY <1>1, <2>1 DEF Content, IdleFrame, Frame, FrameOK, Pcs, LockPcs
  <2>3. frame' = [frame EXCEPT ![c] = f] /\ At(c, "idle") /\ ~Busy(o)
    BY <1>3 DEF LoadBegin
  <2> HIDE DEF f
  <2>4. QED
    BY <2>2, <2>3 DEF Begins
<1>4. ASSUME NEW o \in Offsets, StoreUnmapped(c, o) PROVE frame' = frame
  BY <1>4 DEF StoreUnmapped
<1>5. QED
  BY <1>2, <1>3, <1>4 DEF KernelCalls, OwnStep

LEMMA CpuFrames ==
    ASSUME AltTypes, NEW c \in Cpus, CpuStep(c)
    PROVE  FramesOK'
<1>1. FramesOK /\ CtrlTypes /\ KernelTypes
  BY DEF AltTypes
<1>2. ASSUME frame' = frame PROVE FramesOK'
  BY <1>1, <1>2 DEF FramesOK
<1>3. ASSUME Begins(c) PROVE FramesOK'
  BY <1>1, <1>3, OneFrame DEF Begins
<1>4. ASSUME NEW d \in Cpus, frame' = [frame EXCEPT ![d].done = TRUE] PROVE FramesOK'
  <2> DEFINE f == [frame[d] EXCEPT !.done = TRUE]
  <2>1. frame[d] \in Frame /\ FrameOK(frame[d])
    BY <1>1 DEF FramesOK
  <2>2. f \in Frame /\ FrameOK(f)
    BY <2>1 DEF Frame, FrameOK
  <2>3. frame' = [frame EXCEPT ![d] = f]
    BY <1>4
  <2> HIDE DEF f
  <2>4. QED
    BY <1>1, <2>2, <2>3, OneFrame
<1>5. QED
  BY <1>1, <1>2, <1>3, <1>4, CpuCases, StepFrames, CallBegins, PollMoves DEF Steps

----------------------------------------------------------------------------
(* Work and completions: what a step does to the queue pairs. *)

OthersKept(c) == \A x \in Cpus : x # c => frame'[x] = frame[x]

LEMMA MoveFields ==
    ASSUME FramesOK, NEW c \in Cpus, NEW l, NEW q, NEW e, NEW d, Moves(c, l, q, e, d)
    PROVE  /\ frame'[c].pc = l /\ frame'[c].todo = q /\ frame'[c].err = e /\ frame'[c].done = d
           /\ frame'[c].op = frame[c].op /\ frame'[c].page = frame[c].page
           /\ frame'[c].ctrl = frame[c].ctrl /\ frame'[c].got = frame[c].got
           /\ ~d => ~frame'[c].done
           /\ OthersKept(c)
<1>1. frame \in [Cpus -> Frame] /\ frame[c] \in Frame
  BY DEF FramesOK
<1>2. frame'[c] = [frame[c] EXCEPT !.pc = l, !.todo = q, !.err = e, !.done = d] /\ OthersKept(c)
  BY <1>1 DEF Moves, OthersKept
<1>3. QED
  BY <1>1, <1>2 DEF Frame

LEMMA ReturnFields ==
    ASSUME FramesOK, NEW c \in Cpus, Return(c)
    PROVE  /\ frame'[c] = IdleFrame /\ frame'[c].pc = "idle" /\ ~frame'[c].done
           /\ OthersKept(c)
<1>1. frame'[c] = IdleFrame /\ OthersKept(c)
  BY DEF FramesOK, Return, OthersKept
<1>2. QED
  BY <1>1 DEF IdleFrame

LEMMA BeginFields ==
    ASSUME FramesOK, NEW c \in Cpus, Begins(c)
    PROVE  At(c, "idle") /\ frame'[c].pc \in {"lock", "load"} /\ OthersKept(c)
           /\ ~Busy(frame'[c].page.off)
BY DEF FramesOK, Begins, OthersKept

\* Neither before the step nor after it does c poll, unless the step is none of its frame.
Quiet(c) == frame' = frame \/ (~Polling(c) /\ ~Polling(c)')

WiresKept(c) == UNCHANGED <<sendq, sendcq>> /\ Quiet(c)

\* The request of a CPU that calls, and what a CPU that polls has posted.
RequestOf(c) == [op |-> IF At(c, "opening") THEN "open" ELSE "commit",
                 block |-> IF At(c, "opening") THEN Block(c) ELSE None, count |-> 0]

WorkOf(c) == [cpu |-> c,
              op |-> CASE At(c, "send") -> "page" [] At(c, "read") -> "read"
                       [] At(c, "writing") -> "write" [] OTHER -> "call",
              what |-> IF frame[c].pc \in {"opening", "committing"} THEN RequestOf(c) ELSE frame[c].page]

PostsWork(c) ==
    /\ frame[c].pc \notin PollsAt /\ Polling(c)' /\ sendcq' = sendcq
    /\ \E q \in Qps, op \in {"page", "read", "write", "call"}, what \in Page \cup Requests :
          /\ q = QpOf(c)' /\ Posted(c, q, op, what)
          /\ [cpu |-> c, op |-> op, what |-> what] \in Work
          /\ [cpu |-> c, op |-> op, what |-> what] = WorkOf(c)'

GivesUp(c) == PollsError(c) /\ ~Polling(c)'

Leaves(c) == frame[c].pc \in PollsAt /\ StopsPolling(c) /\ ~Polling(c)'

WireStep(c) == OthersKept(c) /\ (WiresKept(c) \/ PostsWork(c) \/ GivesUp(c) \/ Leaves(c))

LEMMA PcFacts ==
    ASSUME NEW c, NEW l, frame[c].pc = l, l \notin PollsAt
    PROVE  ~Polling(c)
BY DEF Polling

LEMMA KernelWires ==
    ASSUME FramesOK, KernelTypes, NEW c \in Cpus, KernelCalls(c)
    PROVE  WireStep(c)
<1>1. UNCHANGED <<sendq, sendcq>>
  BY DEF KernelCalls, OwnStep, StoreBegin, StoreUnmapped, LoadBegin, wireVars
<1>2. ASSUME frame' = frame PROVE Quiet(c) /\ OthersKept(c)
  BY <1>2 DEF Quiet, OthersKept
<1>3. ASSUME Begins(c) PROVE Quiet(c) /\ OthersKept(c)
  BY <1>3, BeginFields DEF Quiet, Polling, PollsAt, At
<1>4. QED
  BY <1>1, <1>2, <1>3, CallBegins DEF WireStep, WiresKept

LEMMA RpcWires ==
    ASSUME FramesOK, NEW c \in Cpus, RpcLoop(c)
    PROVE  WireStep(c)
<1>1. CASE TakeLock(c)
  <2>1. UNCHANGED <<sendq, sendcq>> /\ ~Polling(c)
    BY <1>1 DEF TakeLock, wireVars, At, Polling, PollsAt
  <2>2. frame'[c].pc \in {"open", "check", "commit"} /\ OthersKept(c)
    BY <1>1, RpcMoves, MoveFields
  <2>3. QED
    BY <2>1, <2>2 DEF WireStep, WiresKept, Quiet, Polling, PollsAt
<1>2. CASE OpenSkip(c)
  <2>1. UNCHANGED <<sendq, sendcq>> /\ ~Polling(c)
    BY <1>2 DEF OpenSkip, wireVars, At, Polling, PollsAt
  <2>2. frame'[c].pc = "open" /\ OthersKept(c)
    <3>1. Moves(c, "open", Tail(frame[c].todo), frame[c].err, frame[c].done)
      BY <1>2, RpcMoves
    <3>2. QED
      BY <3>1, MoveFields
  <2>3. QED
    BY <2>1, <2>2 DEF WireStep, WiresKept, Quiet, Polling, PollsAt
<1>3. CASE PostCall(c)
  <2> DEFINE s == Head(frame[c].todo)
  <2>1. /\ frame[c].todo # <<>> /\ frame[c].pc \notin PollsAt /\ sendcq' = sendcq
        /\ ~At(c, "idle")
    BY <1>3 DEF PostCall, At, PollsAt
  <2>2. s \in Servers /\ Block(c) \in Blocks
    BY <2>1, FrameFacts
  <2>3. /\ frame'[c].pc \in {"opening", "committing"} /\ frame'[c].todo = frame[c].todo
        /\ ~frame'[c].done /\ OthersKept(c) /\ frame'[c].page = frame[c].page
    <3>1. \/ Moves(c, "opening", frame[c].todo, frame[c].err, FALSE)
          \/ Moves(c, "committing", frame[c].todo, frame[c].err, FALSE)
      BY <1>3, RpcMoves
    <3>2. ASSUME NEW l, NEW q, q = frame[c].todo, Moves(c, l, q, frame[c].err, FALSE)
          PROVE  /\ frame'[c].pc = l /\ frame'[c].todo = q /\ ~frame'[c].done /\ OthersKept(c)
      BY <3>2, MoveFields
    <3>3. ASSUME NEW l, NEW q, q = frame[c].todo, Moves(c, l, q, frame[c].err, FALSE)
          PROVE  frame'[c].page = frame[c].page
      BY <3>3, MoveFields
    <3>4. QED
      BY <3>1, <3>2, <3>3
  <2>4. Polling(c)' /\ QpOf(c)' = s
    BY <2>3 DEF Polling, PollsAt, QpOf, At
  <2> DEFINE Wanted(what) == what \in Requests /\ Posted(c, s, "call", what) /\ what = RequestOf(c)'
  <2>5. \E what : Wanted(what)
    <3>1. [op |-> "open", block |-> Block(c), count |-> 0] \in Requests
      BY <2>2 DEF Requests
    <3>2. [op |-> "commit", block |-> None, count |-> 0] \in Requests
      BY ServerBatchAssumption DEF Requests
    <3>3. /\ frame'[c].pc = "opening" => RequestOf(c)' = [op |-> "open", block |-> Block(c), count |-> 0]
          /\ frame'[c].pc = "committing" => RequestOf(c)' = [op |-> "commit", block |-> None, count |-> 0]
      BY <2>3 DEF RequestOf, At, Block
    <3>4. \/ /\ frame'[c].pc = "opening"
             /\ Posted(c, s, "call", [op |-> "open", block |-> Block(c), count |-> 0])
          \/ /\ frame'[c].pc = "committing"
             /\ Posted(c, s, "call", [op |-> "commit", block |-> None, count |-> 0])
      <4>1. ASSUME NEW l, frame' = [frame EXCEPT ![c].pc = l, ![c].done = FALSE] PROVE frame'[c].pc = l
        <5>1. Moves(c, l, frame[c].todo, frame[c].err, FALSE)
          BY <4>1, MoveForms
        <5>2. QED
          BY <5>1, MoveFields
      <4>2. QED
        BY <1>3, <4>1 DEF PostCall
    <3>5. QED
      BY <3>1, <3>2, <3>3, <3>4
  <2>6. PICK what : Wanted(what)
    BY <2>5
  <2>7. [cpu |-> c, op |-> "call", what |-> what] \in Work
        /\ [cpu |-> c, op |-> "call", what |-> what] = WorkOf(c)'
    BY <2>3, <2>6 DEF Work, WorkOf, At
  <2>8. PostsWork(c)
    BY <2>1, <2>2, <2>4, <2>6, <2>7 DEF PostsWork, Qps
  <2>9. QED
    BY <2>3, <2>8 DEF WireStep
<1>4. CASE CallAnswered(c) \/ CallFails(c)
  <2>1. frame'[c].pc \in {"open", "commit"} /\ OthersKept(c)
    BY <1>4, RpcMoves, MoveFields
  <2>2. ~Polling(c)'
    BY <2>1 DEF Polling, PollsAt
  <2>3. CASE CallAnswered(c)
    BY <2>1, <2>2, <2>3 DEF CallAnswered, WireStep, Leaves, PollsAt
  <2>4. CASE CallFails(c)
    BY <2>1, <2>2, <2>4 DEF CallFails, WireStep, GivesUp
  <2>5. QED
    BY <1>4, <2>3, <2>4
<1>5. CASE OldAnswer(c)
  BY <1>5 DEF OldAnswer, wireVars, WireStep, WiresKept, Quiet, OthersKept
<1>6. QED
  BY <1>1, <1>2, <1>3, <1>4, <1>5 DEF RpcLoop

LEMMA UnlockWires ==
    ASSUME FramesOK, NEW c \in Cpus, Unlocks(c)
    PROVE  WireStep(c)
<1>1. UNCHANGED <<sendq, sendcq>> /\ ~Polling(c)
  BY DEF Unlocks, OpenEnds, CheckBatch, CommitEnds, wireVars, At, Polling, PollsAt
<1>2. frame'[c].pc \in {"idle", "check", "mark", "write", "commit", "load"} /\ OthersKept(c)
  BY UnlockMoves, MoveFields, ReturnFields DEF Unlocks
<1>3. QED
  BY <1>1, <1>2 DEF WireStep, WiresKept, Quiet, Polling, PollsAt

\* A READ or a WRITE is posted to a server that is alive.
LEMMA RdmaPosted ==
    ASSUME FramesOK, NEW c \in Cpus, NEW s \in Servers, NEW op \in {"read", "write"}, NEW l,
           PostRdma(c, s, op, frame[c].page, l), ~At(c, "idle"), frame[c].pc \notin PollsAt,
           \/ l = "read" /\ op = "read" /\ s = frame[c].ctrl
           \/ l = "writing" /\ op = "write" /\ s = Head(frame[c].todo)
    PROVE  WireStep(c)
<1>1. frame' = [frame EXCEPT ![c].pc = IF s \in Alive THEN l ELSE "hung", ![c].done = FALSE]
  BY DEF PostRdma
<1>2. /\ frame'[c].pc = (IF s \in Alive THEN l ELSE "hung") /\ ~frame'[c].done
      /\ frame'[c].todo = frame[c].todo /\ frame'[c].ctrl = frame[c].ctrl /\ OthersKept(c)
      /\ frame'[c].page = frame[c].page
  <2> DEFINE ll == IF s \in Alive THEN l ELSE "hung"
  <2>1. Moves(c, ll, frame[c].todo, frame[c].err, FALSE)
    BY <1>1, MoveForms
  <2> HIDE DEF ll
  <2>2. frame'[c].pc = ll /\ ~frame'[c].done /\ OthersKept(c)
        /\ frame'[c].todo = frame[c].todo /\ frame'[c].ctrl = frame[c].ctrl
        /\ frame'[c].page = frame[c].page
    BY <2>1, MoveFields
  <2>3. QED
    BY <2>2 DEF ll
<1>3. CASE s \in Alive
  <2>1. Polling(c)' /\ QpOf(c)' = s
    BY <1>2, <1>3 DEF Polling, PollsAt, QpOf, At
  <2>2. frame[c].page \in Page
    BY FrameFacts
  <2>3. [cpu |-> c, op |-> op, what |-> frame[c].page] \in Work
    BY <2>2 DEF Work
  <2>4. Posted(c, s, op, frame[c].page) /\ sendcq' = sendcq
    BY <1>3 DEF PostRdma
  <2>5. PostsWork(c)
    <3>1. [cpu |-> c, op |-> op, what |-> frame[c].page] = WorkOf(c)'
      BY <1>2, <1>3 DEF WorkOf, At
    <3>2. QED
      BY <2>1, <2>2, <2>3, <2>4, <3>1 DEF PostsWork, Qps
  <2>6. QED
    BY <1>2, <2>5 DEF WireStep
<1>4. CASE s \notin Alive
  BY <1>2, <1>4 DEF PostRdma, WireStep, WiresKept, Quiet, Polling, PollsAt
<1>5. QED
  BY <1>3, <1>4

LEMMA SendWires ==
    ASSUME FramesOK, NEW c \in Cpus, Sends(c) \/ Writes(c)
    PROVE  WireStep(c)
<1>1. ASSUME Return(c), UNCHANGED <<sendq, sendcq>>, ~Polling(c) PROVE WireStep(c)
  BY <1>1, ReturnFields DEF WireStep, WiresKept, Quiet, Polling, PollsAt
<1>2. CASE PostPage(c)
  <2>1. ~At(c, "idle") /\ frame[c].pc \notin PollsAt /\ sendcq' = sendcq
    BY <1>2 DEF PostPage, At, PollsAt
  <2>2. Posted(c, "mcast", "page", frame[c].page)
    BY <1>2 DEF PostPage
  <2>3. frame'[c].pc = "send" /\ ~frame'[c].done /\ OthersKept(c) /\ frame'[c].page = frame[c].page
    <3>1. Moves(c, "send", frame[c].todo, frame[c].err, FALSE)
      BY <1>2, SendMoves
    <3>2. QED
      BY <3>1, MoveFields
  <2>4. Polling(c)' /\ QpOf(c)' = "mcast"
    BY <2>3 DEF Polling, PollsAt, QpOf, At
  <2>5. frame[c].page \in Page
    BY <2>1, FrameFacts
  <2>6. [cpu |-> c, op |-> "page", what |-> frame[c].page] \in Work
        /\ [cpu |-> c, op |-> "page", what |-> frame[c].page] = WorkOf(c)'
    BY <2>3, <2>5 DEF Work, WorkOf, At
  <2>7. PostsWork(c)
    BY <2>1, <2>2, <2>4, <2>5, <2>6 DEF PostsWork, Qps
  <2>8. QED
    BY <2>3, <2>7 DEF WireStep
<1>3. CASE SendFails(c)
  <2>1. CASE At(c, "refused")
    BY <1>1, <1>3, <2>1 DEF SendFails, PollsError, StoreResult, Polling, PollsAt, At
  <2>2. CASE ~At(c, "refused")
    BY <1>3, <2>2, ReturnFields DEF SendFails, StoreResult, WireStep, GivesUp, Polling, PollsAt
  <2>3. QED
    BY <2>1, <2>2
<1>4. CASE CountPage(c) \/ AllWritten(c)
  <2>1. CASE AllWritten(c)
    BY <1>1, <2>1 DEF AllWritten, StoreResult, wireVars, Polling, PollsAt, At
  <2>2. CASE CountPage(c)
    BY <2>2, ReturnFields DEF CountPage, StoreResult, WireStep, Leaves, Polling, PollsAt, At
  <2>3. QED
    BY <1>4, <2>1, <2>2
<1>5. CASE PostWrite(c)
  <2>1. /\ frame[c].todo # <<>> /\ ~At(c, "idle") /\ frame[c].pc \notin PollsAt
        /\ PostRdma(c, Head(frame[c].todo), "write", frame[c].page, "writing")
    BY <1>5 DEF PostWrite, At, PollsAt
  <2>2. Head(frame[c].todo) \in Servers
    BY <2>1, FrameFacts
  <2>3. QED
    BY <2>1, <2>2, RdmaPosted
<1>6. CASE WriteDone(c) \/ WriteFails(c)
  <2>1. frame'[c].pc = "write" /\ OthersKept(c)
    <3>1. PICK err \in BOOLEAN : Moves(c, "write", Tail(frame[c].todo), err, frame[c].done)
      BY <1>6, SendMoves
    <3>2. QED
      BY <3>1, MoveFields
  <2>2. ~Polling(c)'
    BY <2>1 DEF Polling, PollsAt
  <2>3. CASE WriteDone(c)
    BY <2>1, <2>2, <2>3 DEF WriteDone, WireStep, Leaves, PollsAt, At
  <2>4. CASE WriteFails(c)
    BY <2>1, <2>2, <2>4 DEF WriteFails, WireStep, GivesUp
  <2>5. QED
    BY <1>6, <2>3, <2>4
<1>7. CASE MarkPage(c) \/ PostFails(c)
  <2>1. UNCHANGED <<sendq, sendcq>> /\ frame[c].pc \notin PollsAt
    BY <1>7 DEF MarkPage, PostFails, wireVars, PollsAt, At
  <2>2. ASSUME NEW l \in {"post", "refused"}, Moves(c, l, frame[c].todo, frame[c].err, frame[c].done)
        PROVE  WireStep(c)
    BY <2>1, <2>2, MoveFields DEF WireStep, WiresKept, Quiet, Polling, PollsAt
  <2>3. QED
    BY <1>1, <1>7, <2>1, <2>2, SendMoves DEF Polling
<1>8. QED
  BY <1>2, <1>3, <1>4, <1>5, <1>6, <1>7 DEF Sends, Writes

LEMMA LoadWires ==
    ASSUME FramesOK, NEW c \in Cpus, Loads(c)
    PROVE  WireStep(c)
<1>1. CASE LoadOverdue(c) \/ PageRead(c)
  <2>1. frame'[c].pc \in {"overdue", "loaded"} /\ OthersKept(c)
    BY <1>1, LoadMoves, MoveFields
  <2>2. ~Polling(c)'
    BY <2>1 DEF Polling, PollsAt
  <2>3. CASE LoadOverdue(c)
    BY <2>1, <2>2, <2>3 DEF LoadOverdue, WireStep, WiresKept, Quiet, wireVars, Polling, PollsAt, At
  <2>4. CASE PageRead(c)
    BY <2>1, <2>2, <2>4 DEF PageRead, WireStep, Leaves, PollsAt, At
  <2>5. QED
    BY <1>1, <2>3, <2>4
<1>2. CASE PostRead(c)
  <2>1. /\ ~At(c, "idle") /\ frame[c].pc \notin PollsAt /\ At(c, "load")
        /\ PostRdma(c, frame[c].ctrl, "read", frame[c].page, "read")
    BY <1>2 DEF PostRead, At, PollsAt
  <2>2. frame[c].ctrl \in Servers
    BY <2>1 DEF FramesOK, FrameOK, At
  <2>3. QED
    BY <2>1, <2>2, RdmaPosted
<1>3. CASE ReadFails(c)
  BY <1>3, ReturnFields DEF ReadFails, WireStep, GivesUp, Polling, PollsAt
<1>4. CASE LoadDone(c)
  BY <1>4, ReturnFields DEF LoadDone, WireStep, WiresKept, Quiet, Polling, PollsAt, wireVars, At
<1>5. QED
  BY <1>1, <1>2, <1>3, <1>4 DEF Loads

LEMMA CpuWires ==
    ASSUME FramesOK, KernelTypes, NEW c \in Cpus, CpuStep(c)
    PROVE  WireStep(c) \/ PollsDone(c)
BY CpuCases, KernelWires, RpcWires, UnlockWires, SendWires, LoadWires

----------------------------------------------------------------------------
(* The types, step by step. *)

\* A queue pair completes its oldest work.
Completed(q, ok) ==
    /\ sendq[q] \in Seq(Work) /\ sendq[q] # <<>> /\ Head(sendq[q]) \in Work
    /\ Tail(sendq[q]) \in Seq(Work)
    /\ sendq' = [sendq EXCEPT ![q] = Tail(@)]
    /\ sendcq' = [sendcq EXCEPT ![q] = Append(@, [cpu |-> Head(sendq[q]).cpu, ok |-> ok])]
    /\ failed' = (failed \/ ~ok)
    /\ UNCHANGED <<ctrlVars, kernelVars, loaded, blurred>>

\* All of a frame but what a load has read.
SameButGot(f, g) ==
    /\ f.pc = g.pc /\ f.op = g.op /\ f.page = g.page /\ f.ctrl = g.ctrl
    /\ f.todo = g.todo /\ f.err = g.err /\ f.done = g.done

LEMMA WorkCompletes ==
    ASSUME WireTypes, NEW q \in Qps, NEW op, NEW ok \in BOOLEAN, Completes(q, op, ok)
    PROVE  Completed(q, ok) /\ Head(sendq[q]).op \in op
<1>1. sendq[q] \in Seq(Work) /\ sendq[q] # <<>>
  BY DEF WireTypes, Completes
<1>2. Head(sendq[q]) \in Work /\ Tail(sendq[q]) \in Seq(Work)
  BY <1>1, HeadAndTail
<1>3. QED
  BY <1>1, <1>2 DEF Completed, Completes

LEMMA WorkFrames ==
    ASSUME AltTypes, NEW q \in Qps, Executes(q)
    PROVE  FramesOK' /\ \A c \in Cpus : SameButGot(frame'[c], frame[c])
<1>0. FramesOK /\ WireTypes /\ FarTypeOK
  BY DEF AltTypes, ServerInv
<1>1. CASE frame' = frame
  BY <1>0, <1>1 DEF FramesOK, SameButGot
<1>2. CASE frame' # frame
  <2>1. q \in Servers /\ ReadsPage(q)
    BY <1>2 DEF Executes, SendsPage, WorkFails, SendsCall, WritesPage
  <2> DEFINE w == Head(sendq[q])
  <2>2. w \in Work /\ w.op \in {"read"}
    BY <1>0, <2>1, WorkCompletes DEF ReadsPage, Completed
  <2>3. w.cpu \in Cpus \cup {None} /\ w.what \in Page
    BY <2>2 DEF Work
  <2>4. mem[q][w.what.off] \in Content
    BY <1>0, <2>1, <2>3 DEF FarTypeOK, Page
  <2>5. w.cpu \in Cpus /\ frame' = [frame EXCEPT ![w.cpu].got = mem[q][w.what.off]]
    BY <1>2, <2>1, <2>3 DEF ReadsPage
  <2> DEFINE d == w.cpu  v == mem[q][w.what.off]  f == [frame[d] EXCEPT !.got = v]
  <2> HIDE DEF w
  <2>6. d \in Cpus /\ v \in Content /\ frame' = [frame EXCEPT ![d].got = v]
    BY <2>4, <2>5
  <2> HIDE DEF d, v
  <2>7. frame[d] \in Frame /\ FrameOK(frame[d])
    BY <1>0, <2>6 DEF FramesOK
  <2>8. f \in Frame /\ FrameOK(f) /\ SameButGot(f, frame[d])
    BY <2>6, <2>7 DEF Frame, FrameOK, SameButGot
  <2>9. frame' = [frame EXCEPT ![d] = f]
    BY <2>6
  <2> HIDE DEF f
  <2>10. FramesOK'
    BY <1>0, <2>6, <2>8, <2>9, OneFrame
  <2>11. \A c \in Cpus : frame'[c] = IF c = d THEN f ELSE frame[c]
    BY <1>0, <2>9 DEF FramesOK
  <2>12. QED
    BY <2>8, <2>10, <2>11 DEF SameButGot
<1>3. QED
  BY <1>1, <1>2

LEMMA DisownedTypes ==
    ASSUME NEW c \in Cpus
    PROVE  /\ \A q \in Seq(Work) : Disowned(c, q) \in Seq(Work)
           /\ \A q \in Seq(Ending) : Disowned(c, q) \in Seq(Ending)
<1>1. ASSUME NEW w \in Work PROVE [w EXCEPT !.cpu = None] \in Work
  BY DEF Work
<1>2. ASSUME NEW w \in Ending PROVE [w EXCEPT !.cpu = None] \in Ending
  BY DEF Ending
<1>3. ASSUME NEW q \in Seq(Work) PROVE Disowned(c, q) \in Seq(Work)
  <2>1. \A i \in DOMAIN q : q[i] \in Work /\ [q[i] EXCEPT !.cpu = None] \in Work
    BY <1>1
  <2>2. QED
    BY <2>1 DEF Disowned
<1>4. ASSUME NEW q \in Seq(Ending) PROVE Disowned(c, q) \in Seq(Ending)
  <2>1. \A i \in DOMAIN q : q[i] \in Ending /\ [q[i] EXCEPT !.cpu = None] \in Ending
    BY <1>2
  <2>2. QED
    BY <2>1 DEF Disowned
<1>5. QED
  BY <1>3, <1>4

\* The queues of the node keep their types.
QueueTypes == sendq \in [Qps -> Seq(Work)] /\ sendcq \in [Qps -> Seq(Ending)]

LEMMA CpuQueueTypes ==
    ASSUME AltTypes, NEW c \in Cpus, CpuStep(c)
    PROVE  QueueTypes'
<1>1. FramesOK /\ KernelTypes /\ WireTypes
  BY DEF AltTypes
<1>2. CASE UNCHANGED <<sendq, sendcq>>
  BY <1>1, <1>2 DEF WireTypes, QueueTypes
<1>3. CASE PostsWork(c)
  <2>1. PICK q \in Qps, w \in Work : sendq' = [sendq EXCEPT ![q] = Append(@, w)] /\ sendcq' = sendcq
    BY <1>3 DEF PostsWork, Posted
  <2>2. sendq[q] \in Seq(Work)
    BY <1>1 DEF WireTypes
  <2>3. Append(sendq[q], w) \in Seq(Work)
    BY <2>2, AppendProperties
  <2>4. QED
    BY <1>1, <2>1, <2>3 DEF WireTypes, QueueTypes
<1>4. CASE GivesUp(c)
  <2> DEFINE q == QpOf(c)
  <2>1. /\ q \in Qps /\ sendcq[q] # <<>>
        /\ sendcq' = [sendcq EXCEPT ![q] = Disowned(c, Tail(sendcq[q]))]
        /\ sendq' = [sendq EXCEPT ![q] = Disowned(c, sendq[q])]
    BY <1>1, <1>4, PolledQp DEF GivesUp, PollsError, Polling
  <2> HIDE DEF q
  <2>2. sendq[q] \in Seq(Work) /\ Tail(sendcq[q]) \in Seq(Ending)
    BY <1>1, <2>1, HeadAndTail DEF WireTypes
  <2>3. Disowned(c, sendq[q]) \in Seq(Work) /\ Disowned(c, Tail(sendcq[q])) \in Seq(Ending)
    BY <2>2, DisownedTypes
  <2>4. QED
    BY <1>1, <2>1, <2>3 DEF WireTypes, QueueTypes
<1>5. CASE PollsDone(c)
  <2> DEFINE q == QpOf(c)
  <2>1. q \in Qps /\ Tail(sendcq[q]) \in Seq(Ending)
    BY <1>5, PollMoves
  <2>2. sendcq' = [sendcq EXCEPT ![q] = Tail(sendcq[q])] /\ sendq' = sendq
    BY <1>5 DEF PollsDone
  <2> HIDE DEF q
  <2>3. QED
    BY <1>1, <2>1, <2>2 DEF WireTypes, QueueTypes
<1>6. CASE Leaves(c)
  <2> DEFINE q == QpOf(c)
  <2>1. /\ q \in Qps
        /\ sendcq' = [sendcq EXCEPT ![q] = Disowned(c, sendcq[q])]
        /\ sendq' = [sendq EXCEPT ![q] = Disowned(c, sendq[q])]
    BY <1>1, <1>6, PolledQp DEF Leaves, StopsPolling
  <2> HIDE DEF q
  <2>2. Disowned(c, sendq[q]) \in Seq(Work) /\ Disowned(c, sendcq[q]) \in Seq(Ending)
    BY <1>1, <2>1, DisownedTypes DEF WireTypes
  <2>3. QED
    BY <1>1, <2>1, <2>2 DEF WireTypes, QueueTypes
<1>7. QED
  BY <1>1, <1>2, <1>3, <1>4, <1>5, <1>6, CpuWires DEF WireStep, WiresKept

LEMMA WorkQueueTypes ==
    ASSUME WireTypes, NEW q \in Qps, NEW ok \in BOOLEAN, Completed(q, ok)
    PROVE  QueueTypes'
<1> DEFINE e == [cpu |-> Head(sendq[q]).cpu, ok |-> ok]
<1>1. e \in Ending
  BY DEF Completed, Work, Ending
<1>2. sendcq[q] \in Seq(Ending)
  BY DEF WireTypes
<1>3. sendcq' = [sendcq EXCEPT ![q] = Append(sendcq[q], e)]
  BY DEF Completed
<1> HIDE DEF e
<1>4. Append(sendcq[q], e) \in Seq(Ending)
  BY <1>1, <1>2, AppendProperties
<1>5. QED
  BY <1>3, <1>4 DEF WireTypes, QueueTypes, Completed

LEMMA CpuCtrlTypes ==
    ASSUME AltTypes, NEW c \in Cpus, CpuStep(c)
    PROVE  CtrlTypes' /\ KernelTypes' /\ caller' \in [Servers -> Cpus \cup {None}]
           /\ flight' = flight
<1>0. FramesOK /\ CtrlTypes /\ KernelTypes /\ WireTypes
  BY DEF AltTypes
<1>1. ~At(c, "idle") => /\ frame[c].page.off \in Offsets /\ frame[c].page.ver \in 1 .. MaxStores
                        /\ Block(c) \in Blocks
                        /\ (frame[c].todo # <<>> => Head(frame[c].todo) \in Servers)
  BY <1>0, FrameFacts
<1> USE DEF CtrlTypes, KernelTypes, WireTypes, ctrlVars, wireVars, kernelVars, historyOfCalls
<1>2. CASE KernelCalls(c)
  <2>1. UNCHANGED <<ctrlVars, wireVars, historyOfCalls>>
    BY <1>2 DEF KernelCalls, OwnStep, StoreBegin, StoreUnmapped, LoadBegin
  <2>2. KernelTypes'
    <3>1. ASSUME NEW o \in Offsets, StoreBegin(c, o) \/ StoreUnmapped(c, o) PROVE KernelTypes'
      BY <1>0, <3>1, MaxStoresAssumption DEF StoreBegin, StoreUnmapped
    <3>2. ASSUME NEW o \in Offsets, NEW s \in Servers, LoadBegin(c, o, s) PROVE KernelTypes'
      BY <1>0, <3>2 DEF LoadBegin
    <3>3. QED
      BY <1>2, <3>1, <3>2 DEF KernelCalls, OwnStep
  <2>3. QED
    BY <1>0, <2>1, <2>2
<1>3. CASE RpcLoop(c)
  <2>1. CASE TakeLock(c)
    <3>1. blurred' \in BOOLEAN
      BY <1>0, <2>1 DEF TakeLock, StartCommit
    <3>2. QED
      BY <1>0, <2>1, <3>1 DEF TakeLock
  <2>2. CASE OpenSkip(c) \/ PostCall(c) \/ OldAnswer(c)
    BY <1>0, <2>2 DEF OpenSkip, PostCall, OldAnswer
  <2>3. CASE CallAnswered(c) \/ CallFails(c)
    <3>1. PICK ok \in BOOLEAN : CallEnds(c, ok) /\ frame[c].pc \in {"opening", "committing"}
      BY <2>3 DEF CallAnswered, CallFails
    <3>2. Head(frame[c].todo) \in Servers /\ Block(c) \in Blocks
      BY <1>0, <1>1, <3>1 DEF At, FramesOK, FrameOK
    <3>3. rdmaInfo' \in [Servers -> SUBSET Blocks]
      BY <1>0, <3>1, <3>2 DEF CallEnds
    <3>4. caller' \in [Servers -> Cpus \cup {None}] /\ flight' = flight
      BY <1>0, <2>3 DEF CallAnswered, CallFails
    <3>5. QED
      BY <1>0, <3>1, <3>3, <3>4 DEF CallEnds
  <2>4. QED
    BY <1>3, <2>1, <2>2, <2>3 DEF RpcLoop
<1>4. ASSUME NEW ok, StoreResult(c, ok), ~At(c, "idle") PROVE KernelTypes'
  <2>1. (IF ok THEN frame[c].page.ver ELSE 0) \in 0 .. MaxStores
    BY <1>1, <1>4, MaxStoresAssumption
  <2>2. QED
    BY <1>0, <1>4, <2>1 DEF StoreResult
<1>5. CASE Unlocks(c)
  <2>1. CASE OpenEnds(c)
    <3>1. KernelTypes' /\ spin' \in Cpus \cup {None}
      BY <1>0, <1>4, <2>1 DEF OpenEnds, At
    <3>2. QED
      BY <1>0, <2>1, <3>1 DEF OpenEnds
  <2>2. CASE CheckBatch(c)
    <3>1. spin' \in Cpus \cup {None} /\ blurred' \in BOOLEAN
      BY <1>0, <2>2 DEF CheckBatch, StartCommit
    <3>2. QED
      BY <1>0, <2>2, <3>1 DEF CheckBatch
  <2>3. CASE CommitEnds(c)
    <3>1. KernelTypes'
      BY <1>0, <1>4, <2>3 DEF CommitEnds, At
    <3>2. QED
      BY <1>0, <2>3, <3>1 DEF CommitEnds, BatchAfter
  <2>4. QED
    BY <1>5, <2>1, <2>2, <2>3 DEF Unlocks
<1>6. CASE Sends(c)
  <2>1. CASE MarkPage(c)
    <3>1. KernelTypes' /\ checkList' \subseteq Offsets
      BY <1>0, <1>1, <1>4, <2>1 DEF MarkPage, At
    <3>2. QED
      BY <1>0, <2>1, <3>1 DEF MarkPage
  <2>2. CASE SendFails(c) \/ CountPage(c)
    <3>1. KernelTypes'
      BY <1>4, <2>2 DEF SendFails, CountPage, At
    <3>2. batch' \in Nat /\ spin' \in Cpus \cup {None}
      <4>1. batch' \in {batch, batch + 1} /\ spin' \in {spin, None}
        BY <2>2 DEF SendFails, CountPage, Counted
      <4>2. batch \in Nat /\ batch + 1 \in Nat /\ spin \in Cpus \cup {None}
        BY <1>0
      <4>3. QED
        BY <4>1, <4>2
    <3>3. /\ UNCHANGED <<rdmaInfo, checkList, readList, loaded, failed, blurred, caller, flight>>
      BY <2>2 DEF SendFails, CountPage
    <3>4. QED
      BY <1>0, <3>1, <3>2, <3>3
  <2>3. CASE PostPage(c) \/ PostFails(c)
    BY <1>0, <2>3 DEF PostPage, PostFails
  <2>4. QED
    BY <1>6, <2>1, <2>2, <2>3 DEF Sends
<1>7. CASE Writes(c)
  <2>1. CASE AllWritten(c)
    <3>1. KernelTypes'
      BY <1>4, <2>1 DEF AllWritten, At
    <3>2. QED
      BY <1>0, <2>1, <3>1 DEF AllWritten
  <2>2. CASE PostWrite(c) \/ WriteDone(c) \/ WriteFails(c)
    BY <1>0, <2>2 DEF PostWrite, PostRdma, WriteDone, WriteFails
  <2>3. QED
    BY <1>7, <2>1, <2>2 DEF Writes
<1>8. CASE Loads(c)
  <2>1. CASE LoadOverdue(c) \/ PostRead(c) \/ ReadFails(c)
    BY <1>0, <2>1 DEF LoadOverdue, PostRead, PostRdma, ReadFails
  <2>2. CASE PageRead(c)
    <3>1. readList' \subseteq Offsets
      BY <1>0, <1>1, <2>2 DEF PageRead, ReadMark, At
    <3>2. QED
      BY <1>0, <2>2, <3>1 DEF PageRead
  <2>3. CASE LoadDone(c)
    BY <1>0, <2>3 DEF LoadDone, Unread
  <2>4. QED
    BY <1>8, <2>1, <2>2, <2>3 DEF Loads
<1>9. CASE PollsDone(c)
  BY <1>0, <1>9 DEF PollsDone
<1>10. QED
  BY <1>2, <1>3, <1>5, <1>6, <1>7, <1>8, <1>9, CpuCases

\* What a CPU does to a server: it takes an answer.
LEMMA CpuServers ==
    ASSUME AltTypes, NEW c \in Cpus, CpuStep(c)
    PROVE  [\E s \in Servers : TakeReply(s)]_serverVars
<1>0. FramesOK
  BY DEF AltTypes
<1>1. frame[c].pc \in {"opening", "committing"} => Head(frame[c].todo) \in Servers
  BY <1>0, FrameFacts DEF FramesOK, FrameOK, At
<1>2. CallAnswered(c) \/ OldAnswer(c) => \E s \in Servers : TakeReply(s)
  BY <1>1 DEF CallAnswered, OldAnswer
<1>3. KernelCalls(c) \/ Unlocks(c) \/ Sends(c) \/ PollsDone(c) => UNCHANGED serverVars
  BY DEF KernelCalls, Unlocks, OpenEnds, CheckBatch, CommitEnds, Sends, MarkPage, PostPage, PostFails, SendFails,
         CountPage, PollsDone
<1>4. TakeLock(c) \/ OpenSkip(c) \/ PostCall(c) \/ CallFails(c) => UNCHANGED serverVars
  BY DEF TakeLock, OpenSkip, PostCall, CallFails
<1>5. Writes(c) => UNCHANGED serverVars
  BY DEF Writes, PostWrite, PostRdma, WriteDone, WriteFails, AllWritten
<1>6. Loads(c) => UNCHANGED serverVars
  BY DEF Loads, LoadOverdue, PostRead, PostRdma, PageRead, ReadFails, LoadDone
<1>7. QED
  BY <1>2, <1>3, <1>4, <1>5, <1>6, CpuCases DEF RpcLoop

\* A WRITE changes the memory and nothing else of the server.
LEMMA WriteKeepsServer ==
    ASSUME ServerInv, NEW s \in Servers, NEW p \in Page, mem' = [mem EXCEPT ![s][p.off] = p],
           UNCHANGED <<queueVars, listVars, srvBatch, blocks, rpcVars, historyVars>>
    PROVE  ServerInv'
<1>1. mem' \in [Servers -> [Offsets -> Content]]
  BY DEF ServerInv, FarTypeOK, Page, Content
<1>2. FarTypeOK'
  BY <1>1 DEF ServerInv, FarTypeOK, queueVars, listVars, rpcVars, historyVars
<1>3. ASSUME NEW t \in Servers PROVE QueueInv(t)'
  <2>1. QueueInv(t)
    BY DEF ServerInv
  <2>2. InOneQueue(t)' /\ BlocksOK(t)' /\ BuffersHoldPages(t)'
    BY <2>1 DEF QueueInv, InOneQueue, Arrived, BlocksOK, BuffersHoldPages, queueVars, listVars,
                historyVars
  <2>3. ~clash[t]' => FlowListed(t)' /\ OnlyListedMarked(t)'
    BY <2>1 DEF QueueInv, FlowListed, OnlyListedMarked, listVars, historyVars
  <2>4. QED
    BY <2>2, <2>3 DEF QueueInv
<1>4. QED
  BY <1>2, <1>3 DEF ServerInv

LEMMA WorkTypes ==
    ASSUME AltTypes, NEW q \in Qps, Executes(q)
    PROVE  AltTypes'
<1>0. FramesOK /\ CtrlTypes /\ KernelTypes /\ WireTypes /\ ServerInv
  BY DEF AltTypes
<1>1. FramesOK'
  BY WorkFrames
<1>2. ASSUME NEW ok \in BOOLEAN, Completed(q, ok), 
             caller' \in [Servers -> Cpus \cup {None}], flight' \in [Servers -> Seq(Page)],
             ServerInv'
      PROVE  AltTypes'
  <2>1. CtrlTypes' /\ KernelTypes'
    BY <1>0, <1>2 DEF Completed, CtrlTypes, KernelTypes, ctrlVars, kernelVars
  <2>2. QueueTypes'
    BY <1>0, <1>2, WorkQueueTypes
  <2>3. QED
    BY <1>1, <1>2, <2>1, <2>2 DEF AltTypes, WireTypes, QueueTypes
<1>3. ASSUME UNCHANGED serverVars PROVE ServerInv'
  BY <1>0, <1>3, ServerInvStep
<1>4. CASE SendsPage(q)
  <2>1. Completed(q, TRUE) /\ Head(sendq[q]).op \in {"page"}
    BY <1>0, <1>4, WorkCompletes DEF SendsPage
  <2>2. Head(sendq[q]).what \in Page
    BY <2>1 DEF Completed, Work
  <2>3. flight' \in [Servers -> Seq(Page)]
    <3>1. ASSUME NEW s \in Servers PROVE Append(flight[s], Head(sendq[q]).what) \in Seq(Page)
      BY <1>0, <2>2, AppendProperties DEF WireTypes
    <3>2. QED
      BY <1>0, <1>4, <3>1 DEF SendsPage, WireTypes
  <2>4. caller' \in [Servers -> Cpus \cup {None}] /\ UNCHANGED serverVars
    BY <1>0, <1>4 DEF SendsPage, WireTypes
  <2>5. QED
    BY <1>2, <1>3, <2>1, <2>3, <2>4
<1>5. CASE WorkFails(q)
  <2>1. Completed(q, FALSE)
    BY <1>0, <1>5, WorkCompletes DEF WorkFails
  <2>2. QED
    BY <1>0, <1>2, <1>3, <1>5, <2>1 DEF WorkFails, WireTypes
<1>6. ASSUME q \in Servers, SendsCall(q) PROVE AltTypes'
  <2>1. Completed(q, TRUE) /\ Head(sendq[q]).op \in {"call"}
    BY <1>0, <1>6, WorkCompletes DEF SendsCall
  <2>2. Head(sendq[q]).what \in Requests /\ Head(sendq[q]).cpu \in Cpus \cup {None}
    BY <2>1 DEF Completed, Work
  <2>3. ServerInv'
    BY <1>0, <1>6, <2>2, ServerInvStep DEF SendsCall, StepOf
  <2>4. caller' \in [Servers -> Cpus \cup {None}] /\ flight' \in [Servers -> Seq(Page)]
    BY <1>0, <1>6, <2>2 DEF SendsCall, WireTypes
  <2>5. QED
    BY <1>2, <2>1, <2>3, <2>4
<1>7. ASSUME q \in Servers, ReadsPage(q) PROVE AltTypes'
  <2>1. Completed(q, TRUE)
    BY <1>0, <1>7, WorkCompletes DEF ReadsPage
  <2>2. QED
    BY <1>0, <1>2, <1>3, <1>7, <2>1 DEF ReadsPage, WireTypes
<1>8. ASSUME q \in Servers, WritesPage(q) PROVE AltTypes'
  <2>1. Completed(q, TRUE) /\ Head(sendq[q]).op \in {"write"}
    BY <1>0, <1>8, WorkCompletes DEF WritesPage
  <2>2. Head(sendq[q]).what \in Page
    BY <2>1 DEF Completed, Work
  <2>3. ServerInv'
    BY <1>0, <1>8, <2>2, WriteKeepsServer DEF WritesPage
  <2>4. QED
    BY <1>0, <1>2, <1>8, <2>1, <2>3 DEF WritesPage, WireTypes
<1>9. QED
  BY <1>4, <1>5, <1>6, <1>7, <1>8 DEF Executes

LEMMA AltTypesInit == AltInit => AltTypes
<1> SUFFICES ASSUME AltInit PROVE AltTypes
  OBVIOUS
<1> USE DEF AltInit
<1>1. FramesOK
  BY IdleFrameOK DEF FramesOK
<1>2. CtrlTypes /\ KernelTypes
  <2>1. CtrlTypes
    BY DEF CtrlTypes
  <2>2. stored \in [Offsets -> 0 .. MaxStores] /\ stores \in 0 .. MaxStores
    BY MaxStoresAssumption
  <2>3. QED
    BY <2>1, <2>2 DEF KernelTypes
<1>3. WireTypes
  <2>1. <<>> \in Seq(Work) /\ <<>> \in Seq(Ending) /\ <<>> \in Seq(Page)
    BY EmptySeq
  <2>2. QED
    BY <2>1 DEF WireTypes
<1>4. ServerInv
  BY FarInvInit DEF FarInv, OrderedServerInv
<1>5. QED
  BY <1>1, <1>2, <1>3, <1>4 DEF AltTypes

LEMMA AltTypesStep == AltTypes /\ [AltNext]_altVars => AltTypes'
<1> SUFFICES ASSUME AltTypes, [AltNext]_altVars PROVE AltTypes'
  OBVIOUS
<1>0. FramesOK /\ CtrlTypes /\ KernelTypes /\ WireTypes /\ ServerInv
  BY DEF AltTypes
<1>1. ASSUME NEW c \in Cpus, CpuStep(c) PROVE AltTypes'
  <2>1. FramesOK' /\ QueueTypes' /\ CtrlTypes' /\ KernelTypes'
        /\ caller' \in [Servers -> Cpus \cup {None}] /\ flight' = flight
    BY <1>1, CpuFrames, CpuQueueTypes, CpuCtrlTypes
  <2>2. ServerInv'
    BY <1>0, <1>1, CpuServers, ServerInvStep DEF StepOf
  <2>3. QED
    BY <1>0, <2>1, <2>2 DEF AltTypes, WireTypes, QueueTypes
<1>2. ASSUME NEW q \in Qps, Executes(q) PROVE AltTypes'
  BY <1>2, WorkTypes
<1>3. ASSUME NEW s \in Servers, Deliver(s) PROVE AltTypes'
  <2>1. flight[s] \in Seq(Page) /\ flight[s] # <<>>
    BY <1>0, <1>3 DEF WireTypes, Deliver
  <2>2. Head(flight[s]) \in Page /\ Tail(flight[s]) \in Seq(Page)
    BY <2>1, HeadAndTail
  <2>3. ServerInv'
    BY <1>0, <1>3, <2>2, ServerInvStep DEF Deliver, StepOf
  <2>4. WireTypes'
    BY <1>0, <1>3, <2>2 DEF WireTypes, Deliver
  <2>5. FramesOK' /\ CtrlTypes' /\ KernelTypes'
    BY <1>0, <1>3 DEF Deliver, FramesOK, CtrlTypes, KernelTypes, ctrlVars, kernelVars, historyOfCalls
  <2>6. QED
    BY <2>3, <2>4, <2>5 DEF AltTypes
<1>4. ASSUME NEW s \in Servers, ServerRuns(s) PROVE AltTypes'
  <2>1. ServerInv'
    BY <1>0, <1>4, ServerInvStep DEF ServerRuns, StepOf
  <2>2. FramesOK' /\ CtrlTypes' /\ KernelTypes' /\ WireTypes'
    BY <1>0, <1>4 DEF ServerRuns, FramesOK, CtrlTypes, KernelTypes, WireTypes, ctrlVars, wireVars,
                      kernelVars, historyOfCalls
  <2>3. QED
    BY <2>1, <2>2 DEF AltTypes
<1>5. CASE UNCHANGED altVars
  <2>1. ServerInv'
    BY <1>0, <1>5, ServerInvStep DEF altVars
  <2>2. FramesOK' /\ CtrlTypes' /\ KernelTypes' /\ WireTypes'
    BY <1>0, <1>5 DEF altVars, FramesOK, CtrlTypes, KernelTypes, WireTypes, ctrlVars, wireVars,
                      kernelVars, historyOfCalls
  <2>3. QED
    BY <2>1, <2>2 DEF AltTypes
<1>6. QED
  BY <1>1, <1>2, <1>3, <1>4, <1>5 DEF AltNext

\* Every variable of the two drivers has its type (AltDrivers).
THEOREM AltTypeCorrect == AltSpec => []AltTypeOK
<1>1. AltSpec => []AltTypes
  BY AltTypesInit, AltTypesStep, PTL DEF AltSpec
<1>2. QED
  BY <1>1, TypesHold, PTL

----------------------------------------------------------------------------
(* Whose completion is where. *)

\* What a queue holds of CPU c.
Held(q, c) == {i \in DOMAIN q : q[i].cpu = c}

LEMMA HeldFinite ==
    ASSUME NEW S, NEW q \in Seq(S), NEW c
    PROVE  IsFiniteSet(Held(q, c)) /\ Cardinality(Held(q, c)) \in Nat
<1>1. DOMAIN q = 1 .. Len(q) /\ Len(q) \in Nat
  BY LenProperties
<1>2. IsFiniteSet(DOMAIN q)
  BY <1>1, FS_Interval
<1>3. QED
  BY <1>2, FS_Subset, FS_CardinalityType DEF Held

LEMMA HeldAppend ==
    ASSUME NEW S, NEW q \in Seq(S), NEW e \in S, NEW c
    PROVE  Cardinality(Held(Append(q, e), c))
             = Cardinality(Held(q, c)) + (IF e.cpu = c THEN 1 ELSE 0)
<1> DEFINE n == Len(q) + 1
<1>1. /\ DOMAIN q = 1 .. Len(q) /\ Len(q) \in Nat /\ DOMAIN Append(q, e) = 1 .. n
      /\ \A i \in 1 .. Len(q) : Append(q, e)[i] = q[i]
      /\ Append(q, e)[n] = e
  BY LenProperties, AppendProperties
<1>2. n \notin Held(q, c) /\ 1 .. n = 1 .. Len(q) \cup {n}
  BY <1>1 DEF Held
<1> HIDE DEF n
<1>3. IsFiniteSet(Held(q, c)) /\ Cardinality(Held(q, c)) \in Nat
  BY HeldFinite
<1>4. CASE e.cpu = c
  <2>1. Held(Append(q, e), c) = Held(q, c) \cup {n}
    BY <1>1, <1>2, <1>4 DEF Held
  <2>2. QED
    BY <1>2, <1>3, <1>4, <2>1, FS_AddElement
<1>5. CASE e.cpu # c
  <2>1. Held(Append(q, e), c) = Held(q, c)
    BY <1>1, <1>2, <1>5 DEF Held
  <2>2. QED
    BY <1>3, <1>5, <2>1
<1>6. QED
  BY <1>4, <1>5

LEMMA HeldTail ==
    ASSUME NEW S, NEW q \in Seq(S), q # <<>>, NEW c
    PROVE  Cardinality(Held(q, c))
             = Cardinality(Held(Tail(q), c)) + (IF Head(q).cpu = c THEN 1 ELSE 0)
<1> DEFINE A == Held(Tail(q), c)  B == Held(q, c) \ {1}  f == [i \in A |-> i + 1]
<1>1. /\ DOMAIN q = 1 .. Len(q) /\ Len(q) \in Nat \ {0} /\ Head(q) = q[1]
      /\ Tail(q) \in Seq(S) /\ DOMAIN Tail(q) = 1 .. (Len(q) - 1)
      /\ \A i \in 1 .. (Len(q) - 1) : Tail(q)[i] = q[i + 1]
  BY LenProperties, HeadTailProperties, EmptySeq
<1>2. f \in Bijection(A, B)
  <2>1. A \subseteq 1 .. (Len(q) - 1) /\ B \subseteq 2 .. Len(q)
    BY <1>1 DEF Held
  <2>2. \A i \in A : i + 1 \in B
    BY <1>1, <2>1 DEF Held
  <2>3. \A j \in B : j - 1 \in A /\ (j - 1) + 1 = j
    BY <1>1, <2>1 DEF Held
  <2>4. \A i, j \in A : i + 1 = j + 1 => i = j
    BY <2>1
  <2> HIDE DEF A, B
  <2>5. f \in [A -> B]
    BY <2>2
  <2>6. /\ \A j \in B : \E i \in A : f[i] = j
        /\ \A i, j \in A : f[i] = f[j] => i = j
    BY <2>3, <2>4
  <2> HIDE DEF f
  <2>7. QED
    BY <2>5, <2>6 DEF Bijection, Injection, Surjection, IsInjective
<1>3. IsFiniteSet(A) /\ Cardinality(Held(Tail(q), c)) \in Nat /\ IsFiniteSet(Held(q, c))
  BY <1>1, HeldFinite
<1>4. IsFiniteSet(B) /\ Cardinality(B) = Cardinality(Held(Tail(q), c))
  BY <1>2, <1>3, FS_Bijection DEF ExistsBijection
<1>5. CASE Head(q).cpu = c
  <2>1. Held(q, c) = B \cup {1} /\ 1 \notin B
    BY <1>1, <1>5 DEF Held
  <2> HIDE DEF A, B
  <2>2. QED
    BY <1>3, <1>4, <1>5, <2>1, FS_AddElement
<1>6. CASE Head(q).cpu # c
  <2>1. Held(q, c) = B
    BY <1>1, <1>6 DEF Held
  <2> HIDE DEF A, B
  <2>2. QED
    BY <1>3, <1>4, <1>6, <2>1
<1>7. QED
  BY <1>5, <1>6

----------------------------------------------------------------------------
(* Until a send fails: completions reach their owners, and the lock is held. *)

\* Work and completions point to frames, and no completion is an error.
EntriesOwned ==
    \A q \in Qps : /\ \A w \in Elems(sendq[q]) : w.cpu # None
                   /\ \A w \in Elems(sendcq[q]) : w.cpu # None /\ w.ok

OwedOnce ==
    \A c \in Cpus, q \in Qps : Owed(c, q) = IF Polling(c) /\ q = QpOf(c) THEN 1 ELSE 0

\* A CPU at a step of these has taken the lock.
LockHeld == \A c \in Cpus : frame[c].pc \in LockPcs => spin = c

\* No send was refused.
NoneRefused == \A c \in Cpus : ~At(c, "refused")

Clean == EntriesOwned /\ OwedOnce /\ LockHeld /\ NoneRefused

LEMMA OwedIs ==
    \A c, q : Owed(c, q) = Cardinality(Held(sendq[q], c)) + Cardinality(Held(sendcq[q], c))
BY DEF Owed, Held

LEMMA OwedNat ==
    ASSUME WireTypes, NEW q \in Qps, NEW c
    PROVE  /\ Cardinality(Held(sendq[q], c)) \in Nat /\ Cardinality(Held(sendcq[q], c)) \in Nat
           /\ Owed(c, q) \in Nat
<1>1. sendq[q] \in Seq(Work) /\ sendcq[q] \in Seq(Ending)
  BY DEF WireTypes
<1>2. Cardinality(Held(sendq[q], c)) \in Nat /\ Cardinality(Held(sendcq[q], c)) \in Nat
  BY <1>1, HeldFinite
<1>3. QED
  BY <1>2, OwedIs

\* A CPU whose frame has not changed polls as before.
LEMMA SamePolling ==
    ASSUME NEW d, frame'[d].pc = frame[d].pc, frame'[d].todo = frame[d].todo,
           frame'[d].ctrl = frame[d].ctrl, frame'[d].done = frame[d].done
    PROVE  Polling(d)' = Polling(d) /\ QpOf(d)' = QpOf(d)
BY DEF Polling, QpOf, At

\* Nobody gives up.
LEMMA NoError ==
    ASSUME AltTypes, EntriesOwned, NEW c \in Cpus
    PROVE  ~PollsError(c)
<1> SUFFICES ASSUME PollsError(c) PROVE FALSE
  OBVIOUS
<1>1. QpOf(c) \in Qps /\ sendcq[QpOf(c)] # <<>> /\ ~Head(sendcq[QpOf(c)]).ok
  BY PolledQp DEF PollsError, Polling, AltTypes
<1>2. sendcq[QpOf(c)] \in Seq(Ending)
  BY <1>1 DEF AltTypes, WireTypes
<1>3. Head(sendcq[QpOf(c)]) \in Elems(sendcq[QpOf(c)])
  BY <1>1, <1>2, HeadAndTail
<1>4. QED
  BY <1>1, <1>3 DEF EntriesOwned

\* A step that leaves the queues alone.
LEMMA KeptOwed ==
    ASSUME FramesOK, OwedOnce, EntriesOwned, NEW c \in Cpus, OthersKept(c), WiresKept(c)
    PROVE  OwedOnce' /\ EntriesOwned'
<1>1. EntriesOwned'
  BY DEF EntriesOwned, WiresKept
<1>2. ASSUME NEW d \in Cpus, NEW q \in Qps
      PROVE  Owed(d, q)' = IF Polling(d)' /\ q = QpOf(d)' THEN 1 ELSE 0
  <2>1. Owed(d, q)' = Owed(d, q)
    BY DEF Owed, WiresKept
  <2>2. CASE frame'[d] = frame[d]
    BY <2>1, <2>2, SamePolling DEF OwedOnce
  <2>3. CASE frame'[d] # frame[d]
    BY <2>1, <2>3 DEF OwedOnce, WiresKept, Quiet, OthersKept
  <2>4. QED
    BY <2>2, <2>3
<1>3. QED
  BY <1>1, <1>2 DEF OwedOnce

\* A step that posts work.
LEMMA PostedOwed ==
    ASSUME AltTypes, OwedOnce, EntriesOwned, NEW c \in Cpus, OthersKept(c), PostsWork(c)
    PROVE  OwedOnce' /\ EntriesOwned'
<1>0. FramesOK /\ WireTypes
  BY DEF AltTypes
<1> DEFINE r == QpOf(c)'
<1>1. PICK w \in Work : /\ r \in Qps /\ w.cpu = c /\ sendcq' = sendcq
                        /\ sendq' = [sendq EXCEPT ![r] = Append(sendq[r], w)]
  <2>1. PICK op \in {"page", "read", "write", "call"}, what \in Page \cup Requests :
             /\ r \in Qps /\ Posted(c, r, op, what)
             /\ [cpu |-> c, op |-> op, what |-> what] \in Work
    BY DEF PostsWork
  <2>2. QED
    BY <2>1 DEF Posted, PostsWork
<1>2. ~Polling(c) /\ Polling(c)'
  BY DEF PostsWork, Polling
<1> HIDE DEF r
<1>3. r = QpOf(c)'
  BY DEF r
<1>4. \A q \in Qps : sendq[q] \in Seq(Work) /\ sendcq[q] \in Seq(Ending)
                     /\ sendq'[q] = IF q = r THEN Append(sendq[q], w) ELSE sendq[q]
  BY <1>0, <1>1 DEF WireTypes
<1>5. EntriesOwned'
  <2>1. ASSUME NEW q \in Qps PROVE \A x \in Elems(sendq'[q]) : x.cpu # None
    <3>1. CASE q = r
      <4>1. Elems(sendq'[q]) = Elems(sendq[q]) \cup {w}
        BY <1>4, <3>1, ElemsOfAppend
      <4>2. QED
        BY <1>1, <4>1, AltCpusAssumption DEF EntriesOwned
    <3>2. CASE q # r
      BY <1>4, <3>2 DEF EntriesOwned
    <3>3. QED
      BY <3>1, <3>2
  <2>2. QED
    BY <1>1, <2>1 DEF EntriesOwned
<1>6. ASSUME NEW d \in Cpus, NEW q \in Qps
      PROVE  Owed(d, q)' = IF Polling(d)' /\ q = QpOf(d)' THEN 1 ELSE 0
  <2> DEFINE h == Cardinality(Held(sendq[q], d))  k == Cardinality(Held(sendcq[q], d))
             hh == Cardinality(Held(sendq'[q], d))
  <2>1. h \in Nat /\ k \in Nat /\ Owed(d, q) = h + k /\ Owed(d, q)' = hh + k
    <3>1. Owed(d, q)' = Cardinality(Held(sendq'[q], d)) + Cardinality(Held(sendcq'[q], d))
      BY DEF Owed, Held
    <3>2. QED
      BY <1>0, <1>1, <3>1, OwedNat, OwedIs
  <2>2. hh = h + (IF q = r /\ d = c THEN 1 ELSE 0)
    <3>1. CASE q = r
      <4>1. hh = h + (IF w.cpu = d THEN 1 ELSE 0)
        BY <1>4, <3>1, HeldAppend
      <4>2. QED
        BY <1>1, <3>1, <4>1
    <3>2. CASE q # r
      BY <1>4, <2>1, <3>2
    <3>3. QED
      BY <3>1, <3>2
  <2>3. Owed(d, q) = IF Polling(d) /\ q = QpOf(d) THEN 1 ELSE 0
    BY DEF OwedOnce
  <2> HIDE DEF h, k, hh
  <2>4. CASE d = c
    BY <1>2, <1>3, <2>1, <2>2, <2>3, <2>4
  <2>5. CASE d # c
    <3>1. Polling(d)' = Polling(d) /\ QpOf(d)' = QpOf(d)
      BY <2>5, SamePolling DEF OthersKept
    <3>2. QED
      BY <2>1, <2>2, <2>3, <2>5, <3>1
  <2>6. QED
    BY <2>4, <2>5
<1>7. QED
  BY <1>5, <1>6 DEF OwedOnce

\* A CPU that polls a completion tells the CPU that waits for it.
LEMMA PolledOwed ==
    ASSUME AltTypes, OwedOnce, EntriesOwned, NEW c \in Cpus, PollsDone(c)
    PROVE  OwedOnce' /\ EntriesOwned' /\ \A d \in Cpus : frame'[d].pc = frame[d].pc
<1>0. FramesOK /\ WireTypes
  BY DEF AltTypes
<1> DEFINE r == QpOf(c)  w == Head(sendcq[r])
<1>1. r \in Qps /\ sendcq[r] \in Seq(Ending) /\ sendcq[r] # <<>> /\ w \in Ending
  BY PollMoves
<1>2. /\ sendcq' = [sendcq EXCEPT ![r] = Tail(sendcq[r])] /\ sendq' = sendq
      /\ \E d \in FlagOf(c, w) :
            frame' = IF d = None THEN frame ELSE [frame EXCEPT ![d].done = TRUE]
  BY DEF PollsDone
<1> HIDE DEF r, w
<1>3. w = Head(sendcq[r])
  BY DEF w
<1>4. w \in Elems(sendcq[r]) /\ Elems(sendcq[r]) = {w} \cup Elems(Tail(sendcq[r]))
      /\ Tail(sendcq[r]) \in Seq(Ending)
  BY <1>1, <1>3, HeadAndTail
<1> DEFINE e == w.cpu
<1>5. e \in Cpus /\ e # None
  BY <1>1, <1>4 DEF EntriesOwned, Ending
<1>6. frame' = [frame EXCEPT ![e].done = TRUE]
  BY <1>2, <1>5 DEF FlagOf
<1> HIDE DEF e
<1>7. /\ \A d \in Cpus : /\ frame'[d].pc = frame[d].pc /\ frame'[d].todo = frame[d].todo
                         /\ frame'[d].ctrl = frame[d].ctrl
                         /\ d # e => frame'[d].done = frame[d].done
      /\ frame'[e].done
  BY <1>0, <1>5, <1>6 DEF FramesOK, Frame
<1>8. \A q \in Qps : /\ sendq'[q] = sendq[q] /\ sendcq[q] \in Seq(Ending)
                     /\ sendcq'[q] = IF q = r THEN Tail(sendcq[q]) ELSE sendcq[q]
  BY <1>0, <1>1, <1>2 DEF WireTypes
<1>9. EntriesOwned'
  BY <1>4, <1>8 DEF EntriesOwned
<1>10. ASSUME NEW d \in Cpus, NEW q \in Qps
       PROVE  Owed(d, q)' = IF Polling(d)' /\ q = QpOf(d)' THEN 1 ELSE 0
  <2> DEFINE h == Cardinality(Held(sendq[q], d))  k == Cardinality(Held(sendcq[q], d))
             kk == Cardinality(Held(sendcq'[q], d))
  <2>1. h \in Nat /\ k \in Nat /\ kk \in Nat /\ Owed(d, q) = h + k /\ Owed(d, q)' = h + kk
    <3>1. Owed(d, q)' = Cardinality(Held(sendq'[q], d)) + Cardinality(Held(sendcq'[q], d))
      BY DEF Owed, Held
    <3>2. kk \in Nat
      BY <1>4, <1>8, HeldFinite
    <3>3. QED
      BY <1>0, <1>8, <3>1, <3>2, OwedNat, OwedIs
  <2>2. k = kk + (IF q = r /\ d = e THEN 1 ELSE 0)
    <3>1. CASE q = r
      <4>1. k = kk + (IF w.cpu = d THEN 1 ELSE 0)
        BY <1>1, <1>3, <1>8, <3>1, HeldTail
      <4>2. QED
        BY <3>1, <4>1 DEF e
    <3>2. CASE q # r
      BY <1>8, <2>1, <3>2
    <3>3. QED
      BY <3>1, <3>2
  <2>3. Owed(d, q) = IF Polling(d) /\ q = QpOf(d) THEN 1 ELSE 0
    BY DEF OwedOnce
  <2> HIDE DEF h, k, kk
  <2>4. CASE d = e
    <3>1. ~Polling(d)'
      BY <1>7, <2>4 DEF Polling
    <3>2. k = kk + (IF q = r THEN 1 ELSE 0)
      BY <2>2, <2>4
    <3>3. Owed(d, r) # 0
      <4> DEFINE hr == Cardinality(Held(sendq[r], d))  kr == Cardinality(Held(sendcq[r], d))
                 tr == Cardinality(Held(Tail(sendcq[r]), d))
      <4>1. hr \in Nat /\ kr \in Nat /\ Owed(d, r) = hr + kr /\ tr \in Nat
        BY <1>0, <1>1, <1>4, OwedNat, OwedIs, HeldFinite
      <4>2. kr = tr + 1
        BY <1>1, <1>3, <2>4, HeldTail DEF e
      <4> HIDE DEF hr, kr, tr
      <4>3. QED
        BY <4>1, <4>2
    <3>4. Polling(d) /\ r = QpOf(d)
      BY <1>1, <3>3 DEF OwedOnce
    <3>5. QED
      BY <2>1, <2>3, <3>1, <3>2, <3>4
  <2>5. CASE d # e
    <3>1. Polling(d)' = Polling(d) /\ QpOf(d)' = QpOf(d)
      BY <1>7, <2>5, SamePolling
    <3>2. QED
      BY <2>1, <2>2, <2>3, <2>5, <3>1
  <2>6. QED
    BY <2>4, <2>5
<1>11. QED
  BY <1>7, <1>9, <1>10 DEF OwedOnce

\* A queue pair that completes work moves it from one queue to the other.
LEMMA CompletedOwed ==
    ASSUME AltTypes, OwedOnce, EntriesOwned, NEW r \in Qps, Completed(r, TRUE),
           \A c \in Cpus : SameButGot(frame'[c], frame[c])
    PROVE  OwedOnce' /\ EntriesOwned'
<1>0. FramesOK /\ WireTypes
  BY DEF AltTypes
<1> DEFINE w == Head(sendq[r])  v == [cpu |-> w.cpu, ok |-> TRUE]
<1>1. /\ sendq[r] \in Seq(Work) /\ sendq[r] # <<>> /\ w \in Work
      /\ sendq' = [sendq EXCEPT ![r] = Tail(sendq[r])]
      /\ sendcq' = [sendcq EXCEPT ![r] = Append(sendcq[r], v)]
  BY DEF Completed
<1>2. v \in Ending /\ v.ok /\ v.cpu = w.cpu
  BY <1>1 DEF Work, Ending
<1> HIDE DEF w, v
<1>3. w = Head(sendq[r])
  BY DEF w
<1>4. w \in Elems(sendq[r]) /\ Elems(sendq[r]) = {w} \cup Elems(Tail(sendq[r]))
      /\ Tail(sendq[r]) \in Seq(Work)
  BY <1>1, <1>3, HeadAndTail
<1>5. \A q \in Qps : /\ sendq[q] \in Seq(Work) /\ sendcq[q] \in Seq(Ending)
                     /\ sendq'[q] = (IF q = r THEN Tail(sendq[q]) ELSE sendq[q])
                     /\ sendcq'[q] = IF q = r THEN Append(sendcq[q], v) ELSE sendcq[q]
  BY <1>0, <1>1 DEF WireTypes
<1>6. EntriesOwned'
  <2>1. ASSUME NEW q \in Qps
        PROVE  /\ \A x \in Elems(sendq'[q]) : x.cpu # None
               /\ \A x \in Elems(sendcq'[q]) : x.cpu # None /\ x.ok
    <3>1. CASE q = r
      <4>1. Elems(sendcq'[q]) = Elems(sendcq[q]) \cup {v}
        BY <1>2, <1>5, <3>1, ElemsOfAppend
      <4>2. QED
        BY <1>2, <1>4, <1>5, <3>1, <4>1 DEF EntriesOwned
    <3>2. CASE q # r
      BY <1>5, <3>2 DEF EntriesOwned
    <3>3. QED
      BY <3>1, <3>2
  <2>2. QED
    BY <2>1 DEF EntriesOwned
<1>7. ASSUME NEW d \in Cpus, NEW q \in Qps
      PROVE  Owed(d, q)' = IF Polling(d)' /\ q = QpOf(d)' THEN 1 ELSE 0
  <2> DEFINE h == Cardinality(Held(sendq[q], d))  k == Cardinality(Held(sendcq[q], d))
             hh == Cardinality(Held(sendq'[q], d))  kk == Cardinality(Held(sendcq'[q], d))
  <2>1. h \in Nat /\ k \in Nat /\ hh \in Nat /\ Owed(d, q) = h + k /\ Owed(d, q)' = hh + kk
    <3>1. Owed(d, q)' = Cardinality(Held(sendq'[q], d)) + Cardinality(Held(sendcq'[q], d))
      BY DEF Owed, Held
    <3>2. hh \in Nat
      BY <1>4, <1>5, HeldFinite
    <3>3. QED
      BY <1>0, <3>1, <3>2, OwedNat, OwedIs
  <2>2. hh + kk = h + k
    <3>1. CASE q = r
      <4>1. h = hh + (IF w.cpu = d THEN 1 ELSE 0)
        BY <1>1, <1>3, <1>5, <3>1, HeldTail
      <4>2. kk = k + (IF w.cpu = d THEN 1 ELSE 0)
        BY <1>2, <1>5, <3>1, HeldAppend
      <4> HIDE DEF h, k, hh, kk
      <4>3. QED
        BY <2>1, <4>1, <4>2
    <3>2. CASE q # r
      BY <1>5, <3>2
    <3>3. QED
      BY <3>1, <3>2
  <2>3. Polling(d)' = Polling(d) /\ QpOf(d)' = QpOf(d)
    BY SamePolling DEF SameButGot
  <2>4. QED
    BY <2>1, <2>2, <2>3 DEF OwedOnce
<1>8. QED
  BY <1>6, <1>7 DEF OwedOnce

\* A CPU whose own completion came leaves nothing behind.
LEMMA LeavesNothing ==
    ASSUME AltTypes, OwedOnce, NEW c \in Cpus, Leaves(c)
    PROVE  WiresKept(c)
<1>0. FramesOK /\ WireTypes
  BY DEF AltTypes
<1> DEFINE r == QpOf(c)
<1>1. r \in Qps /\ ~Polling(c)
  BY <1>0, PolledQp DEF Leaves, StopsPolling, Polling
<1>2. sendq[r] \in Seq(Work) /\ sendcq[r] \in Seq(Ending)
  BY <1>0, <1>1 DEF WireTypes
<1> HIDE DEF r
<1>3. Held(sendq[r], c) = {} /\ Held(sendcq[r], c) = {}
  <2>1. Owed(c, r) = 0
    BY <1>1 DEF OwedOnce
  <2>2. Cardinality(Held(sendq[r], c)) = 0 /\ Cardinality(Held(sendcq[r], c)) = 0
    BY <1>0, <1>1, <2>1, OwedNat, OwedIs
  <2>3. QED
    BY <1>2, <2>2, HeldFinite, FS_EmptySet
<1>4. Disowned(c, sendq[r]) = sendq[r] /\ Disowned(c, sendcq[r]) = sendcq[r]
  <2>1. \A i \in DOMAIN sendq[r] : sendq[r][i].cpu # c
    BY <1>3 DEF Held
  <2>2. \A i \in DOMAIN sendcq[r] : sendcq[r][i].cpu # c
    BY <1>3 DEF Held
  <2>3. Disowned(c, sendq[r]) = sendq[r]
    BY <1>2, <2>1 DEF Disowned
  <2>4. Disowned(c, sendcq[r]) = sendcq[r]
    BY <1>2, <2>2 DEF Disowned
  <2>5. QED
    BY <2>3, <2>4
<1>5. UNCHANGED <<sendq, sendcq>>
  BY <1>0, <1>4 DEF Leaves, StopsPolling, WireTypes, r
<1>6. QED
  BY <1>1, <1>5 DEF WiresKept, Quiet, Leaves

LEMMA CpuOwed ==
    ASSUME AltTypes, OwedOnce, EntriesOwned, NEW c \in Cpus, CpuStep(c)
    PROVE  OwedOnce' /\ EntriesOwned'
<1>1. FramesOK /\ KernelTypes
  BY DEF AltTypes
<1>2. ~GivesUp(c)
  BY NoError DEF GivesUp
<1>3. QED
  BY <1>1, <1>2, CpuWires, KeptOwed, PostedOwed, PolledOwed, LeavesNothing DEF WireStep

LEMMA NoSendFails ==
    ASSUME AltTypes, EntriesOwned, NoneRefused, NEW c \in Cpus
    PROVE  ~SendFails(c)
BY NoError DEF SendFails, NoneRefused

\* How a step of a CPU changes who holds the lock.
LockStep(c) ==
    \/ spin' = spin /\ (frame'[c].pc \in LockPcs => frame[c].pc \in LockPcs)
    \/ spin = None /\ spin' = c
    \/ spin' = None /\ frame[c].pc \in LockPcs /\ frame'[c].pc \notin LockPcs

LEMMA LockKept ==
    ASSUME LockHeld, NEW c \in Cpus, OthersKept(c), LockStep(c)
    PROVE  LockHeld'
<1> SUFFICES ASSUME NEW d \in Cpus, frame'[d].pc \in LockPcs PROVE spin' = d
  BY DEF LockHeld
<1>1. d # c => frame[d].pc \in LockPcs /\ spin = d /\ d # None
  BY AltCpusAssumption DEF OthersKept, LockHeld
<1>2. frame[c].pc \in LockPcs => spin = c
  BY DEF LockHeld
<1>3. QED
  BY <1>1, <1>2 DEF LockStep

LEMMA CpuLocks ==
    ASSUME AltTypes, EntriesOwned, NoneRefused, NEW c \in Cpus, CpuStep(c), ~PollsDone(c)
    PROVE  LockStep(c)
<1>0. FramesOK /\ KernelTypes
  BY DEF AltTypes
<1> USE DEF LockStep
<1>1. CASE KernelCalls(c)
  <2>1. spin' = spin
    BY <1>1 DEF KernelCalls, OwnStep, StoreBegin, StoreUnmapped, LoadBegin, ctrlVars
  <2>2. ASSUME Begins(c) PROVE frame'[c].pc \notin LockPcs
    BY <1>0, <2>2, BeginFields DEF LockPcs
  <2>3. QED
    BY <1>0, <1>1, <2>1, <2>2, CallBegins
<1>2. CASE RpcLoop(c)
  <2>1. TakeLock(c) => spin = None /\ spin' = c
    BY DEF TakeLock, CanLock
  <2>2. OpenSkip(c) \/ PostCall(c) => spin' = spin /\ frame[c].pc \in LockPcs
    BY DEF OpenSkip, PostCall, ctrlVars, At, LockPcs
  <2>3. CallAnswered(c) \/ CallFails(c) => spin' = spin /\ frame[c].pc \in LockPcs
    BY DEF CallAnswered, CallFails, CallEnds, LockPcs
  <2>4. OldAnswer(c) => spin' = spin /\ frame[c].pc \in LockPcs
    BY DEF OldAnswer, ctrlVars, LockPcs
  <2>5. QED
    BY <1>2, <2>1, <2>2, <2>3, <2>4 DEF RpcLoop
<1>3. ASSUME Return(c) PROVE frame'[c].pc \notin LockPcs
  BY <1>0, <1>3, ReturnFields DEF LockPcs
<1>4. ASSUME NEW l, NEW q, NEW e, NEW d, Moves(c, l, q, e, d) PROVE frame'[c].pc = l
  BY <1>0, <1>4, MoveFields
<1>5. CASE Unlocks(c)
  <2>1. frame[c].pc \in LockPcs
    BY <1>5 DEF Unlocks, OpenEnds, CheckBatch, CommitEnds, At, LockPcs
  <2>2. ASSUME OpenEnds(c) PROVE spin' = spin \/ (spin' = None /\ frame'[c].pc \notin LockPcs)
    BY <1>3, <2>2 DEF OpenEnds, StoreResult
  <2>3. ASSUME CheckBatch(c) PROVE spin' = spin \/ (spin' = None /\ frame'[c].pc \notin LockPcs)
    <3>1. \/ spin' = spin
          \/ /\ spin' = None
             /\ \/ frame' = [frame EXCEPT ![c].pc = "mark"]
                \/ frame' = [frame EXCEPT ![c].pc = "write", ![c].todo = CtrlOrder]
      BY <2>3 DEF CheckBatch
    <3>2. \/ spin' = spin
          \/ /\ spin' = None
             /\ \/ Moves(c, "mark", frame[c].todo, frame[c].err, frame[c].done)
                \/ Moves(c, "write", CtrlOrder, frame[c].err, frame[c].done)
      BY <1>0, <3>1, MoveForms
    <3>3. QED
      BY <1>4, <3>2 DEF LockPcs
  <2>4. ASSUME CommitEnds(c) PROVE spin' = None /\ frame'[c].pc \notin LockPcs
    <3>1. spin' = None /\ \/ Return(c)
                          \/ Moves(c, "mark", frame[c].todo, frame[c].err, frame[c].done)
                          \/ Moves(c, "load", frame[c].todo, frame[c].err, frame[c].done)
      BY <1>0, <2>4, UnlockMoves DEF CommitEnds
    <3>2. QED
      BY <1>3, <1>4, <3>1 DEF LockPcs
  <2>5. QED
    BY <1>5, <2>1, <2>2, <2>3, <2>4 DEF Unlocks
<1>6. CASE Sends(c)
  <2>1. ~SendFails(c)
    BY NoSendFails
  <2>2. spin' = spin
    BY <1>6, <2>1 DEF Sends, MarkPage, PostPage, PostFails, CountPage, ctrlVars
  <2>3. \/ Return(c)
        \/ \E l \in {"post", "refused"} : Moves(c, l, frame[c].todo, frame[c].err, frame[c].done)
        \/ Moves(c, "send", frame[c].todo, frame[c].err, FALSE)
    BY <1>0, <1>6, SendMoves DEF Sends
  <2>4. frame'[c].pc \notin LockPcs
    BY <1>3, <1>4, <2>3 DEF LockPcs
  <2>5. QED
    BY <2>2, <2>4
<1>7. CASE Writes(c)
  <2>1. spin' = spin
    BY <1>7 DEF Writes, PostWrite, PostRdma, WriteDone, WriteFails, AllWritten, ctrlVars
  <2>2. PostWrite(c) => frame'[c].pc \notin LockPcs
    BY <1>0, <1>4, SendMoves DEF LockPcs
  <2>3. ASSUME WriteDone(c) \/ WriteFails(c) PROVE frame'[c].pc \notin LockPcs
    <3>1. PICK err \in BOOLEAN : Moves(c, "write", Tail(frame[c].todo), err, frame[c].done)
      BY <1>0, <2>3, SendMoves
    <3>2. QED
      BY <1>4, <3>1 DEF LockPcs
  <2>4. AllWritten(c) => frame'[c].pc \notin LockPcs
    BY <1>0, <1>3, SendMoves
  <2>5. QED
    BY <1>7, <2>1, <2>2, <2>3, <2>4 DEF Writes
<1>8. CASE Loads(c)
  <2>1. spin' = spin
    BY <1>8 DEF Loads, LoadOverdue, PostRead, PostRdma, PageRead, ReadFails, LoadDone, ctrlVars
  <2>2. LoadOverdue(c) \/ PageRead(c) => frame'[c].pc \notin LockPcs
    BY <1>0, <1>4, LoadMoves DEF LockPcs
  <2>3. PostRead(c) => frame'[c].pc \notin LockPcs
    BY <1>0, <1>4, LoadMoves DEF LockPcs
  <2>4. ReadFails(c) \/ LoadDone(c) => frame'[c].pc \notin LockPcs
    BY <1>0, <1>3, LoadMoves
  <2>5. QED
    BY <1>8, <2>1, <2>2, <2>3, <2>4 DEF Loads
<1>9. QED
  BY <1>1, <1>2, <1>5, <1>6, <1>7, <1>8, CpuCases

CleanInv == AltTypes /\ (~failed => Clean)

LEMMA CleanInit == AltInit => CleanInv
<1> SUFFICES ASSUME AltInit PROVE Clean
  BY AltTypesInit DEF CleanInv
<1>0. AltTypes
  BY AltTypesInit
<1>1. \A q \in Qps : sendq[q] = <<>> /\ sendcq[q] = <<>>
  BY DEF AltInit
<1>2. \A c \in Cpus : frame[c].pc = "idle"
  BY DEF AltInit, IdleFrame
<1>3. EntriesOwned
  BY <1>1 DEF EntriesOwned, Elems
<1>4. OwedOnce
  <2>1. \A c, q : q \in Qps => Held(sendq[q], c) = {} /\ Held(sendcq[q], c) = {}
    BY <1>1 DEF Held
  <2>2. \A c \in Cpus, q \in Qps : Owed(c, q) = 0
    BY <2>1, FS_EmptySet, OwedIs
  <2>3. \A c \in Cpus : ~Polling(c)
    BY <1>2 DEF Polling, PollsAt
  <2>4. QED
    BY <2>2, <2>3 DEF OwedOnce
<1>5. LockHeld
  BY <1>2 DEF LockHeld, LockPcs
<1>6. QED
  BY <1>2, <1>3, <1>4, <1>5 DEF Clean, NoneRefused, At

LEMMA NoneIsRefused ==
    ASSUME FramesOK, KernelTypes, CtrlTypes, NoneRefused, NEW c \in Cpus, CpuStep(c), ~PollsDone(c),
           ~PostFails(c), OthersKept(c)
    PROVE  NoneRefused'
<1> SUFFICES frame'[c].pc # "refused"
  BY DEF NoneRefused, At, OthersKept
<1>1. frame[c].pc # "refused"
  BY DEF NoneRefused, At
<1>2. frame' = frame => frame'[c].pc # "refused"
  BY <1>1
<1>3. Return(c) => frame'[c].pc # "refused"
  BY ReturnFields
<1>4. ASSUME NEW l, NEW q, NEW e, NEW d, Moves(c, l, q, e, d), l # "refused"
      PROVE  frame'[c].pc # "refused"
  BY <1>4, MoveFields
<1>5. CASE KernelCalls(c)
  BY <1>2, <1>5, CallBegins, BeginFields
<1>6. CASE RpcLoop(c)
  BY <1>2, <1>4, <1>6, RpcMoves DEF RpcLoop
<1>7. CASE Unlocks(c)
  BY <1>3, <1>4, <1>7, UnlockMoves DEF Unlocks
<1>8. CASE Sends(c)
  BY <1>3, <1>4, <1>8, SendMoves DEF Sends
<1>9. CASE Writes(c)
  BY <1>3, <1>4, <1>9, SendMoves DEF Writes
<1>10. CASE Loads(c)
  BY <1>3, <1>4, <1>10, LoadMoves DEF Loads
<1>11. QED
  BY <1>5, <1>6, <1>7, <1>8, <1>9, <1>10, CpuCases

LEMMA CleanStep == CleanInv /\ [AltNext]_altVars => CleanInv'
<1> SUFFICES ASSUME AltTypes, ~failed => Clean, [AltNext]_altVars, ~failed' PROVE Clean'
  BY AltTypesStep DEF CleanInv
<1>0. FramesOK /\ KernelTypes /\ WireTypes /\ CtrlTypes
  BY DEF AltTypes
<1>1. ASSUME NEW c \in Cpus, CpuStep(c) PROVE Clean'
  <2>0. ~PostFails(c)
    BY DEF PostFails
  <2>1. failed' = failed
    BY <1>1, <2>0 DEF CpuStep, OwnStep, StoreBegin, StoreUnmapped, LoadBegin, TakeLock, OpenSkip, PostCall,
       CallAnswered, CallFails, CallEnds, OldAnswer, OpenEnds, CheckBatch, CommitEnds, MarkPage, PostPage, SendFails,
       CountPage, PostWrite, PostRdma, WriteDone, WriteFails, AllWritten, LoadOverdue, PostRead,
       PageRead, ReadFails, LoadDone, PollsDone, historyOfCalls
  <2>2. Clean
    BY <2>1
  <2>3. OwedOnce' /\ EntriesOwned'
    BY <1>1, <2>2, CpuOwed DEF Clean
  <2>4. CASE PollsDone(c)
    <3>1. spin' = spin /\ \A d \in Cpus : frame'[d].pc = frame[d].pc
      BY <2>2, <2>4, PolledOwed DEF PollsDone, ctrlVars, Clean
    <3>2. LockHeld' /\ NoneRefused'
      BY <2>2, <3>1 DEF Clean, LockHeld, NoneRefused, At
    <3>3. QED
      BY <2>3, <3>2 DEF Clean
  <2>5. CASE ~PollsDone(c)
    <3>1. OthersKept(c)
      BY <1>0, <1>1, <2>5, CpuWires DEF WireStep, AltTypes
    <3>2. LockHeld'
      BY <1>1, <2>2, <2>5, <3>1, CpuLocks, LockKept DEF Clean
    <3>3. NoneRefused'
      BY <1>0, <1>1, <2>0, <2>2, <2>5, <3>1, NoneIsRefused DEF Clean
    <3>4. QED
      BY <2>3, <3>2, <3>3 DEF Clean
  <2>6. QED
    BY <2>4, <2>5
<1>2. ASSUME NEW q \in Qps, Executes(q) PROVE Clean'
  <2>1. \A c \in Cpus : SameButGot(frame'[c], frame[c])
    BY <1>2, WorkFrames
  <2>2. ASSUME NEW op, NEW ok \in BOOLEAN, Completes(q, op, ok) PROVE Clean'
    <3>0. Completed(q, ok)
      BY <1>0, <2>2, WorkCompletes
    <3>1. ok /\ ~failed
      BY <3>0 DEF Completed
    <3>2. OwedOnce' /\ EntriesOwned'
      <4>1. Completed(q, TRUE)
        BY <2>2, <3>0, <3>1
      <4>2. QED
        BY <2>1, <3>1, <4>1, CompletedOwed DEF Clean
    <3>3. LockHeld' /\ NoneRefused'
      BY <2>1, <3>0, <3>1 DEF Clean, LockHeld, NoneRefused, At, Completed, ctrlVars, SameButGot
    <3>4. QED
      BY <3>2, <3>3 DEF Clean
  <2>3. QED
    BY <1>2, <2>2 DEF Executes, SendsPage, WorkFails, SendsCall, ReadsPage, WritesPage
<1>3. ASSUME UNCHANGED <<frame, sendq, sendcq, spin, failed>> PROVE Clean'
  <2>1. Clean
    BY <1>3
  <2>2. EntriesOwned' /\ LockHeld' /\ NoneRefused'
    BY <1>3, <2>1 DEF Clean, EntriesOwned, LockHeld, NoneRefused, At
  <2>3. \A c \in Cpus : Polling(c)' = Polling(c) /\ QpOf(c)' = QpOf(c)
    BY <1>3, SamePolling
  <2>4. \A c \in Cpus, q \in Qps : Owed(c, q)' = Owed(c, q)
    BY <1>3 DEF Owed
  <2>5. OwedOnce'
    BY <2>1, <2>3, <2>4 DEF Clean, OwedOnce
  <2>6. QED
    BY <2>2, <2>5 DEF Clean
<1>4. ASSUME NEW s \in Servers, Deliver(s) \/ ServerRuns(s) PROVE Clean'
  BY <1>3, <1>4 DEF Deliver, ServerRuns, ctrlVars, wireVars, historyOfCalls
<1>5. CASE UNCHANGED altVars
  BY <1>3, <1>5 DEF altVars, ctrlVars, wireVars, historyOfCalls
<1>6. QED
  BY <1>1, <1>2, <1>4, <1>5 DEF AltNext

\* Until a send fails, what a CPU posts, and the completion another CPU may poll for it,
\* are one at a time and its own (the polling loops of drive/ib.c and drive/cib.c).
THEOREM CompletionsReachTheirOwners == AltSpec => []CompletionsReachOwners
<1>1. AltSpec => []CleanInv
  BY CleanInit, CleanStep, PTL DEF AltSpec
<1>2. CleanInv => CompletionsReachOwners
  BY DEF CleanInv, Clean, OwedOnce, CompletionsReachOwners
<1>3. QED
  BY <1>1, <1>2, PTL

\* Until a send fails, one CPU at a time calls the servers: SendFails is the only step
\* that lets go of a lock its CPU does not hold (out_error of drive/ib.c).
THEOREM CallsAreOneAtATime == AltSpec => []CallsOneAtATime
<1>1. AltSpec => []CleanInv
  BY CleanInit, CleanStep, PTL DEF AltSpec
<1>2. CleanInv => CallsOneAtATime
  BY DEF CleanInv, Clean, LockHeld, LockPcs, CallsOneAtATime
<1>3. QED
  BY <1>1, <1>2, PTL

----------------------------------------------------------------------------
(* A batch, and what is let past its check. *)

LEMMA UncountedFinite ==
    /\ IsFiniteSet(Cpus) /\ Cardinality(Cpus) \in Nat
    /\ \A S : S \subseteq Cpus => /\ IsFiniteSet(S) /\ Cardinality(S) \in Nat
                                  /\ Cardinality(S) <= Cardinality(Cpus)
BY AltCpusAssumption, FS_Subset, FS_CardinalityType

\* How a step of a CPU changes the batch: it counts a page that was let through, or lets
\* one through with less than a batch counted.
BatchStep(c) ==
    \/ batch' = batch /\ Uncounted' \subseteq Uncounted
    \/ batch' < DRIVER_BATCH
    \/ batch' = batch + 1 /\ c \in Uncounted /\ Uncounted' \subseteq Uncounted \ {c}

LEMMA BatchKept ==
    ASSUME AltTypes, AltTypes', BatchOvershoot, NEW c \in Cpus, BatchStep(c)
    PROVE  BatchOvershoot'
<1> DEFINE u == Cardinality(Uncounted)  uu == Cardinality(Uncounted')  n == Cardinality(Cpus)
<1>1. Uncounted \subseteq Cpus /\ Uncounted' \subseteq Cpus
  BY DEF Uncounted
<1>2. u \in Nat /\ uu \in Nat /\ n \in Nat /\ uu <= n /\ IsFiniteSet(Uncounted)
  BY <1>1, UncountedFinite
<1>3. batch \in Nat /\ batch' \in Nat
  BY DEF AltTypes, CtrlTypes
<1>4. batch + u < DRIVER_BATCH + n
  BY DEF BatchOvershoot
<1>5. batch' + uu < DRIVER_BATCH + n
  <2>1. CASE batch' = batch /\ Uncounted' \subseteq Uncounted
    <3>1. uu <= u
      BY <1>2, <2>1, FS_Subset
    <3> HIDE DEF u, uu, n
    <3>2. QED
      BY <1>2, <1>3, <1>4, <2>1, <3>1, AltBatchAssumption
  <2>2. CASE batch' < DRIVER_BATCH
    <3> HIDE DEF u, uu, n
    <3>1. DRIVER_BATCH \in Nat /\ batch' \in Nat /\ uu \in Nat /\ n \in Nat /\ uu <= n
      BY <1>2, <1>3, AltBatchAssumption
    <3>2. \A b, d, v, m \in Nat : b < d /\ v <= m => b + v < d + m
      OBVIOUS
    <3>3. QED
      BY <2>2, <3>1, <3>2
  <2>3. CASE batch' = batch + 1 /\ c \in Uncounted /\ Uncounted' \subseteq Uncounted \ {c}
    <3>1. IsFiniteSet(Uncounted \ {c}) /\ Cardinality(Uncounted \ {c}) = u - 1
      BY <1>2, <2>3, FS_RemoveElement
    <3>2. uu <= u - 1
      BY <2>3, <3>1, FS_Subset
    <3> HIDE DEF u, uu, n
    <3>3. QED
      BY <1>2, <1>3, <1>4, <2>3, <3>2, AltBatchAssumption
  <2>4. QED
    BY <2>1, <2>2, <2>3 DEF BatchStep
<1>6. QED
  BY <1>5 DEF BatchOvershoot

\* A CPU that is not let through, as no other is.
LEMMA NotLetThrough ==
    ASSUME FramesOK, NEW c \in Cpus, OthersKept(c),
           frame'[c].pc \notin {"mark", "post", "send"} \/ c \in Uncounted
    PROVE  Uncounted' \subseteq Uncounted
BY DEF Uncounted, OthersKept

LEMMA CpuBatch ==
    ASSUME AltTypes, AltTypes', NEW c \in Cpus, CpuStep(c)
    PROVE  BatchStep(c)
<1>0. FramesOK /\ KernelTypes /\ CtrlTypes
  BY DEF AltTypes
<1>1. CASE PollsDone(c)
  <2>1. \A d \in Cpus : frame'[d].pc = frame[d].pc
    <3>1. frame' = frame \/ \E d \in Cpus : frame' = [frame EXCEPT ![d].done = TRUE]
      BY <1>1, PollMoves
    <3>2. ASSUME NEW d \in Cpus, frame' = [frame EXCEPT ![d].done = TRUE]
          PROVE  \A x \in Cpus : frame'[x].pc = frame[x].pc
      BY <1>0, <3>2 DEF FramesOK, Frame
    <3>3. QED
      BY <3>1, <3>2
  <2>2. QED
    BY <1>1, <2>1 DEF BatchStep, Uncounted, PollsDone, ctrlVars
<1>2. CASE ~PollsDone(c)
  <2>1. OthersKept(c)
    BY <1>0, <1>2, CpuWires DEF WireStep
  <2>2. ASSUME Return(c) PROVE frame'[c].pc \notin {"mark", "post", "send"}
    BY <1>0, <2>2, ReturnFields
  <2>3. ASSUME NEW l, NEW q, NEW e, NEW d, Moves(c, l, q, e, d) PROVE frame'[c].pc = l
    BY <1>0, <2>3, MoveFields
  <2>4. ASSUME batch' = batch, frame'[c].pc \notin {"mark", "post", "send"} PROVE BatchStep(c)
    BY <1>0, <2>1, <2>4, NotLetThrough DEF BatchStep
  <2>5. CASE KernelCalls(c)
    <3>1. batch' = batch
      BY <2>5 DEF KernelCalls, OwnStep, StoreBegin, StoreUnmapped, LoadBegin, ctrlVars
    <3>2. CASE frame' = frame
      BY <3>1, <3>2 DEF BatchStep, Uncounted
    <3>3. CASE Begins(c)
      BY <1>0, <2>4, <3>1, <3>3, BeginFields
    <3>4. QED
      BY <1>0, <2>5, <3>2, <3>3, CallBegins
  <2>6. CASE RpcLoop(c)
    <3>1. batch' = batch
      BY <2>6 DEF RpcLoop, TakeLock, OpenSkip, PostCall, CallAnswered, CallFails, CallEnds, OldAnswer,
                  ctrlVars
    <3>2. CASE OldAnswer(c)
      BY <3>1, <3>2 DEF OldAnswer, BatchStep, Uncounted
    <3>3. CASE TakeLock(c)
      BY <1>0, <2>3, <2>4, <3>1, <3>3, RpcMoves
    <3>4. CASE OpenSkip(c)
      <4>1. Moves(c, "open", Tail(frame[c].todo), frame[c].err, frame[c].done)
        BY <1>0, <3>4, RpcMoves
      <4>2. QED
        BY <2>3, <2>4, <3>1, <4>1
    <3>5. CASE PostCall(c)
      <4>1. \/ Moves(c, "opening", frame[c].todo, frame[c].err, FALSE)
            \/ Moves(c, "committing", frame[c].todo, frame[c].err, FALSE)
        BY <1>0, <3>5, RpcMoves
      <4>2. QED
        BY <2>3, <2>4, <3>1, <4>1
    <3>6. CASE CallAnswered(c) \/ CallFails(c)
      <4>1. PICK ok \in BOOLEAN :
                \/ Moves(c, "open", Tail(frame[c].todo), ~ok \/ frame[c].err, frame[c].done)
                \/ Moves(c, "commit", Tail(frame[c].todo), ~ok, frame[c].done)
        BY <1>0, <3>6, RpcMoves
      <4>2. QED
        BY <2>3, <2>4, <3>1, <4>1
    <3>7. QED
      BY <2>6, <3>2, <3>3, <3>4, <3>5, <3>6 DEF RpcLoop
  <2>7. CASE OpenEnds(c)
    <3>1. batch' = batch
      BY <2>7 DEF OpenEnds
    <3>2. QED
      BY <1>0, <2>2, <2>3, <2>4, <2>7, <3>1, UnlockMoves
  <2>8. CASE CheckBatch(c)
    <3>1. batch' = batch
      BY <2>8 DEF CheckBatch
    <3>2. CASE loaded = "ib" /\ ~(batch >= DRIVER_BATCH)
      BY <1>0, <3>1, <3>2, AltBatchAssumption DEF BatchStep, CtrlTypes
    <3>3. CASE ~(loaded = "ib" /\ ~(batch >= DRIVER_BATCH))
      <4>1. \/ StartCommit(c)
            \/ frame' = [frame EXCEPT ![c].pc = "write", ![c].todo = CtrlOrder]
        BY <2>8, <3>3 DEF CheckBatch
      <4>2. \/ Moves(c, "commit", AliveOrder, FALSE, frame[c].done)
            \/ Moves(c, "write", CtrlOrder, frame[c].err, frame[c].done)
        BY <1>0, <4>1, MoveForms DEF StartCommit
      <4>3. QED
        BY <2>3, <2>4, <3>1, <4>2
    <3>4. QED
      BY <3>2, <3>3
  <2>9. CASE CommitEnds(c)
    BY <2>9, AltBatchAssumption DEF CommitEnds, BatchAfter, BatchStep
  <2>10. CASE MarkPage(c) \/ PostPage(c) \/ PostFails(c)
    <3>1. batch' = batch /\ c \in Uncounted
      BY <2>10 DEF MarkPage, PostPage, PostFails, At, Uncounted, ctrlVars
    <3>2. QED
      BY <1>0, <2>1, <3>1, NotLetThrough DEF BatchStep
  <2>11. CASE SendFails(c)
    BY <1>0, <2>2, <2>4, <2>11, SendMoves DEF SendFails
  <2>12. CASE CountPage(c)
    <3>1. batch' = batch + 1 /\ c \in Uncounted
      BY <2>12 DEF CountPage, Counted, At, Uncounted
    <3>2. frame'[c].pc \notin {"mark", "post", "send"}
      BY <1>0, <2>2, <2>12, SendMoves
    <3>3. Uncounted' \subseteq Uncounted \ {c}
      BY <2>1, <3>2 DEF Uncounted, OthersKept
    <3>4. QED
      BY <3>1, <3>3 DEF BatchStep
  <2>13. CASE Writes(c)
    <3>1. batch' = batch
      BY <2>13 DEF Writes, PostWrite, PostRdma, WriteDone, WriteFails, AllWritten, ctrlVars
    <3>2. CASE PostWrite(c)
      BY <1>0, <2>3, <2>4, <3>1, <3>2, SendMoves
    <3>3. CASE WriteDone(c) \/ WriteFails(c)
      <4>1. PICK err \in BOOLEAN : Moves(c, "write", Tail(frame[c].todo), err, frame[c].done)
        BY <1>0, <3>3, SendMoves
      <4>2. QED
        BY <2>3, <2>4, <3>1, <4>1
    <3>4. CASE AllWritten(c)
      BY <1>0, <2>2, <2>4, <3>1, <3>4, SendMoves
    <3>5. QED
      BY <2>13, <3>2, <3>3, <3>4 DEF Writes
  <2>14. CASE Loads(c)
    <3>1. batch' = batch
      BY <2>14 DEF Loads, LoadOverdue, PostRead, PostRdma, PageRead, ReadFails, LoadDone, ctrlVars
    <3>2. CASE LoadOverdue(c) \/ PageRead(c) \/ PostRead(c)
      BY <1>0, <2>3, <2>4, <3>1, <3>2, LoadMoves
    <3>3. CASE ReadFails(c) \/ LoadDone(c)
      BY <1>0, <2>2, <2>4, <3>1, <3>3, LoadMoves
    <3>4. QED
      BY <2>14, <3>2, <3>3 DEF Loads
  <2>15. QED
    BY <1>2, <2>5, <2>6, <2>7, <2>8, <2>9, <2>10, <2>11, <2>12, <2>13, <2>14, CpuCases
       DEF Unlocks, Sends
<1>3. QED
  BY <1>1, <1>2

\* However many CPUs pass the check of a batch at once, the batch exceeds CONFIG_BATCH
\* by less than there are CPUs (maruswap_multicast_write of drive/ib.c).
THEOREM BatchOvershootIsBounded == AltSpec => []BatchOvershoot
<1>1. AltInit => BatchOvershoot
  <2> SUFFICES ASSUME AltInit PROVE BatchOvershoot
    OBVIOUS
  <2>1. batch = 0 /\ Uncounted = {}
    BY DEF AltInit, IdleFrame, Uncounted
  <2>2. QED
    BY <2>1, FS_EmptySet, UncountedFinite, AltBatchAssumption DEF BatchOvershoot
<1>2. AltTypes /\ AltTypes' /\ BatchOvershoot /\ [AltNext]_altVars => BatchOvershoot'
  <2> SUFFICES ASSUME AltTypes, AltTypes', BatchOvershoot, [AltNext]_altVars PROVE BatchOvershoot'
    OBVIOUS
  <2>1. ASSUME NEW c \in Cpus, CpuStep(c) PROVE BatchOvershoot'
    BY <2>1, CpuBatch, BatchKept
  <2>2. ASSUME batch' = batch, \A c \in Cpus : frame'[c].pc = frame[c].pc PROVE BatchOvershoot'
    BY <2>2 DEF BatchOvershoot, Uncounted
  <2>3. ASSUME NEW q \in Qps, Executes(q) PROVE BatchOvershoot'
    <3>1. \A c \in Cpus : frame'[c].pc = frame[c].pc
      BY <2>3, WorkFrames DEF SameButGot
    <3>2. batch' = batch
      BY <2>3 DEF Executes, SendsPage, WorkFails, SendsCall, ReadsPage, WritesPage, Completes, ctrlVars
    <3>3. QED
      BY <2>2, <3>1, <3>2
  <2>4. ASSUME NEW s \in Servers, Deliver(s) \/ ServerRuns(s) PROVE BatchOvershoot'
    BY <2>2, <2>4 DEF Deliver, ServerRuns, ctrlVars
  <2>5. CASE UNCHANGED altVars
    BY <2>2, <2>5 DEF altVars, ctrlVars
  <2>6. QED
    BY <2>1, <2>3, <2>4, <2>5 DEF AltNext
<1>3. QED
  BY <1>1, <1>2, AltTypesInit, AltTypesStep, PTL DEF AltSpec

----------------------------------------------------------------------------
(* One call at a time works on an offset, and read_list names the loads that read. *)

OneEach ==
    \A c, d \in Cpus : ~At(c, "idle") /\ ~At(d, "idle") /\ frame[c].page.off = frame[d].page.off
                         => c = d

ReadsMarked == \A o \in readList : \E d \in Cpus : At(d, "loaded") /\ frame[d].page.off = o

SentInv == AltTypes /\ OneEach /\ ReadsMarked

\* A step keeps the page of a call, ends the call, or starts one on an offset of its own.
CallStep(c) ==
    \/ frame'[c].pc = "idle"
    \/ ~At(c, "idle") /\ frame'[c].page = frame[c].page
    \/ At(c, "idle") /\ ~Busy(frame'[c].page.off)

LEMMA OneEachKept ==
    ASSUME OneEach, NEW c \in Cpus, OthersKept(c), CallStep(c)
    PROVE  OneEach'
<1> SUFFICES ASSUME NEW x \in Cpus, NEW y \in Cpus, frame'[x].pc # "idle", frame'[y].pc # "idle",
                    frame'[x].page.off = frame'[y].page.off
             PROVE  x = y
  BY DEF OneEach, At
<1>1. ASSUME NEW d \in Cpus, d # c, frame'[c].pc # "idle", frame'[d].pc # "idle",
             frame'[c].page.off = frame'[d].page.off
      PROVE  FALSE
  <2>1. frame'[d] = frame[d]
    BY <1>1 DEF OthersKept
  <2>2. CASE ~At(c, "idle") /\ frame'[c].page = frame[c].page
    BY <1>1, <2>1, <2>2 DEF OneEach, At
  <2>3. CASE ~Busy(frame'[c].page.off)
    BY <1>1, <2>1, <2>3 DEF Busy, At
  <2>4. QED
    BY <1>1, <2>2, <2>3 DEF CallStep
<1>2. CASE x = c \/ y = c
  BY <1>1, <1>2
<1>3. CASE x # c /\ y # c
  BY <1>3 DEF OneEach, OthersKept, At
<1>4. QED
  BY <1>2, <1>3

LEMMA CpuCalls ==
    ASSUME AltTypes, NEW c \in Cpus, CpuStep(c), ~PollsDone(c), frame' # frame
    PROVE  CallStep(c) /\ OthersKept(c)
<1>0. FramesOK /\ KernelTypes /\ CtrlTypes
  BY DEF AltTypes
<1>1. CASE Return(c)
  BY <1>0, <1>1, ReturnFields DEF CallStep
<1>2. CASE MovesOn(c)
  BY <1>0, <1>2, MoveFields DEF MovesOn, CallStep
<1>3. CASE Begins(c)
  BY <1>0, <1>3, BeginFields DEF CallStep
<1>4. QED
  BY <1>0, <1>1, <1>2, <1>3, CpuCases, CallBegins, StepMoves DEF Steps

\* A load that has read keeps its frame until it returns, and nothing else touches read_list.
LEMMA CpuMarks ==
    ASSUME AltTypes, NEW c \in Cpus, CpuStep(c)
    PROVE  \/ PageRead(c) \/ LoadDone(c)
           \/ readList' = readList /\ frame' = frame
           \/ readList' = readList /\ ~At(c, "loaded")
           \/ PollsDone(c)
<1>1. KernelCalls(c) => readList' = readList /\ (frame' = frame \/ ~At(c, "loaded"))
  <2>1. KernelCalls(c) => readList' = readList
    BY DEF KernelCalls, OwnStep, StoreBegin, StoreUnmapped, LoadBegin, ctrlVars
  <2>2. ASSUME Begins(c) PROVE ~At(c, "loaded")
    BY <2>2 DEF Begins, At
  <2>3. QED
    BY <2>1, <2>2, CallBegins DEF AltTypes
<1>2. RpcLoop(c) => readList' = readList /\ ~At(c, "loaded")
  BY DEF RpcLoop, TakeLock, OpenSkip, PostCall, CallAnswered, CallFails, CallEnds, OldAnswer, ctrlVars, At
<1>3. Unlocks(c) => readList' = readList /\ ~At(c, "loaded")
  BY DEF Unlocks, OpenEnds, CheckBatch, CommitEnds, At
<1>4. Sends(c) => readList' = readList /\ ~At(c, "loaded")
  <2>1. CountPage(c) \/ SendFails(c) => readList' = readList /\ ~At(c, "loaded")
    BY DEF SendFails, CountPage, At
  <2>2. MarkPage(c) \/ PostPage(c) \/ PostFails(c) => readList' = readList /\ ~At(c, "loaded")
    BY DEF MarkPage, PostPage, PostFails, ctrlVars, At
  <2>3. QED
    BY <2>1, <2>2 DEF Sends
<1>5. Writes(c) => readList' = readList /\ ~At(c, "loaded")
  BY DEF Writes, PostWrite, PostRdma, WriteDone, WriteFails, AllWritten, ctrlVars, At
<1>6. LoadOverdue(c) \/ PostRead(c) \/ ReadFails(c) => readList' = readList /\ ~At(c, "loaded")
  BY DEF LoadOverdue, PostRead, PostRdma, ReadFails, ctrlVars, At
<1>7. QED
  BY <1>1, <1>2, <1>3, <1>4, <1>5, <1>6, CpuCases DEF Loads

LEMMA ReadFields ==
    ASSUME FramesOK, NEW c \in Cpus, PageRead(c)
    PROVE  At(c, "read") /\ frame'[c].pc = "loaded" /\ frame'[c].page = frame[c].page
<1>1. At(c, "read") /\ Moves(c, "loaded", frame[c].todo, frame[c].err, frame[c].done)
  BY LoadMoves
<1>2. ASSUME NEW l, NEW q, NEW e, NEW d, Moves(c, l, q, e, d)
      PROVE  frame'[c].pc = l /\ frame'[c].page = frame[c].page
  BY <1>2, MoveFields
<1>3. QED
  BY <1>1, <1>2

LEMMA SentStep == SentInv /\ [AltNext]_altVars => SentInv'
<1> SUFFICES ASSUME SentInv, [AltNext]_altVars PROVE OneEach' /\ ReadsMarked'
  BY AltTypesStep DEF SentInv
<1>0. AltTypes /\ FramesOK /\ KernelTypes /\ CtrlTypes /\ OneEach /\ ReadsMarked
  BY DEF SentInv, AltTypes
<1>1. ASSUME readList' = readList,
             \A d \in Cpus : frame'[d].pc = frame[d].pc /\ frame'[d].page = frame[d].page
      PROVE  OneEach' /\ ReadsMarked'
  BY <1>0, <1>1 DEF OneEach, ReadsMarked, At
<1>2. ASSUME NEW c \in Cpus, CpuStep(c) PROVE OneEach' /\ ReadsMarked'
  <2>1. CASE PollsDone(c)
    <3>1. frame' = frame \/ \E d \in Cpus : frame' = [frame EXCEPT ![d].done = TRUE]
      BY <1>0, <2>1, PollMoves
    <3>2. ASSUME NEW d \in Cpus, frame' = [frame EXCEPT ![d].done = TRUE]
          PROVE  \A x \in Cpus : frame'[x].pc = frame[x].pc /\ frame'[x].page = frame[x].page
      BY <1>0, <3>2 DEF FramesOK, Frame
    <3>3. readList' = readList
      BY <2>1 DEF PollsDone, ctrlVars
    <3>4. QED
      BY <1>1, <3>1, <3>2, <3>3
  <2>2. CASE frame' = frame
    <3>1. readList' = readList
      <4>1. PageRead(c) \/ LoadDone(c) => frame' # frame
        <5>1. PageRead(c) => At(c, "read") /\ frame'[c].pc = "loaded"
          BY <1>0, ReadFields
        <5>2. LoadDone(c) => At(c, "loaded") /\ frame'[c].pc = "idle"
          BY <1>0, LoadMoves, ReturnFields
        <5>3. QED
          BY <5>1, <5>2 DEF At
      <4>2. PollsDone(c) => readList' = readList
        BY DEF PollsDone, ctrlVars
      <4>3. QED
        BY <1>0, <1>2, <2>2, <4>1, <4>2, CpuMarks
    <3>2. QED
      BY <1>1, <2>2, <3>1
  <2>3. CASE ~PollsDone(c) /\ frame' # frame
    <3>1. CallStep(c) /\ OthersKept(c)
      BY <1>0, <1>2, <2>3, CpuCalls
    <3>2. OneEach'
      BY <1>0, <3>1, OneEachKept
    <3>3. ReadsMarked'
      <4>1. CASE PageRead(c)
        <5>1. readList' \subseteq readList \cup {frame[c].page.off} /\ At(c, "read")
          BY <4>1 DEF PageRead, ReadMark
        <5>2. frame'[c].pc = "loaded" /\ frame'[c].page = frame[c].page
          BY <1>0, <4>1, ReadFields
        <5>3. ASSUME NEW o \in readList PROVE \E d \in Cpus : frame'[d].pc = "loaded"
                                                              /\ frame'[d].page.off = o
          <6>1. PICK d \in Cpus : At(d, "loaded") /\ frame[d].page.off = o
            BY <1>0 DEF ReadsMarked
          <6>2. d # c
            BY <5>1, <6>1 DEF At
          <6>3. QED
            BY <3>1, <6>1, <6>2 DEF OthersKept, At
        <5>4. QED
          BY <5>1, <5>2, <5>3 DEF ReadsMarked, At
      <4>2. CASE LoadDone(c)
        <5>1. readList' = readList \ {frame[c].page.off} /\ At(c, "loaded")
          BY <4>2 DEF LoadDone, Unread
        <5>2. ASSUME NEW o \in readList' PROVE \E d \in Cpus : frame'[d].pc = "loaded"
                                                               /\ frame'[d].page.off = o
          <6>1. PICK d \in Cpus : At(d, "loaded") /\ frame[d].page.off = o
            BY <1>0, <5>1 DEF ReadsMarked
          <6>2. d # c
            BY <5>1, <5>2, <6>1
          <6>3. QED
            BY <3>1, <6>1, <6>2 DEF OthersKept, At
        <5>3. QED
          BY <5>2 DEF ReadsMarked, At
      <4>3. CASE readList' = readList /\ ~At(c, "loaded")
        BY <1>0, <3>1, <4>3 DEF ReadsMarked, OthersKept, At
      <4>4. QED
        BY <1>0, <1>2, <2>3, <4>1, <4>2, <4>3, CpuMarks
    <3>4. QED
      BY <3>2, <3>3
  <2>4. QED
    BY <2>1, <2>2, <2>3
<1>3. ASSUME NEW q \in Qps, Executes(q) PROVE OneEach' /\ ReadsMarked'
  <2>1. \A c \in Cpus : frame'[c].pc = frame[c].pc /\ frame'[c].page = frame[c].page
    BY <1>0, <1>3, WorkFrames DEF SameButGot
  <2>2. readList' = readList
    BY <1>3 DEF Executes, SendsPage, WorkFails, SendsCall, ReadsPage, WritesPage, Completes, ctrlVars
  <2>3. QED
    BY <1>1, <2>1, <2>2
<1>4. ASSUME NEW s \in Servers, Deliver(s) \/ ServerRuns(s) PROVE OneEach' /\ ReadsMarked'
  BY <1>1, <1>4 DEF Deliver, ServerRuns, ctrlVars
<1>5. CASE UNCHANGED altVars
  BY <1>1, <1>5 DEF altVars, ctrlVars
<1>6. QED
  BY <1>2, <1>3, <1>4, <1>5 DEF AltNext

\* A store of drive/ib.c that succeeds has sent its page: no load has left its offset on
\* read_list.
THEOREM SuccessfulStoreIsSent == AltSpec => []StoreIsSent
<1>1. AltInit => SentInv
  <2> SUFFICES ASSUME AltInit PROVE OneEach /\ ReadsMarked
    BY AltTypesInit DEF SentInv
  <2>1. readList = {} /\ \A c \in Cpus : frame[c].pc = "idle"
    BY DEF AltInit, IdleFrame
  <2>2. QED
    BY <2>1 DEF OneEach, ReadsMarked, At
<1>2. SentInv => StoreIsSent
  <2> SUFFICES ASSUME SentInv, NEW c \in Cpus, At(c, "mark"), frame[c].page.off \in readList
               PROVE  FALSE
    BY DEF StoreIsSent
  <2>1. PICK d \in Cpus : At(d, "loaded") /\ frame[d].page.off = frame[c].page.off
    BY DEF SentInv, ReadsMarked
  <2>2. c = d
    BY <2>1 DEF SentInv, OneEach, At
  <2>3. QED
    BY <2>1, <2>2 DEF At
<1>3. AltSpec => []SentInv
  BY <1>1, SentStep, PTL DEF AltSpec
<1>4. QED
  BY <1>2, <1>3, PTL

----------------------------------------------------------------------------
(* What a queue pair holds, and the call a server works on. *)

\* Work on a queue is what its CPU polls for.
Matched == \A q \in Qps : \A w \in Elems(sendq[q]) : w = WorkOf(w.cpu)


LEMMA OwnersPoll ==
    ASSUME AltTypes, OwedOnce, EntriesOwned, NEW q \in Qps, NEW w \in Elems(sendq[q])
    PROVE  w \in Work /\ w.cpu \in Cpus /\ Polling(w.cpu) /\ QpOf(w.cpu) = q
<1>1. sendq[q] \in Seq(Work) /\ WireTypes
  BY DEF AltTypes, WireTypes
<1>2. w \in Work /\ w.cpu # None
  BY <1>1, ElemsOfSeq DEF EntriesOwned
<1>3. w.cpu \in Cpus
  BY <1>2 DEF Work
<1> DEFINE d == w.cpu
<1>4. Held(sendq[q], d) # {}
  BY DEF Held, Elems
<1> HIDE DEF d
<1>5. Cardinality(Held(sendq[q], d)) # 0
  BY <1>1, <1>4, HeldFinite, FS_EmptySet
<1>6. Owed(d, q) # 0
  <2> DEFINE h == Cardinality(Held(sendq[q], d))  k == Cardinality(Held(sendcq[q], d))
  <2>1. h \in Nat /\ k \in Nat /\ Owed(d, q) = h + k /\ h # 0
    BY <1>1, <1>5, OwedNat, OwedIs
  <2> HIDE DEF h, k
  <2>2. QED
    BY <2>1
<1>7. Polling(d) /\ QpOf(d) = q
  BY <1>3, <1>6 DEF OwedOnce, d
<1>8. QED
  BY <1>2, <1>3, <1>7 DEF d

LEMMA SameWork ==
    ASSUME NEW d, frame'[d].pc = frame[d].pc, frame'[d].page = frame[d].page
    PROVE  /\ WorkOf(d)' = WorkOf(d) /\ RequestOf(d)' = RequestOf(d)
           /\ Block(d)' = Block(d) /\ \A l : At(d, l)' = At(d, l)
BY DEF WorkOf, RequestOf, At, Block

\* A CPU that polls changes a flag, whoever's.
LEMMA PolledFields ==
    ASSUME FramesOK, NEW c \in Cpus, PollsDone(c)
    PROVE  /\ \A d \in Cpus : /\ frame'[d].pc = frame[d].pc /\ frame'[d].page = frame[d].page
                              /\ frame'[d].todo = frame[d].todo /\ frame'[d].op = frame[d].op
                              /\ frame'[d].ctrl = frame[d].ctrl /\ frame'[d].got = frame[d].got
           /\ UNCHANGED <<ctrlVars, sendq, caller, flight, historyOfCalls, serverVars>>
<1>1. UNCHANGED <<ctrlVars, sendq, caller, flight, historyOfCalls, serverVars>>
  BY DEF PollsDone
<1>2. frame' = frame \/ \E d \in Cpus \cup {None} : d # None /\ frame' = [frame EXCEPT ![d].done = TRUE]
  <2>1. \E d : frame' = IF d = None THEN frame ELSE [frame EXCEPT ![d].done = TRUE]
    BY DEF PollsDone
  <2>2. PICK d : frame' = IF d = None THEN frame ELSE [frame EXCEPT ![d].done = TRUE]
    BY <2>1
  <2>3. CASE d = None \/ d \notin Cpus
    BY <2>2, <2>3 DEF FramesOK
  <2>4. QED
    BY <2>2, <2>3
<1>3. QED
  <2>1. ASSUME NEW e \in Cpus, frame' = [frame EXCEPT ![e].done = TRUE], NEW d \in Cpus
        PROVE  /\ frame'[d].pc = frame[d].pc /\ frame'[d].page = frame[d].page
               /\ frame'[d].todo = frame[d].todo /\ frame'[d].op = frame[d].op
               /\ frame'[d].ctrl = frame[d].ctrl /\ frame'[d].got = frame[d].got
    BY <2>1 DEF FramesOK, Frame
  <2>2. QED
    BY <1>1, <1>2, <2>1

LEMMA CpuMatched ==
    ASSUME AltTypes, Clean, Matched, NEW c \in Cpus, CpuStep(c)
    PROVE  Matched'
<1>0. FramesOK /\ KernelTypes /\ WireTypes /\ OwedOnce /\ EntriesOwned
  BY DEF AltTypes, Clean
<1>1. CASE PollsDone(c)
  <2>1. \A d \in Cpus : WorkOf(d)' = WorkOf(d)
    BY <1>0, <1>1, PolledFields, SameWork
  <2>2. sendq' = sendq
    BY <1>1 DEF PollsDone
  <2>3. QED
    BY <1>0, <2>1, <2>2, OwnersPoll DEF Matched
<1>2. ASSUME NEW q \in Qps, NEW w \in Elems(sendq[q]), OthersKept(c), w.cpu # c \/ frame' = frame
      PROVE  w = WorkOf(w.cpu)'
  <2>1. w.cpu \in Cpus /\ w = WorkOf(w.cpu)
    BY <1>0, OwnersPoll DEF Matched
  <2>2. frame'[w.cpu] = frame[w.cpu]
    BY <1>2, <2>1 DEF OthersKept
  <2>3. QED
    BY <2>1, <2>2, SameWork
<1>3. CASE OthersKept(c) /\ WiresKept(c)
  <2> SUFFICES ASSUME NEW q \in Qps, NEW w \in Elems(sendq'[q]) PROVE w = WorkOf(w.cpu)'
    BY DEF Matched
  <2>1. w \in Elems(sendq[q])
    BY <1>3 DEF WiresKept
  <2>2. w.cpu # c \/ frame' = frame
    BY <1>0, <1>3, <2>1, OwnersPoll DEF WiresKept, Quiet
  <2>3. QED
    BY <1>2, <1>3, <2>1, <2>2
<1>4. CASE OthersKept(c) /\ PostsWork(c)
  <2>1. PICK r \in Qps, v \in Work : /\ v = WorkOf(c)' /\ v.cpu = c
                                     /\ sendq' = [sendq EXCEPT ![r] = Append(sendq[r], v)]
    <3>1. PICK r \in Qps, op \in {"page", "read", "write", "call"}, what \in Page \cup Requests :
             /\ Posted(c, r, op, what)
             /\ [cpu |-> c, op |-> op, what |-> what] \in Work
             /\ [cpu |-> c, op |-> op, what |-> what] = WorkOf(c)'
      BY <1>4 DEF PostsWork
    <3>2. QED
      BY <3>1 DEF Posted
  <2>2. ~Polling(c)
    BY <1>4 DEF PostsWork, Polling
  <2> SUFFICES ASSUME NEW q \in Qps, NEW w \in Elems(sendq'[q]) PROVE w = WorkOf(w.cpu)'
    BY DEF Matched
  <2>3. sendq[q] \in Seq(Work) /\ sendq[r] \in Seq(Work)
    BY <1>0 DEF WireTypes
  <2>4. w \in Elems(sendq[q]) \/ w = v
    <3>1. q = r => Elems(sendq'[q]) = Elems(sendq[q]) \cup {v}
      <4>1. q = r => sendq'[q] = Append(sendq[q], v)
        BY <1>0, <2>1 DEF WireTypes
      <4>2. QED
        BY <2>1, <2>3, <4>1, ElemsOfAppend
    <3>2. q # r => sendq'[q] = sendq[q]
      BY <1>0, <2>1 DEF WireTypes
    <3>3. QED
      BY <3>1, <3>2
  <2>5. w \in Elems(sendq[q]) => w.cpu # c
    BY <1>0, <2>2, OwnersPoll
  <2>6. QED
    BY <1>2, <1>4, <2>1, <2>4, <2>5
<1>5. ~GivesUp(c)
  BY <1>0, NoError DEF GivesUp
<1>6. QED
  BY <1>0, <1>1, <1>3, <1>4, <1>5, CpuWires, LeavesNothing DEF WireStep

LEMMA WorkMatched ==
    ASSUME AltTypes, Clean, Matched, NEW r \in Qps, NEW ok \in BOOLEAN, Completed(r, ok),
           \A c \in Cpus : SameButGot(frame'[c], frame[c])
    PROVE  Matched'
<1>0. WireTypes /\ OwedOnce /\ EntriesOwned
  BY DEF AltTypes, Clean
<1> SUFFICES ASSUME NEW q \in Qps, NEW w \in Elems(sendq'[q]) PROVE w = WorkOf(w.cpu)'
  BY DEF Matched
<1>1. w \in Elems(sendq[q])
  <2>1. Elems(Tail(sendq[r])) \subseteq Elems(sendq[r])
    BY HeadAndTail DEF Completed
  <2>2. sendq'[q] = IF q = r THEN Tail(sendq[q]) ELSE sendq[q]
    BY <1>0 DEF Completed, WireTypes
  <2>3. QED
    BY <2>1, <2>2
<1>2. w.cpu \in Cpus /\ w = WorkOf(w.cpu)
  BY <1>0, <1>1, OwnersPoll DEF Matched
<1>3. QED
  BY <1>2, SameWork DEF SameButGot

----------------------------------------------------------------------------
(* What a step of a CPU does to its call and to the batch, until a send fails. *)

Knows(c, s) == Block(c) \in rdmaInfo[s]

CommitPcs == {"commit", "committing"}

\* The steps between the lock and the count of a page.
CountedPcs == {"open", "opening", "check", "mark", "post", "send"} \cup CommitPcs

SameCall(c) == frame'[c].page = frame[c].page /\ frame'[c].op = frame[c].op
NothingSent == sendq'["mcast"] = sendq["mcast"]
SameBatch == batch' = batch /\ blurred' = blurred
SameServers == UNCHANGED <<rdmaInfo, caller, serverVars>>
Still == SameServers /\ SameBatch /\ NothingSent

Aside(c) == frame[c].pc \notin CountedPcs /\ frame'[c].pc \notin CountedPcs /\ Still

Locks(c) ==
    /\ At(c, "lock") /\ spin = None /\ SameCall(c) /\ Still
    /\ \/ frame'[c].pc = "open" /\ frame'[c].todo = AliveOrder
       \/ frame'[c].pc = "check" /\ \A s \in Servers : Knows(c, s)

StartsCommit(c) ==
    /\ At(c, "check") \/ (At(c, "overdue") /\ spin = None /\ frame[c].op = "load")
    /\ frame'[c].pc = "commit" /\ frame'[c].todo = AliveOrder /\ SameCall(c)
    /\ SameServers /\ NothingSent /\ batch' = batch
    /\ blurred' = (blurred \/ Uncounted # {} \/ batch > SERVER_BATCH)

\* In the loop that opens the block, or that commits.
InLoop(c) ==
    /\ SameCall(c) /\ Still
    /\ \/ /\ At(c, "open") /\ frame'[c].pc = "open" /\ frame[c].todo # <<>>
          /\ Knows(c, Head(frame[c].todo)) /\ frame'[c].todo = Tail(frame[c].todo)
       \/ At(c, "open") /\ frame'[c].pc = "check" /\ frame[c].todo = <<>>
       \/ /\ frame[c].todo # <<>> /\ frame'[c].todo = frame[c].todo
          /\ \/ At(c, "open") /\ frame'[c].pc = "opening"
             \/ At(c, "commit") /\ frame'[c].pc = "committing"

Hears(c) ==
    LET s == Head(frame[c].todo) IN
    /\ frame[c].todo # <<>> /\ frame'[c].todo = Tail(frame[c].todo) /\ SameCall(c)
    /\ caller[s] = c /\ TakeReply(s) /\ caller' = [caller EXCEPT ![s] = None]
    /\ SameBatch /\ NothingSent
    /\ \/ /\ At(c, "opening") /\ frame'[c].pc = "open"
          /\ rdmaInfo' = [rdmaInfo EXCEPT ![s] = @ \cup {Block(c)}]
       \/ At(c, "committing") /\ frame'[c].pc = "commit" /\ rdmaInfo' = rdmaInfo

\* The lock is let go of, the page is listed, and may be sent.
Passes(c) ==
    /\ \/ At(c, "check") /\ frame'[c].pc \in {"mark", "write"}
       \/ At(c, "mark") /\ frame'[c].pc = "post"
    /\ SameCall(c) /\ Still

EndsCommit(c) ==
    /\ At(c, "commit") /\ frame[c].todo = <<>> /\ batch' = 0 /\ blurred' = blurred
    /\ SameServers /\ NothingSent
    /\ \/ frame'[c].pc = "mark" /\ frame[c].op = "store" /\ SameCall(c)
       \/ frame'[c].pc \in {"idle", "load"}

Submits(c) ==
    /\ At(c, "post") /\ frame'[c].pc = "send" /\ SameCall(c) /\ SameServers /\ SameBatch
    /\ sendq'["mcast"] = Append(sendq["mcast"], WorkOf(c)')

Counts(c) ==
    /\ At(c, "send") /\ frame'[c].pc = "idle" /\ batch' = batch + 1 /\ blurred' = blurred
    /\ SameServers /\ NothingSent

\* The store ends without a page sent.
Ends(c) == frame[c].pc \in {"open", "mark"} /\ frame'[c].pc = "idle" /\ Still

Form(c) ==
    \/ Aside(c) \/ Locks(c) \/ StartsCommit(c) \/ InLoop(c) \/ Hears(c) \/ Passes(c)
    \/ EndsCommit(c) \/ Submits(c) \/ Counts(c) \/ Ends(c)

\* A CPU that does not send polls the queue pair of a server.
LEMMA PollsServer ==
    ASSUME FramesOK', NEW c \in Cpus, Polling(c)', frame'[c].pc # "send"
    PROVE  QpOf(c)' \in Servers
<1>1. frame'[c].pc \in {"opening", "committing", "writing", "read"}
  BY DEF Polling, PollsAt
<1>2. frame'[c] \in Frame /\ FrameOK(frame'[c])
  BY DEF FramesOK
<1>3. frame'[c].pc = "read" => frame'[c].ctrl \in Servers
  BY <1>2 DEF FrameOK
<1>4. frame'[c].pc # "read" => frame'[c].todo \in Seq(Servers) /\ frame'[c].todo # <<>>
  BY <1>1, <1>2 DEF Frame, FrameOK
<1>5. frame'[c].pc # "read" => Head(frame'[c].todo) \in Servers
  BY <1>4, HeadAndTail
<1>6. QED
  BY <1>1, <1>3, <1>5 DEF QpOf, At

PostsNone(c) == frame'[c].pc # "send" => NothingSent

\* The multicast queue pair changes when a page is posted to it.
LEMMA McastKept ==
    ASSUME AltTypes, Clean, FramesOK', NEW c \in Cpus, CpuStep(c), ~PollsDone(c)
    PROVE  OthersKept(c) /\ PostsNone(c)
<1>0. FramesOK /\ KernelTypes /\ WireTypes /\ OwedOnce /\ EntriesOwned
  BY DEF AltTypes, Clean
<1>1. WireStep(c) /\ ~GivesUp(c)
  BY <1>0, CpuWires, NoError DEF GivesUp
<1>2. CASE WiresKept(c) \/ Leaves(c)
  BY <1>0, <1>1, <1>2, LeavesNothing DEF WireStep, WiresKept, NothingSent, PostsNone
<1>3. CASE PostsWork(c)
  <2> SUFFICES ASSUME frame'[c].pc # "send" PROVE NothingSent
    BY <1>1 DEF WireStep, PostsNone
  <2>1. PICK q \in Qps : q = QpOf(c)' /\ \E w : sendq' = [sendq EXCEPT ![q] = w]
    BY <1>3 DEF PostsWork, Posted
  <2>2. q \in Servers
    BY <1>3, <2>1, PollsServer DEF PostsWork
  <2>3. "mcast" \in Qps /\ q # "mcast"
    BY <2>2, QpsAssumption DEF Qps
  <2>4. QED
    BY <1>0, <2>1, <2>3 DEF WireTypes, NothingSent
<1>4. QED
  BY <1>1, <1>2, <1>3 DEF WireStep

LEMMA RpcForms ==
    ASSUME FramesOK, EntriesOwned, AltTypes, NEW c \in Cpus, RpcLoop(c), ~OldAnswer(c),
           PostsNone(c)
    PROVE  Form(c)
<1> USE DEF Still, SameServers, SameBatch, ctrlVars, wireVars, historyOfCalls
<1>1. ASSUME NEW l, NEW q, NEW e, NEW d, Moves(c, l, q, e, d)
      PROVE  /\ frame'[c].pc = l /\ frame'[c].todo = q /\ SameCall(c)
  BY <1>1, MoveFields DEF SameCall
<1>2. CASE TakeLock(c)
  <2>1. spin = None /\ UNCHANGED <<batch, rdmaInfo, caller, serverVars>>
    BY <1>2 DEF TakeLock, CanLock
  <2>2. CASE At(c, "lock")
    <3>1. blurred' = blurred /\ frame' = IF check_rdma_info(Block(c))
                      THEN [frame EXCEPT ![c].pc = "open", ![c].todo = AliveOrder]
                      ELSE [frame EXCEPT ![c].pc = "check"]
      BY <1>2, <2>2 DEF TakeLock, At, Block
    <3>2. CASE check_rdma_info(Block(c))
      <4>1. Moves(c, "open", AliveOrder, frame[c].err, frame[c].done)
        BY <3>1, <3>2, MoveForms
      <4>2. frame'[c].pc = "open" /\ frame'[c].todo = AliveOrder /\ SameCall(c)
        BY <1>1, <4>1
      <4>3. QED
        BY <2>1, <2>2, <3>1, <4>2 DEF Form, PostsNone, Locks
    <3>3. CASE ~check_rdma_info(Block(c))
      <4>1. Moves(c, "check", frame[c].todo, frame[c].err, frame[c].done)
        BY <3>1, <3>3, MoveForms
      <4>2. frame'[c].pc = "check" /\ SameCall(c)
        BY <1>1, <4>1
      <4>3. \A s \in Servers : Knows(c, s)
        BY <3>3 DEF check_rdma_info, Knows
      <4>4. QED
        BY <2>1, <2>2, <3>1, <4>2, <4>3 DEF Form, PostsNone, Locks
    <3>4. QED
      BY <3>2, <3>3
  <2>3. CASE ~At(c, "lock")
    <3>1. At(c, "overdue") /\ StartCommit(c)
      BY <1>2, <2>3 DEF TakeLock
    <3>2. Moves(c, "commit", AliveOrder, FALSE, frame[c].done)
      BY <1>2, <2>3, RpcMoves
    <3>3. frame'[c].pc = "commit" /\ frame'[c].todo = AliveOrder /\ SameCall(c)
      BY <1>1, <3>2
    <3>4. frame[c].op = "load"
      BY <3>1 DEF FramesOK, FrameOK, At
    <3>5. QED
      BY <2>1, <3>1, <3>3, <3>4 DEF Form, PostsNone, StartsCommit, StartCommit
  <2>4. QED
    BY <2>2, <2>3
<1>3. CASE OpenSkip(c)
  <2>1. At(c, "open") /\ frame[c].todo # <<>> /\ Moves(c, "open", Tail(frame[c].todo), frame[c].err, frame[c].done)
    BY <1>3, RpcMoves
  <2>2. frame'[c].pc = "open" /\ frame'[c].todo = Tail(frame[c].todo) /\ SameCall(c)
    BY <1>1, <2>1
  <2>3. Knows(c, Head(frame[c].todo)) /\ UNCHANGED <<batch, blurred, rdmaInfo, caller, serverVars>>
    BY <1>3 DEF OpenSkip, Knows
  <2>4. QED
    BY <2>1, <2>2, <2>3 DEF Form, PostsNone, InLoop
<1>4. CASE PostCall(c)
  <2>1. /\ frame[c].todo # <<>>
        /\ \/ At(c, "open") /\ Moves(c, "opening", frame[c].todo, frame[c].err, FALSE)
           \/ At(c, "commit") /\ Moves(c, "committing", frame[c].todo, frame[c].err, FALSE)
    BY <1>4, RpcMoves
  <2>2. /\ \/ At(c, "open") /\ frame'[c].pc = "opening"
           \/ At(c, "commit") /\ frame'[c].pc = "committing"
        /\ frame'[c].todo = frame[c].todo /\ SameCall(c)
    BY <1>1, <2>1
  <2>3. UNCHANGED <<batch, blurred, rdmaInfo, caller, serverVars>>
    BY <1>4 DEF PostCall
  <2>4. QED
    BY <2>1, <2>2, <2>3 DEF Form, PostsNone, InLoop
<1>5. CASE CallAnswered(c)
  <2> DEFINE s == Head(frame[c].todo)
  <2>1. /\ frame[c].pc \in {"opening", "committing"} /\ caller[s] = c /\ TakeReply(s)
        /\ caller' = [caller EXCEPT ![s] = None] /\ CallEnds(c, TRUE)
    BY <1>5 DEF CallAnswered
  <2>2. frame[c].todo # <<>>
    BY <2>1 DEF FramesOK, FrameOK
  <2>3. PICK ok \in BOOLEAN :
            \/ /\ At(c, "opening")
               /\ Moves(c, "open", Tail(frame[c].todo), ~ok \/ frame[c].err, frame[c].done)
            \/ /\ At(c, "committing")
               /\ Moves(c, "commit", Tail(frame[c].todo), ~ok, frame[c].done)
    BY <1>5, RpcMoves
  <2>4. /\ frame'[c].todo = Tail(frame[c].todo) /\ SameCall(c)
        /\ \/ At(c, "opening") /\ frame'[c].pc = "open"
           \/ At(c, "committing") /\ frame'[c].pc = "commit"
    BY <1>1, <2>3
  <2>5. /\ At(c, "opening") => rdmaInfo' = [rdmaInfo EXCEPT ![s] = rdmaInfo[s] \cup {Block(c)}]
        /\ At(c, "committing") => rdmaInfo' = rdmaInfo
        /\ batch' = batch /\ blurred' = blurred
    BY <2>1 DEF CallEnds, At
  <2>6. NothingSent
    BY <2>4 DEF PostsNone
  <2>7. Hears(c)
    BY <2>1, <2>2, <2>4, <2>5, <2>6 DEF Hears
  <2>8. QED
    BY <2>7 DEF Form
<1>6. ~CallFails(c)
  BY NoError DEF CallFails
<1>7. QED
  BY <1>2, <1>3, <1>4, <1>5, <1>6 DEF RpcLoop

LEMMA UnlockForms ==
    ASSUME FramesOK, NEW c \in Cpus, Unlocks(c), PostsNone(c)
    PROVE  Form(c)
<1> USE DEF Still, SameServers, SameBatch, ctrlVars, wireVars, historyOfCalls
<1>1. ASSUME NEW l, NEW q, NEW e, NEW d, Moves(c, l, q, e, d)
      PROVE  /\ frame'[c].pc = l /\ frame'[c].todo = q /\ SameCall(c)
  BY <1>1, MoveFields DEF SameCall
<1>2. CASE OpenEnds(c)
  <2>1. /\ At(c, "open") /\ frame[c].todo = <<>>
        /\ UNCHANGED <<batch, blurred, rdmaInfo, caller, serverVars>>
    BY <1>2 DEF OpenEnds
  <2>2. Return(c) \/ Moves(c, "check", frame[c].todo, frame[c].err, frame[c].done)
    BY <1>2, UnlockMoves
  <2>3. CASE Return(c)
    BY <2>1, <2>3, ReturnFields DEF Form, PostsNone, Ends, At
  <2>4. CASE Moves(c, "check", frame[c].todo, frame[c].err, frame[c].done)
    <3>1. frame'[c].pc = "check" /\ SameCall(c)
      BY <1>1, <2>4
    <3>2. QED
      BY <2>1, <3>1 DEF Form, PostsNone, InLoop
  <2>5. QED
    BY <2>2, <2>3, <2>4
<1>3. CASE CheckBatch(c)
  <2>1. At(c, "check") /\ UNCHANGED <<batch, rdmaInfo, caller, serverVars>>
    BY <1>3 DEF CheckBatch
  <2>2. CASE StartCommit(c)
    <3>1. Moves(c, "commit", AliveOrder, FALSE, frame[c].done)
      BY <2>2, MoveForms DEF StartCommit
    <3>2. frame'[c].pc = "commit" /\ frame'[c].todo = AliveOrder /\ SameCall(c)
      BY <1>1, <3>1
    <3>3. QED
      BY <2>1, <2>2, <3>2 DEF Form, PostsNone, StartsCommit, StartCommit
  <2>3. CASE ~StartCommit(c)
    <3>1. /\ blurred' = blurred
          /\ \/ frame' = [frame EXCEPT ![c].pc = "mark"]
             \/ frame' = [frame EXCEPT ![c].pc = "write", ![c].todo = CtrlOrder]
      BY <1>3, <2>3 DEF CheckBatch
    <3>2. \/ Moves(c, "mark", frame[c].todo, frame[c].err, frame[c].done)
          \/ Moves(c, "write", CtrlOrder, frame[c].err, frame[c].done)
      BY <3>1, MoveForms
    <3>3. frame'[c].pc \in {"mark", "write"} /\ SameCall(c)
      BY <1>1, <3>2
    <3>4. QED
      BY <2>1, <3>1, <3>3 DEF Form, PostsNone, Passes
  <2>4. QED
    BY <2>2, <2>3
<1>4. CASE CommitEnds(c)
  <2>1. /\ At(c, "commit") /\ frame[c].todo = <<>> /\ batch' = 0 /\ blurred' = blurred
        /\ UNCHANGED <<rdmaInfo, caller, serverVars>>
        /\ \/ Return(c)
           \/ frame[c].op = "store" /\ frame' = [frame EXCEPT ![c].pc = "mark"]
           \/ frame' = [frame EXCEPT ![c].pc = "load"]
    BY <1>4 DEF CommitEnds, BatchAfter, StoreResult, Goto
  <2>2. \/ frame'[c].pc = "idle"
        \/ frame[c].op = "store" /\ frame'[c].pc = "mark" /\ SameCall(c)
        \/ frame'[c].pc = "load"
    <3>1. \/ Return(c)
          \/ frame[c].op = "store" /\ Moves(c, "mark", frame[c].todo, frame[c].err, frame[c].done)
          \/ Moves(c, "load", frame[c].todo, frame[c].err, frame[c].done)
      BY <2>1, MoveForms
    <3>2. QED
      BY <1>1, <3>1, ReturnFields
  <2>3. QED
    BY <2>1, <2>2 DEF Form, PostsNone, EndsCommit
<1>5. QED
  BY <1>2, <1>3, <1>4 DEF Unlocks

LEMMA SendForms ==
    ASSUME FramesOK, WireTypes, EntriesOwned, NoneRefused, AltTypes, NEW c \in Cpus, Sends(c),
           ~PostFails(c), PostsNone(c)
    PROVE  Form(c)
<1> USE DEF Still, SameServers, SameBatch, ctrlVars, wireVars, historyOfCalls
<1>0. ASSUME NEW l, NEW q, NEW e, NEW d, Moves(c, l, q, e, d)
      PROVE  frame'[c].pc = l /\ SameCall(c)
  BY <1>0, MoveFields DEF SameCall
<1>1. CASE PostPage(c)
  <2>1. At(c, "post") /\ UNCHANGED <<batch, blurred, rdmaInfo, caller, serverVars>>
    BY <1>1 DEF PostPage
  <2>2. Posted(c, "mcast", "page", frame[c].page)
    BY <1>1 DEF PostPage
  <2>3. frame'[c].pc = "send" /\ SameCall(c)
    BY <1>0, <1>1, SendMoves
  <2>4. WorkOf(c)' = [cpu |-> c, op |-> "page", what |-> frame[c].page]
    BY <2>3 DEF WorkOf, At, SameCall
  <2>5. sendq'["mcast"] = Append(sendq["mcast"], WorkOf(c)')
    BY <2>2, <2>4 DEF Posted, WireTypes, Qps
  <2>6. QED
    BY <2>1, <2>3, <2>5 DEF Form, Submits
<1>2. CASE MarkPage(c)
  <2>1. At(c, "mark") /\ UNCHANGED <<batch, blurred, rdmaInfo, caller, serverVars>>
    BY <1>2 DEF MarkPage
  <2>2. CASE Return(c)
    BY <2>1, <2>2, ReturnFields DEF Form, PostsNone, Ends, At
  <2>3. CASE Moves(c, "post", frame[c].todo, frame[c].err, frame[c].done)
    BY <1>0, <2>1, <2>3 DEF Form, PostsNone, Passes
  <2>4. QED
    BY <1>2, <2>2, <2>3, SendMoves
<1>3. CASE CountPage(c)
  <2>1. /\ At(c, "send") /\ batch' = batch + 1 /\ Return(c)
        /\ UNCHANGED <<blurred, rdmaInfo, caller, serverVars>>
    BY <1>3 DEF CountPage, Counted, StoreResult
  <2>2. QED
    BY <2>1, ReturnFields DEF Form, PostsNone, Counts
<1>4. QED
  BY <1>1, <1>2, <1>3, NoSendFails DEF Sends

LEMMA OtherForms ==
    ASSUME FramesOK, KernelTypes, CtrlTypes, NEW c \in Cpus, KernelCalls(c) \/ Writes(c) \/ Loads(c),
           PostsNone(c)
    PROVE  Form(c)
<1> USE DEF ctrlVars, wireVars, historyOfCalls
<1>1. UNCHANGED <<batch, blurred, rdmaInfo, caller, serverVars>>
  <2>1. CASE KernelCalls(c)
    BY <2>1 DEF KernelCalls, OwnStep, StoreBegin, StoreUnmapped, LoadBegin
  <2>2. CASE Writes(c)
    BY <2>2 DEF Writes, PostWrite, PostRdma, WriteDone, WriteFails, AllWritten
  <2>3. CASE Loads(c)
    BY <2>3 DEF Loads, LoadOverdue, PostRead, PostRdma, PageRead, ReadFails, LoadDone
  <2>4. QED
    BY <2>1, <2>2, <2>3
<1>2. ASSUME NEW l, NEW q, NEW e, NEW d, Moves(c, l, q, e, d) PROVE frame'[c].pc = l
  BY <1>2, MoveFields
<1>3. ASSUME Return(c) PROVE frame'[c].pc = "idle"
  BY <1>3, ReturnFields
<1>4. frame[c].pc \notin CountedPcs /\ frame'[c].pc \notin CountedPcs
  <2>1. CASE KernelCalls(c)
    <3>1. At(c, "idle")
      BY <2>1 DEF KernelCalls, OwnStep, StoreBegin, StoreUnmapped, LoadBegin
    <3>2. frame'[c].pc \in {"idle", "lock", "load"}
      BY <2>1, <3>1, CallBegins, BeginFields DEF At
    <3>3. QED
      BY <3>1, <3>2 DEF At, CountedPcs, CommitPcs
  <2>2. CASE Writes(c)
    <3>1. frame[c].pc \in {"write", "writing"}
      BY <2>2 DEF Writes, PostWrite, WriteDone, WriteFails, AllWritten, At
    <3>2. frame'[c].pc \in {"write", "writing", "hung", "idle"}
      <4>1. ASSUME WriteDone(c) \/ WriteFails(c) PROVE frame'[c].pc = "write"
        <5>1. PICK err \in BOOLEAN : Moves(c, "write", Tail(frame[c].todo), err, frame[c].done)
          BY <4>1, SendMoves
        <5>2. QED
          BY <1>2, <5>1
      <4>2. ASSUME PostWrite(c) PROVE frame'[c].pc \in {"writing", "hung"}
        BY <1>2, <4>2, SendMoves
      <4>3. ASSUME AllWritten(c) PROVE frame'[c].pc = "idle"
        BY <1>3, <4>3, SendMoves
      <4>4. QED
        BY <2>2, <4>1, <4>2, <4>3 DEF Writes
    <3>3. QED
      BY <3>1, <3>2 DEF CountedPcs, CommitPcs
  <2>3. CASE Loads(c)
    <3>1. frame[c].pc \in {"load", "read", "loaded"}
      BY <2>3 DEF Loads, LoadOverdue, PostRead, PageRead, ReadFails, LoadDone, At
    <3>2. frame'[c].pc \in {"overdue", "read", "hung", "loaded", "idle"}
      BY <1>2, <1>3, <2>3, LoadMoves DEF Loads
    <3>3. QED
      BY <3>1, <3>2 DEF CountedPcs, CommitPcs
  <2>4. QED
    BY <2>1, <2>2, <2>3
<1>5. NothingSent
  BY <1>4 DEF CountedPcs, PostsNone
<1>6. QED
  BY <1>1, <1>4, <1>5 DEF Form, PostsNone, Aside, Still, SameServers, SameBatch

LEMMA CpuForms ==
    ASSUME AltTypes, Clean, FramesOK', NEW c \in Cpus, CpuStep(c), ~PollsDone(c), ~OldAnswer(c),
           ~failed'
    PROVE  Form(c) /\ OthersKept(c)
<1>0. FramesOK /\ KernelTypes /\ WireTypes /\ CtrlTypes /\ EntriesOwned /\ NoneRefused
  BY DEF AltTypes, Clean
<1>1. OthersKept(c) /\ PostsNone(c)
  BY McastKept
<1>2. ~PostFails(c)
  BY DEF PostFails
<1>3. QED
  BY <1>0, <1>1, <1>2, CpuCases, RpcForms, UnlockForms, SendForms, OtherForms

----------------------------------------------------------------------------
(* __ib_rpc: the call a server works on is that of the CPU it is for. *)

\* The request is the caller's, or its answer is.
Answering(c, s) ==
    \/ req[s] = RequestOf(c) /\ rep[s] = None /\ (rpcPc[s] # "idle" => At(c, "committing"))
    \/ /\ req[s] = None /\ rpcPc[s] = "idle" /\ At(c, "opening")
       /\ rep[s] = "opened" /\ Block(c) \in blocks[s]
    \/ req[s] = None /\ rpcPc[s] = "idle" /\ At(c, "committing") /\ rep[s] = "committed"

Calls(c, s) == frame[c].pc \in {"opening", "committing"} /\ Head(frame[c].todo) = s

CallOK(s) ==
    IF caller[s] = None
    THEN req[s] = None /\ rep[s] = None /\ rpcPc[s] = "idle"
    ELSE Calls(caller[s], s) /\ Answering(caller[s], s)

CallsOK == \A s \in Servers : CallOK(s)

\* What identifies the call a CPU is in.
SameFields(d) ==
    /\ frame'[d].pc = frame[d].pc /\ frame'[d].page = frame[d].page
    /\ frame'[d].todo = frame[d].todo

LEMMA SameCallOK ==
    ASSUME NEW s \in Servers, CallOK(s), caller'[s] = caller[s], req'[s] = req[s],
           rep'[s] = rep[s], rpcPc'[s] = rpcPc[s], blocks[s] \subseteq blocks'[s],
           caller[s] # None => SameFields(caller[s])
    PROVE  CallOK(s)'
<1>1. CASE caller[s] = None
  BY <1>1 DEF CallOK
<1>2. ASSUME NEW d, d = caller[s], d # None PROVE CallOK(s)'
  <2>1. Calls(d, s) /\ Answering(d, s) /\ SameFields(d)
    BY <1>2 DEF CallOK
  <2>2. RequestOf(d)' = RequestOf(d) /\ Block(d)' = Block(d) /\ \A l : At(d, l)' = At(d, l)
    BY <2>1, SameWork DEF SameFields
  <2>3. Calls(d, s)' /\ Answering(d, s)'
    BY <2>1, <2>2 DEF Calls, Answering, SameFields
  <2>4. QED
    BY <1>2, <2>3 DEF CallOK
<1>3. QED
  BY <1>1, <1>2

\* A CPU outside the loops of __ib_rpc waits for no server.
LEMMA NotCalling ==
    ASSUME CallsOK, NEW c \in Cpus, frame[c].pc \notin {"opening", "committing"}
    PROVE  \A s \in Servers : caller[s] # c
BY AltCpusAssumption DEF CallsOK, CallOK, Calls

LEMMA NoOldAnswer ==
    ASSUME AltTypes, CallsOK, NEW c \in Cpus
    PROVE  ~OldAnswer(c)
<1> SUFFICES ASSUME OldAnswer(c) PROVE FALSE
  OBVIOUS
<1>1. frame[c].pc \in {"opening", "committing"} /\ FramesOK
  BY DEF OldAnswer, AltTypes
<1>2. Head(frame[c].todo) \in Servers
  BY <1>1, FrameFacts DEF FramesOK, FrameOK, At
<1>3. QED
  BY <1>2 DEF OldAnswer, TakeReply, CallsOK, CallOK

\* What a call leaves when it is answered.
LEMMA HeardServer ==
    ASSUME AltTypes, CallsOK, NEW c \in Cpus, Hears(c)
    PROVE  LET s == Head(frame[c].todo) IN
           /\ s \in Servers /\ caller[s] = c /\ Calls(c, s)
           /\ req[s] = None /\ rpcPc[s] = "idle" /\ rep[s] # None
           /\ At(c, "opening") => rep[s] = "opened" /\ Block(c) \in blocks[s]
           /\ At(c, "committing") => rep[s] = "committed"
           /\ rep' = [rep EXCEPT ![s] = None]
           /\ UNCHANGED <<queueVars, listVars, rmhVars, rpcPc, req, historyVars>>
<1> DEFINE s == Head(frame[c].todo)
<1>1. s \in Servers
  BY FrameFacts DEF AltTypes, Hears, At
<1>2. /\ caller[s] = c /\ rep[s] # None /\ rep' = [rep EXCEPT ![s] = None]
      /\ UNCHANGED <<queueVars, listVars, rmhVars, rpcPc, req, historyVars>>
  BY DEF Hears, TakeReply
<1> HIDE DEF s
<1>3. Calls(c, s) /\ Answering(c, s)
  BY <1>1, <1>2, AltCpusAssumption DEF CallsOK, CallOK
<1>4. QED
  BY <1>1, <1>2, <1>3 DEF Answering, At, s

LEMMA CpuCallsOK ==
    ASSUME AltTypes, Clean, CallsOK, FramesOK', NEW c \in Cpus, CpuStep(c), ~failed'
    PROVE  CallsOK'
<1>0. FramesOK /\ WireTypes /\ FarTypeOK
  BY DEF AltTypes, ServerInv
<1> SUFFICES ASSUME NEW t \in Servers PROVE CallOK(t)'
  BY DEF CallsOK
<1>1. CallOK(t) /\ caller[t] \in Cpus \cup {None}
  BY <1>0 DEF CallsOK, WireTypes
<1>2. CASE PollsDone(c)
  <2>1. UNCHANGED <<caller, serverVars>> /\ \A d \in Cpus : SameFields(d)
    BY <1>0, <1>2, PolledFields DEF SameFields
  <2>2. QED
    BY <1>1, <2>1, SameCallOK DEF serverVars, rpcVars, rmhVars
<1>3. CASE ~PollsDone(c)
  <2>1. Form(c) /\ OthersKept(c)
    BY <1>3, NoOldAnswer, CpuForms
  <2>2. CASE Hears(c)
    <3> DEFINE s == Head(frame[c].todo)
    <3>1. /\ s \in Servers /\ caller[s] = c /\ Calls(c, s)
          /\ req[s] = None /\ rpcPc[s] = "idle" /\ rep' = [rep EXCEPT ![s] = None]
          /\ UNCHANGED <<queueVars, listVars, rmhVars, rpcPc, req, historyVars>>
          /\ caller' = [caller EXCEPT ![s] = None]
      BY <2>2, HeardServer DEF Hears
    <3> HIDE DEF s
    <3>2. CASE t = s
      <4>1. caller'[s] = None /\ rep'[s] = None /\ req'[s] = None /\ rpcPc'[s] = "idle"
        BY <1>0, <3>1 DEF WireTypes, FarTypeOK
      <4>2. QED
        BY <3>2, <4>1 DEF CallOK
    <3>3. CASE t # s
      <4>1. /\ caller'[t] = caller[t] /\ rep'[t] = rep[t] /\ req' = req /\ rpcPc' = rpcPc
            /\ blocks' = blocks
        BY <1>0, <3>1, <3>3 DEF WireTypes, FarTypeOK, rmhVars
      <4>2. caller[t] # c
        BY <1>1, <3>1, <3>3, AltCpusAssumption DEF CallOK, Calls
      <4>3. caller[t] # None => SameFields(caller[t])
        BY <1>1, <2>1, <4>2 DEF OthersKept, SameFields
      <4>4. QED
        BY <1>1, <4>1, <4>3, SameCallOK
    <3>4. QED
      BY <3>2, <3>3
  <2>3. CASE ~Hears(c)
    <3>1. SameServers /\ frame[c].pc \notin {"opening", "committing"}
      BY <2>1, <2>3 DEF Form, Aside, Locks, StartsCommit, InLoop, Passes, EndsCommit, Submits,
                        Counts, Ends, Still, At, CountedPcs, CommitPcs
    <3>2. caller[t] # c
      BY <3>1, NotCalling
    <3>3. caller[t] # None => SameFields(caller[t])
      BY <1>1, <2>1, <3>2 DEF OthersKept, SameFields
    <3>4. QED
      BY <1>1, <3>1, <3>3, SameCallOK DEF SameServers, serverVars, rpcVars, rmhVars
  <2>4. QED
    BY <2>2, <2>3
<1>4. QED
  BY <1>2, <1>3

LEMMA RequestsAre ==
    ASSUME FramesOK, NEW c \in Cpus, frame[c].pc \in {"opening", "committing"}
    PROVE  /\ RequestOf(c) \in Requests /\ RequestOf(c) # None
           /\ At(c, "opening") => RequestOf(c).op = "open" /\ RequestOf(c).block = Block(c)
           /\ At(c, "committing") => RequestOf(c).op = "commit"
<1>1. Block(c) \in Blocks
  BY FrameFacts DEF At
<1>2. At(c, "opening") => RequestOf(c) = [op |-> "open", block |-> Block(c), count |-> 0]
  BY DEF RequestOf
<1>3. At(c, "committing") => RequestOf(c) = [op |-> "commit", block |-> None, count |-> 0]
  BY DEF RequestOf, At
<1>4. At(c, "opening") \/ At(c, "committing")
  BY DEF At
<1>5. RequestOf(c) \in Requests
  BY <1>1, <1>2, <1>3, <1>4, ServerBatchAssumption DEF Requests
<1>6. QED
  BY <1>2, <1>3, <1>5, NoRequestAssumption

\* The work a queue pair does next is what a CPU at it polls for.
LEMMA HeadOfWork ==
    ASSUME AltTypes, Clean, Matched, NEW q \in Qps, NEW op, NEW ok \in BOOLEAN,
           Completes(q, op, ok)
    PROVE  LET w == Head(sendq[q]) IN
           /\ w \in Elems(sendq[q]) /\ w.op \in op
           /\ w.cpu \in Cpus /\ w = WorkOf(w.cpu) /\ Polling(w.cpu) /\ QpOf(w.cpu) = q
<1>1. Completed(q, ok) /\ Head(sendq[q]).op \in op
  BY WorkCompletes DEF AltTypes
<1>2. Head(sendq[q]) \in Elems(sendq[q])
  BY <1>1, HeadAndTail DEF Completed
<1>3. QED
  BY <1>1, <1>2, OwnersPoll DEF Matched, Clean

LEMMA CallsSent ==
    ASSUME AltTypes, Clean, Matched, CallsOK, NEW s \in Servers, SendsCall(s)
    PROVE  CallsOK' /\ blocks' = blocks
<1>0. FramesOK /\ WireTypes /\ FarTypeOK
  BY DEF AltTypes, ServerInv
<1>1. /\ Completes(s, {"call"}, TRUE) /\ Call(s, Head(sendq[s]).what) /\ frame' = frame
      /\ caller' = [caller EXCEPT ![s] = Head(sendq[s]).cpu]
  BY DEF SendsCall
<1>2. s \in Qps
  BY DEF Qps
<1> DEFINE w == Head(sendq[s])
<1>3. PICK d \in Cpus : /\ w.cpu = d /\ w.op = "call" /\ w = WorkOf(d)
                       /\ Polling(d) /\ QpOf(d) = s
  <2>1. /\ w.op \in {"call"} /\ w.cpu \in Cpus /\ w = WorkOf(w.cpu)
        /\ Polling(w.cpu) /\ QpOf(w.cpu) = s
    <3>1. TRUE \in BOOLEAN
      OBVIOUS
    <3>2. QED
      BY <1>1, <1>2, <3>1, HeadOfWork
  <2> HIDE DEF w
  <2>2. QED
    BY <2>1
<1>4. /\ req[s] = None /\ rep[s] = None /\ req' = [req EXCEPT ![s] = w.what]
      /\ rep' = rep /\ rpcPc' = rpcPc /\ blocks' = blocks
  BY <1>1 DEF Call, rmhVars
<1>5. caller' = [caller EXCEPT ![s] = d]
  BY <1>1, <1>3
<1> HIDE DEF w
<1>6. frame[d].pc \in {"opening", "committing"}
  <2>1. WorkOf(d).op = "call"
    BY <1>3
  <2>2. frame[d].pc \in PollsAt
    BY <1>3 DEF Polling
  <2>3. QED
    BY <2>1, <2>2 DEF WorkOf, PollsAt, At
<1>7. w.what = RequestOf(d)
  BY <1>3, <1>6 DEF WorkOf
<1>8. Head(frame[d].todo) = s
  BY <1>3, <1>6 DEF QpOf, At
<1>9. caller[s] = None
  <2> SUFFICES ASSUME NEW e, e = caller[s], e # None PROVE FALSE
    OBVIOUS
  <2>1. e \in Cpus /\ Calls(e, s) /\ Answering(e, s)
    BY <1>0 DEF CallsOK, CallOK, WireTypes
  <2>2. RequestOf(e) # None
    BY <1>0, <2>1, RequestsAre DEF Calls
  <2>3. QED
    BY <1>4, <2>1, <2>2, NoReplyAssumption DEF Answering
<1>10. rpcPc[s] = "idle"
  BY <1>9 DEF CallsOK, CallOK
<1> SUFFICES ASSUME NEW t \in Servers PROVE CallOK(t)'
  BY <1>4 DEF CallsOK
<1>11. CASE t = s
  <2>1. caller'[s] = d /\ req'[s] = RequestOf(d) /\ rep'[s] = None /\ rpcPc'[s] = "idle"
    BY <1>0, <1>4, <1>5, <1>7, <1>10 DEF WireTypes, FarTypeOK
  <2>2. RequestOf(d)' = RequestOf(d) /\ frame'[d] = frame[d]
    BY <1>1 DEF RequestOf, At, Block
  <2>3. Calls(d, s)' /\ Answering(d, s)'
    BY <1>6, <1>8, <2>1, <2>2 DEF Calls, Answering
  <2>4. d # None
    BY <1>3, AltCpusAssumption
  <2>5. QED
    BY <1>11, <2>1, <2>3, <2>4 DEF CallOK
<1>12. CASE t # s
  <2>1. caller'[t] = caller[t] /\ req'[t] = req[t] /\ rep'[t] = rep[t] /\ rpcPc'[t] = rpcPc[t]
    BY <1>0, <1>4, <1>5, <1>12 DEF WireTypes, FarTypeOK
  <2>2. CallOK(t)
    BY DEF CallsOK
  <2>3. QED
    BY <1>1, <1>4, <2>1, <2>2, SameCallOK DEF SameFields
<1>13. QED
  BY <1>11, <1>12

LEMMA WorkCallsOK ==
    ASSUME AltTypes, Clean, Matched, CallsOK, NEW q \in Qps, Executes(q), ~failed'
    PROVE  CallsOK' /\ blocks' = blocks
<1>1. CASE q \in Servers /\ SendsCall(q)
  BY <1>1, CallsSent
<1>2. ~WorkFails(q)
  BY DEF WorkFails, Completes
<1>3. ASSUME UNCHANGED <<caller, blocks, rpcVars>> PROVE CallsOK' /\ blocks' = blocks
  <2>1. \A c \in Cpus : SameFields(c)
    BY WorkFrames DEF SameButGot, SameFields
  <2> SUFFICES ASSUME NEW t \in Servers PROVE CallOK(t)'
    BY <1>3 DEF CallsOK
  <2>2. CallOK(t) /\ caller[t] \in Cpus \cup {None}
    BY DEF CallsOK, AltTypes, WireTypes
  <2>3. QED
    BY <1>3, <2>1, <2>2, SameCallOK DEF rpcVars
<1>4. CASE SendsPage(q)
  BY <1>3, <1>4 DEF SendsPage, serverVars, rmhVars
<1>5. CASE q \in Servers /\ ReadsPage(q)
  BY <1>3, <1>5 DEF ReadsPage, serverVars, rmhVars
<1>6. CASE q \in Servers /\ WritesPage(q)
  BY <1>3, <1>6 DEF WritesPage
<1>7. QED
  BY <1>1, <1>2, <1>4, <1>5, <1>6 DEF Executes

\* The rdma thread works on the request of the one who calls.
LEMMA ServedCall ==
    ASSUME AltTypes, CallsOK, NEW s \in Servers, RdmaThread(s)
    PROVE  /\ caller[s] \in Cpus /\ Calls(caller[s], s) /\ req[s] = RequestOf(caller[s])
           /\ rep[s] = None
           /\ ServeOpen(s) <=> At(caller[s], "opening")
           /\ rpcPc[s] # "idle" => At(caller[s], "committing")
<1>0. FramesOK /\ WireTypes /\ FarTypeOK
  BY DEF AltTypes, ServerInv
<1> DEFINE d == caller[s]
<1>1. CallOK(s) /\ d \in Cpus \cup {None}
  BY <1>0 DEF CallsOK, WireTypes
<1>2. rpcPc[s] = "idle" => req[s] # None
  BY DEF RdmaThread, ServeOpen, CommitEmpty, CommitBegin, CommitConvey, CommitPutback, CommitReset, IsCommit
<1>3. d \in Cpus /\ Calls(d, s) /\ Answering(d, s)
  BY <1>1, <1>2 DEF CallOK
<1> HIDE DEF d
<1>4. req[s] = RequestOf(d) /\ rep[s] = None /\ (rpcPc[s] # "idle" => At(d, "committing"))
  BY <1>2, <1>3 DEF Answering
<1>5. /\ At(d, "opening") => req[s].op = "open"
      /\ At(d, "committing") => req[s].op = "commit"
      /\ At(d, "opening") \/ At(d, "committing")
  BY <1>0, <1>3, <1>4, RequestsAre DEF Calls, At
<1>6. ServeOpen(s) => At(d, "opening")
  BY <1>5 DEF ServeOpen
<1>7. ~ServeOpen(s) => At(d, "committing")
  BY <1>4, <1>5 DEF RdmaThread, CommitEmpty, CommitBegin, CommitConvey, CommitPutback, CommitReset, IsCommit
<1>8. ~(At(d, "opening") /\ At(d, "committing"))
  BY DEF At
<1>9. QED
  BY <1>3, <1>4, <1>6, <1>7, <1>8 DEF d

LEMMA ServesCallOK ==
    ASSUME AltTypes, CallsOK, NEW s \in Servers, RdmaThread(s), frame' = frame, caller' = caller
    PROVE  CallsOK'
<1>0. FramesOK /\ WireTypes /\ FarTypeOK
  BY DEF AltTypes, ServerInv
<1> SUFFICES ASSUME NEW t \in Servers PROVE CallOK(t)'
  BY DEF CallsOK
<1>1. CASE t # s
  <2>1. rpcPc'[t] = rpcPc[t] /\ req'[t] = req[t] /\ rep'[t] = rep[t]
    BY <1>0, <1>1 DEF RdmaThread, ServeOpen, CommitEmpty, CommitBegin, CommitConvey, CommitPutback, CommitReset, FarTypeOK
  <2>2. blocks[t] \subseteq blocks'[t] /\ CallOK(t)
    BY <1>0, BlocksGrow DEF StepOf, CallsOK
  <2>3. QED
    BY <2>1, <2>2, SameCallOK DEF SameFields
<1>2. CASE t = s
  <2>1. PICK d \in Cpus :
            /\ d = caller[s] /\ Calls(d, s) /\ req[s] = RequestOf(d) /\ rep[s] = None
            /\ ServeOpen(s) <=> At(d, "opening")
            /\ rpcPc[s] # "idle" => At(d, "committing")
    BY ServedCall
  <2>2. caller'[s] = d /\ d # None
    BY <2>1, AltCpusAssumption
  <2>3. /\ Calls(d, s)' = Calls(d, s) /\ RequestOf(d)' = RequestOf(d)
        /\ Block(d)' = Block(d) /\ \A l : At(d, l)' = At(d, l)
    BY DEF Calls, RequestOf, Block, At
  <2>4. At(d, "opening") \/ At(d, "committing")
    BY <2>1 DEF Calls, At
  <2>5. Answering(d, s)'
    <3>1. CASE ServeOpen(s)
      <4>1. req'[s] = None /\ rep'[s] = "opened" /\ rpcPc'[s] = "idle"
            /\ blocks'[s] = blocks[s] \cup {req[s].block}
        BY <1>0, <3>1 DEF ServeOpen, FarTypeOK
      <4>2. At(d, "opening") /\ req[s].block = Block(d)
        BY <1>0, <2>1, <3>1, RequestsAre DEF Calls
      <4>3. QED
        BY <2>3, <4>1, <4>2 DEF Answering
    <3>2. CASE CommitEmpty(s) \/ CommitReset(s)
      <4>1. req'[s] = None /\ rep'[s] = "committed" /\ rpcPc'[s] = "idle"
        <5>1. rpcPc[s] = "idle" => rpcPc'[s] = "idle" \/ CommitReset(s)
          BY <3>2 DEF CommitEmpty
        <5>2. QED
          BY <1>0, <3>2, <5>1 DEF CommitEmpty, CommitReset, FarTypeOK
      <4>2. ~ServeOpen(s)
        BY <1>0, <4>1, NoReplyAssumption DEF ServeOpen, FarTypeOK
      <4>3. QED
        BY <2>1, <2>3, <2>4, <4>1, <4>2 DEF Answering
    <3>3. CASE CommitBegin(s) \/ CommitConvey(s) \/ CommitPutback(s)
      <4>1. req' = req /\ rep' = rep
        BY <3>3 DEF CommitBegin, CommitConvey, CommitPutback
      <4>2. ~ServeOpen(s)
        BY <1>0, <2>1, <4>1, NoReplyAssumption DEF ServeOpen, FarTypeOK
      <4>3. QED
        BY <2>1, <2>3, <2>4, <4>1, <4>2 DEF Answering
    <3>4. QED
      BY <3>1, <3>2, <3>3 DEF RdmaThread
  <2>6. QED
    BY <1>2, <2>1, <2>2, <2>3, <2>5 DEF CallOK
<1>3. QED
  BY <1>1, <1>2

LEMMA ServersCallsOK ==
    ASSUME AltTypes, CallsOK, NEW s \in Servers, Deliver(s) \/ ServerRuns(s)
    PROVE  CallsOK'
<1>0. FramesOK /\ WireTypes /\ FarTypeOK
  BY DEF AltTypes, ServerInv
<1>1. frame' = frame /\ caller' = caller
  BY DEF Deliver, ServerRuns, wireVars
<1>2. CASE ServerRuns(s) /\ RdmaThread(s)
  BY <1>1, <1>2, ServesCallOK
<1>3. CASE Deliver(s) \/ MulticastThread(s)
  <2>1. UNCHANGED rpcVars
    BY <1>3 DEF Deliver, Receive, MulticastThread, FlowAdd, FlowConvey
  <2>2. \A t \in Servers : blocks[t] \subseteq blocks'[t]
    <3>1. CASE MulticastThread(s)
      BY <1>0, <3>1, BlocksGrow DEF StepOf
    <3>2. CASE Deliver(s)
      BY <3>2 DEF Deliver, Receive, rmhVars
    <3>3. QED
      BY <1>3, <3>1, <3>2
  <2>3. QED
    BY <1>1, <2>1, <2>2, SameCallOK DEF CallsOK, SameFields, rpcVars
<1>4. QED
  BY <1>2, <1>3 DEF ServerRuns

----------------------------------------------------------------------------
(* ib_rpc_open_all: a page is sent to the servers that have its block. *)

LEMMA CpuKeepsNode ==
    ASSUME NEW c \in Cpus, CpuStep(c)
    PROVE  loaded' = loaded /\ (failed => failed') /\ (~failed' => failed' = failed)
<1>1. CASE PostFails(c)
  BY <1>1 DEF PostFails
<1>2. CASE ~PostFails(c)
  <2>1. loaded' = loaded /\ failed' = failed
    BY <1>2 DEF CpuStep, OwnStep, StoreBegin, StoreUnmapped, LoadBegin, TakeLock, OpenSkip,
       PostCall, CallAnswered, CallFails, CallEnds, OldAnswer, OpenEnds, CheckBatch, CommitEnds,
       MarkPage, PostPage, SendFails, CountPage, PostWrite, PostRdma, WriteDone, WriteFails,
       AllWritten, LoadOverdue, PostRead, PageRead, ReadFails, LoadDone, PollsDone, historyOfCalls
  <2>2. QED
    BY <2>1
<1>3. QED
  BY <1>1, <1>2

LEMMA AliveStays ==
    ASSUME CtrlTypes
    PROVE  /\ AliveOrder \in Seq(Servers) /\ Alive \subseteq Servers /\ Alive = Elems(AliveOrder)
           /\ loaded' = loaded => AliveOrder' = AliveOrder /\ Alive' = Alive
BY AliveOrderIsSeq, ElemsOfSeq DEF AliveOrder, Alive

\* The steps from which the page of a store goes on to the servers.
Opened(c) ==
    \/ frame[c].pc \in {"check", "mark", "post", "send"}
    \/ frame[c].pc \in CommitPcs /\ frame[c].op = "store"

Opens(c) ==
    \A s \in Alive :
        /\ frame[c].pc \in {"open", "opening"} => s \in Elems(frame[c].todo) \/ Knows(c, s)
        /\ Opened(c) => Knows(c, s)

OpensAll ==
    /\ \A s \in Servers : rdmaInfo[s] \subseteq blocks[s]
    /\ \A c \in Cpus : Opens(c)

LEMMA OpensKept ==
    ASSUME CtrlTypes, NEW d, Opens(d), SameFields(d), frame'[d].op = frame[d].op,
           loaded' = loaded, \A s \in Servers : rdmaInfo[s] \subseteq rdmaInfo'[s]
    PROVE  Opens(d)'
<1>1. Alive' = Alive /\ Alive \subseteq Servers
  BY AliveStays
<1>2. \A s \in Alive : Knows(d, s) => Knows(d, s)'
  BY <1>1 DEF Knows, Block, SameFields
<1>3. Opened(d)' = Opened(d)
  BY DEF Opened, SameFields
<1>4. QED
  BY <1>1, <1>2, <1>3 DEF Opens, SameFields

\* A CPU opens the block everywhere before it goes on.
LEMMA FormOpens ==
    ASSUME AltTypes, CallsOK, NEW c \in Cpus, Form(c), Opens(c), loaded' = loaded
    PROVE  Opens(c)'
<1>0. FramesOK /\ CtrlTypes
  BY DEF AltTypes
<1>1. Alive' = Alive /\ Alive \subseteq Servers /\ AliveOrder \in Seq(Servers) /\ Alive = Elems(AliveOrder)
  BY <1>0, AliveStays
<1> SUFFICES ASSUME NEW s \in Alive
             PROVE  /\ frame'[c].pc \in {"open", "opening"} => s \in Elems(frame'[c].todo) \/ Knows(c, s)'
                    /\ Opened(c)' => Knows(c, s)'
  BY <1>1 DEF Opens
<1>2. s \in Servers
  BY <1>1
<1>3. SameCall(c) /\ rdmaInfo' = rdmaInfo => Knows(c, s)' = Knows(c, s)
  BY DEF SameCall, Knows, Block
<1>4. frame'[c].pc \notin {"open", "opening", "check", "mark", "post", "send"} \cup CommitPcs => ~Opened(c)'
  BY DEF Opened
<1>5. /\ frame[c].pc \in {"open", "opening"} => s \in Elems(frame[c].todo) \/ Knows(c, s)
      /\ Opened(c) => Knows(c, s)
  BY DEF Opens
<1>6. frame[c].todo # <<>> => Elems(frame[c].todo) = {Head(frame[c].todo)} \cup Elems(Tail(frame[c].todo))
  BY <1>0, HeadAndTail DEF FramesOK, Frame
<1> USE DEF SameServers, Still, At
<1>7. CASE Aside(c)
  BY <1>4, <1>7 DEF Aside, CountedPcs
<1>8. CASE Locks(c)
  BY <1>1, <1>2, <1>3, <1>8 DEF Locks, Opened, CommitPcs
<1>9. CASE StartsCommit(c)
  <2>1. Knows(c, s)' = Knows(c, s) /\ frame'[c].pc = "commit" /\ frame'[c].op = frame[c].op
    BY <1>3, <1>9 DEF StartsCommit, SameCall
  <2>2. At(c, "check") \/ frame[c].op = "load"
    BY <1>9 DEF StartsCommit
  <2>3. QED
    BY <1>5, <2>1, <2>2 DEF Opened
<1>10. CASE InLoop(c)
  <2>1. Knows(c, s)' = Knows(c, s) /\ frame'[c].op = frame[c].op
    BY <1>3, <1>10 DEF InLoop, SameCall
  <2>2. CASE At(c, "open") /\ frame'[c].pc = "open"
    BY <1>5, <1>6, <1>10, <2>1, <2>2 DEF InLoop, Opened, CommitPcs
  <2>3. CASE At(c, "open") /\ frame'[c].pc = "check"
    <3>1. frame[c].todo = <<>>
      BY <1>10, <2>3 DEF InLoop
    <3>2. QED
      BY <1>5, <2>1, <2>3, <3>1 DEF Elems
  <2>4. CASE At(c, "open") /\ frame'[c].pc = "opening" /\ frame'[c].todo = frame[c].todo
    BY <1>5, <2>1, <2>4 DEF Opened, CommitPcs
  <2>5. CASE At(c, "commit") /\ frame'[c].pc = "committing"
    BY <1>5, <2>1, <2>5 DEF Opened, CommitPcs
  <2>6. QED
    BY <1>10, <2>2, <2>3, <2>4, <2>5 DEF InLoop
<1>11. CASE Hears(c)
  <2> DEFINE h == Head(frame[c].todo)
  <2>1. h \in Servers /\ SameCall(c) /\ frame[c].todo # <<>> /\ frame'[c].todo = Tail(frame[c].todo)
        /\ \/ /\ At(c, "opening") /\ frame'[c].pc = "open"
              /\ rdmaInfo' = [rdmaInfo EXCEPT ![h] = @ \cup {Block(c)}]
           \/ At(c, "committing") /\ frame'[c].pc = "commit" /\ rdmaInfo' = rdmaInfo
    BY <1>11, HeardServer DEF Hears
  <2>2. CASE At(c, "opening")
    <3>1. frame'[c].pc = "open" /\ rdmaInfo' = [rdmaInfo EXCEPT ![h] = @ \cup {Block(c)}]
      BY <2>1, <2>2
    <3>2. s = h => Knows(c, s)'
      BY <1>0, <2>1, <3>1 DEF CtrlTypes, Knows, Block, SameCall
    <3>3. Knows(c, s) => Knows(c, s)'
      BY <1>0, <1>2, <2>1, <3>1 DEF CtrlTypes, Knows, Block, SameCall
    <3>4. QED
      BY <1>5, <1>6, <2>1, <2>2, <3>1, <3>2, <3>3 DEF Opened, CommitPcs
  <2>3. CASE At(c, "committing")
    <3>1. frame'[c].pc = "commit" /\ Knows(c, s)' = Knows(c, s) /\ frame'[c].op = frame[c].op
      BY <1>3, <2>1, <2>3 DEF SameCall
    <3>2. QED
      BY <1>5, <2>3, <3>1 DEF Opened, CommitPcs
  <2>4. QED
    BY <2>1, <2>2, <2>3
<1>12. CASE Passes(c)
  BY <1>3, <1>5, <1>12 DEF Passes, Opened, CommitPcs
<1>13. CASE EndsCommit(c)
  BY <1>3, <1>4, <1>5, <1>13 DEF EndsCommit, Opened, CommitPcs
<1>14. CASE Submits(c)
  BY <1>3, <1>5, <1>14 DEF Submits, Opened, CommitPcs
<1>15. CASE Counts(c) \/ Ends(c)
  BY <1>4, <1>15 DEF Counts, Ends, CommitPcs
<1>16. QED
  BY <1>7, <1>8, <1>9, <1>10, <1>11, <1>12, <1>13, <1>14, <1>15 DEF Form

\* A CPU does nothing to a server but hear it, and keeps the keys it knows.
LEMMA FormServers ==
    ASSUME AltTypes, CallsOK, NEW c \in Cpus, Form(c)
    PROVE  /\ \A s \in Servers : rdmaInfo[s] \subseteq rdmaInfo'[s]
           /\ UNCHANGED <<queueVars, listVars, rmhVars, rpcPc, req, historyVars>>
           /\ ~Hears(c) => SameServers
<1>1. CASE Hears(c)
  <2>1. UNCHANGED <<queueVars, listVars, rmhVars, rpcPc, req, historyVars>>
    BY <1>1, HeardServer
  <2>2. \/ rdmaInfo' = rdmaInfo
        \/ \E h, b : rdmaInfo' = [rdmaInfo EXCEPT ![h] = @ \cup b]
    BY <1>1 DEF Hears
  <2>3. rdmaInfo \in [Servers -> SUBSET Blocks]
    BY DEF AltTypes, CtrlTypes
  <2>4. QED
    BY <1>1, <2>1, <2>2, <2>3
<1>2. CASE ~Hears(c)
  <2>1. SameServers
    BY <1>2 DEF Form, Aside, Locks, StartsCommit, InLoop, Passes, EndsCommit, Submits,
                Counts, Ends, Still
  <2>2. QED
    BY <2>1 DEF SameServers, serverVars, rpcVars
<1>3. QED
  BY <1>1, <1>2

LEMMA CpuOpens ==
    ASSUME AltTypes, Clean, CallsOK, OpensAll, FramesOK', NEW c \in Cpus, CpuStep(c), ~failed'
    PROVE  OpensAll'
<1>0. FramesOK /\ CtrlTypes /\ loaded' = loaded
  BY CpuKeepsNode DEF AltTypes
<1>1. CASE PollsDone(c)
  <2>1. /\ UNCHANGED <<rdmaInfo, blocks>>
        /\ \A d \in Cpus : SameFields(d) /\ frame'[d].op = frame[d].op
    BY <1>0, <1>1, PolledFields DEF SameFields, ctrlVars, serverVars, rmhVars
  <2>2. \A d \in Cpus : Opens(d)'
    BY <1>0, <2>1, OpensKept DEF OpensAll
  <2>3. QED
    BY <2>1, <2>2 DEF OpensAll
<1>2. CASE ~PollsDone(c)
  <2>1. Form(c) /\ OthersKept(c)
    BY <1>2, NoOldAnswer, CpuForms
  <2>2. blocks' = blocks /\ \A s \in Servers : rdmaInfo[s] \subseteq rdmaInfo'[s]
    BY <2>1, FormServers DEF rmhVars
  <2>3. \A d \in Cpus : Opens(d)'
    <3>1. ASSUME NEW d \in Cpus, d # c PROVE Opens(d)'
      <4>1. Opens(d) /\ SameFields(d) /\ frame'[d].op = frame[d].op
        BY <2>1, <3>1 DEF OpensAll, OthersKept, SameFields
      <4>2. QED
        BY <1>0, <2>2, <4>1, OpensKept
    <3>2. Opens(c)'
      BY <1>0, <2>1, FormOpens DEF OpensAll
    <3>3. QED
      BY <3>1, <3>2
  <2>4. ASSUME NEW s \in Servers PROVE rdmaInfo'[s] \subseteq blocks'[s]
    <3>1. CASE Hears(c) /\ At(c, "opening")
      <4> DEFINE h == Head(frame[c].todo)
      <4>1. h \in Servers /\ Block(c) \in blocks[h] /\ rdmaInfo' = [rdmaInfo EXCEPT ![h] = @ \cup {Block(c)}]
        BY <3>1, HeardServer DEF Hears, At
      <4> HIDE DEF h
      <4>2. QED
        BY <1>0, <2>2, <4>1 DEF OpensAll, CtrlTypes
    <3>2. CASE ~(Hears(c) /\ At(c, "opening"))
      <4>1. rdmaInfo' = rdmaInfo
        BY <2>1, <3>2, FormServers DEF Hears, SameServers
      <4>2. QED
        BY <2>2, <4>1 DEF OpensAll
    <3>3. QED
      BY <3>1, <3>2
  <2>5. QED
    BY <2>3, <2>4 DEF OpensAll
<1>3. QED
  BY <1>1, <1>2

\* And a step of another actor leaves the keys alone.
LEMMA OthersOpen ==
    ASSUME CtrlTypes, OpensAll, rdmaInfo' = rdmaInfo, loaded' = loaded,
           \A s \in Servers : blocks[s] \subseteq blocks'[s],
           \A d \in Cpus : SameFields(d) /\ frame'[d].op = frame[d].op
    PROVE  OpensAll'
<1>1. \A d \in Cpus : Opens(d)'
  BY OpensKept DEF OpensAll
<1>2. QED
  BY <1>1 DEF OpensAll

\* Every page on its way to a server has its block there.
HasBlock(s, o) == BlockOf[o] \in blocks[s]

AtHome(s) ==
    /\ \A w \in Elems(sendq["mcast"]) : HasBlock(s, w.what.off)
    /\ \A p \in Elems(flight[s]) : HasBlock(s, p.off)
    /\ \A w \in Elems(cq[s]) : HasBlock(s, w.off)
    /\ flow[s] # None => HasBlock(s, flow[s].off)

LEMMA AtHomeKept ==
    ASSUME NEW s, AtHome(s), blocks[s] \subseteq blocks'[s],
           \A w \in Elems(sendq'["mcast"]) :
               w \in Elems(sendq["mcast"]) \/ HasBlock(s, w.what.off),
           \A p \in Elems(flight'[s]) : p \in Elems(flight[s]) \/ HasBlock(s, p.off),
           \A w \in Elems(cq'[s]) : w \in Elems(cq[s]) \/ HasBlock(s, w.off),
           flow'[s] # None => flow'[s] = flow[s] \/ HasBlock(s, flow'[s].off)
    PROVE  AtHome(s)'
<1>1. \A o : HasBlock(s, o) => HasBlock(s, o)'
  BY DEF HasBlock
<1>2. /\ \A w \in Elems(sendq'["mcast"]) : HasBlock(s, w.what.off)
      /\ \A p \in Elems(flight'[s]) : HasBlock(s, p.off)
      /\ \A w \in Elems(cq'[s]) : HasBlock(s, w.off)
      /\ flow'[s] # None => HasBlock(s, flow'[s].off)
  BY DEF AtHome
<1>3. QED
  BY <1>1, <1>2 DEF AtHome

LEMMA CpuAtHome ==
    ASSUME AltTypes, Clean, CallsOK, OpensAll, FramesOK', NEW c \in Cpus, CpuStep(c), ~failed',
           NEW s \in Alive, AtHome(s)
    PROVE  AtHome(s)'
<1>0. FramesOK /\ CtrlTypes /\ WireTypes /\ flight' = flight /\ s \in Servers
  BY CpuCtrlTypes, AliveStays DEF AltTypes
<1>1. CASE PollsDone(c)
  <2>1. UNCHANGED <<sendq, serverVars>>
    BY <1>1 DEF PollsDone
  <2>2. QED
    BY <1>0, <2>1, AtHomeKept DEF serverVars, queueVars, listVars, rmhVars
<1>2. CASE ~PollsDone(c)
  <2>1. Form(c) /\ OthersKept(c)
    BY <1>2, NoOldAnswer, CpuForms
  <2>2. UNCHANGED <<queueVars, listVars, rmhVars>>
    BY <2>1, FormServers
  <2>3. \A w \in Elems(sendq'["mcast"]) : w \in Elems(sendq["mcast"]) \/ HasBlock(s, w.what.off)
    <3>1. CASE NothingSent
      BY <3>1 DEF NothingSent
    <3>2. CASE ~NothingSent
      <4>1. Submits(c)
        BY <2>1, <3>2 DEF Form, Aside, Locks, StartsCommit, InLoop, Hears, Passes, EndsCommit,
                          Counts, Ends, Still
      <4>2. At(c, "post") /\ frame'[c].pc = "send" /\ frame'[c].page = frame[c].page
            /\ sendq'["mcast"] = Append(sendq["mcast"], WorkOf(c)')
        BY <4>1 DEF Submits, SameCall
      <4>3. WorkOf(c)' = [cpu |-> c, op |-> "page", what |-> frame[c].page]
        BY <4>2 DEF WorkOf, At
      <4>4. frame[c].page \in Page
        BY <1>0, <4>2, FrameFacts DEF At
      <4>5. WorkOf(c)' \in Work /\ WorkOf(c)'.what = frame[c].page
        BY <4>3, <4>4 DEF Work
      <4>6. sendq["mcast"] \in Seq(Work)
        BY <1>0 DEF WireTypes, Qps
      <4>7. Elems(sendq'["mcast"]) = Elems(sendq["mcast"]) \cup {WorkOf(c)'}
        BY <4>2, <4>5, <4>6, ElemsOfAppend
      <4>8. HasBlock(s, frame[c].page.off)
        <5>1. Knows(c, s)
          BY <4>2 DEF OpensAll, Opens, Opened, At
        <5>2. QED
          BY <1>0, <5>1 DEF OpensAll, Knows, Block, HasBlock
      <4>9. QED
        BY <4>5, <4>7, <4>8
    <3>3. QED
      BY <3>1, <3>2
  <2>4. QED
    BY <1>0, <2>2, <2>3, AtHomeKept DEF queueVars, listVars, rmhVars
<1>3. QED
  BY <1>1, <1>2

\* The multicast queue pair does the pages of those that send.
LEMMA McastWork ==
    ASSUME AltTypes, Clean, Matched, NEW q \in Qps, NEW op, NEW ok \in BOOLEAN,
           Completes(q, op, ok)
    PROVE  /\ "page" \in op \/ sendq'["mcast"] = sendq["mcast"]
           /\ q # "mcast" => "page" \notin op \/ Head(sendq[q]).op # "page"
           /\ q = "mcast" => Head(sendq[q]).op = "page"
<1> DEFINE w == Head(sendq[q])
<1>1. PICK d \in Cpus : /\ w.op \in op /\ w = WorkOf(d) /\ Polling(d) /\ QpOf(d) = q
  BY HeadOfWork
<1>2. sendq' = [sendq EXCEPT ![q] = Tail(@)]
  BY DEF Completes
<1> HIDE DEF w
<1>3. WorkOf(d).op = w.op /\ frame[d].pc \in PollsAt
  BY <1>1 DEF Polling
<1>4. At(d, "send") <=> w.op = "page"
  BY <1>3 DEF WorkOf, PollsAt, At
<1>5. At(d, "send") <=> q = "mcast"
  <2>1. At(d, "send") => q = "mcast"
    BY <1>1 DEF QpOf, At
  <2>2. ~At(d, "send") => q \in Servers
    <3>1. FramesOK
      BY DEF AltTypes
    <3>2. At(d, "read") => frame[d].ctrl \in Servers
      BY <3>1 DEF FramesOK, FrameOK, At
    <3>3. ~At(d, "idle")
      BY <1>3 DEF PollsAt, At
    <3>4. frame[d].pc \in {"opening", "committing", "writing"} => Head(frame[d].todo) \in Servers
      BY <3>1, <3>3, FrameFacts DEF FramesOK, FrameOK
    <3>5. QED
      BY <1>1, <1>3, <3>2, <3>4 DEF QpOf, PollsAt, At
  <2>3. QED
    BY <2>1, <2>2, QpsAssumption
<1>6. WireTypes
  BY DEF AltTypes
<1>7. q # "mcast" => sendq'["mcast"] = sendq["mcast"]
  BY <1>2, <1>6 DEF WireTypes, Qps
<1>8. QED
  BY <1>1, <1>4, <1>5, <1>7 DEF w

\* A page leaves the multicast queue pair for every server of the group.
LEMMA PageSent ==
    ASSUME AltTypes, Clean, Matched, NEW q \in Qps, SendsPage(q)
    PROVE  LET w == Head(sendq["mcast"]) IN
           /\ q = "mcast" /\ w \in Elems(sendq["mcast"]) /\ w.what \in Page
           /\ sendq["mcast"] \in Seq(Work) /\ sendq["mcast"] # <<>>
           /\ sendq'["mcast"] = Tail(sendq["mcast"])
           /\ \A s \in Alive : flight'[s] = Append(flight[s], w.what)
<1>1. Completes(q, {"page"}, TRUE) /\ TRUE \in BOOLEAN /\ WireTypes /\ CtrlTypes
  BY DEF SendsPage, AltTypes
<1>2. Completed(q, TRUE) /\ Head(sendq[q]).op = "page"
  <2>1. Completed(q, TRUE) /\ Head(sendq[q]).op \in {"page"}
    BY <1>1, WorkCompletes
  <2>2. QED
    BY <2>1
<1>3. q = "mcast"
  <2>1. q # "mcast" => "page" \notin {"page"} \/ Head(sendq[q]).op # "page"
    BY <1>1, McastWork
  <2>2. QED
    BY <1>2, <2>1
<1>4. /\ Head(sendq[q]).what \in Page /\ sendq[q] \in Seq(Work) /\ sendq[q] # <<>>
      /\ Head(sendq[q]) \in Elems(sendq[q]) /\ sendq'[q] = Tail(sendq[q])
  <2>1. Head(sendq[q]).what \in Page /\ sendq[q] \in Seq(Work) /\ sendq[q] # <<>>
    BY <1>2 DEF Completed, Work
  <2>2. sendq'[q] = Tail(sendq[q])
    BY <1>1, <1>2 DEF Completed, WireTypes
  <2>3. QED
    BY <2>1, <2>2, HeadAndTail
<1>5. \A s \in Alive : flight'[s] = Append(flight[s], Head(sendq[q]).what)
  BY <1>1, AliveStays DEF SendsPage
<1>6. QED
  BY <1>3, <1>4, <1>5

\* The other queue pairs do nothing to the pages on their way.
LEMMA NoPageSent ==
    ASSUME AltTypes, Clean, Matched, NEW q \in Qps, Executes(q), ~SendsPage(q), ~failed'
    PROVE  /\ NothingSent /\ flight' = flight
           /\ UNCHANGED <<queueVars, listVars, srvBatch, blocks, rpcPc, rep, historyVars>>
<1>1. ~WorkFails(q)
  BY DEF WorkFails, Completes
<1>2. ASSUME NEW op, Completes(q, op, TRUE), "page" \notin op PROVE NothingSent
  BY <1>2, McastWork DEF NothingSent
<1>3. CASE q \in Servers /\ SendsCall(q)
  <2>1. NothingSent
    BY <1>2, <1>3 DEF SendsCall
  <2>2. QED
    BY <1>3, <2>1 DEF SendsCall, Call, rmhVars
<1>4. CASE q \in Servers /\ ReadsPage(q)
  <2>1. NothingSent
    BY <1>2, <1>4 DEF ReadsPage
  <2>2. QED
    BY <1>4, <2>1 DEF ReadsPage, serverVars, rmhVars, rpcVars
<1>5. CASE q \in Servers /\ WritesPage(q)
  <2>1. NothingSent
    BY <1>2, <1>5 DEF WritesPage
  <2>2. QED
    BY <1>5, <2>1 DEF WritesPage, rpcVars
<1>6. QED
  BY <1>1, <1>3, <1>4, <1>5 DEF Executes

LEMMA WorkAtHome ==
    ASSUME AltTypes, Clean, Matched, NEW q \in Qps, Executes(q), ~failed',
           NEW s \in Alive, AtHome(s)
    PROVE  AtHome(s)'
<1>0. CtrlTypes /\ WireTypes /\ s \in Servers
  BY AliveStays DEF AltTypes
<1>1. CASE SendsPage(q)
  <2> DEFINE w == Head(sendq["mcast"])
  <2>1. /\ w \in Elems(sendq["mcast"]) /\ w.what \in Page
        /\ sendq["mcast"] \in Seq(Work) /\ sendq["mcast"] # <<>>
        /\ sendq'["mcast"] = Tail(sendq["mcast"]) /\ flight'[s] = Append(flight[s], w.what)
    BY <1>1, PageSent
  <2>2. Elems(sendq'["mcast"]) \subseteq Elems(sendq["mcast"])
    BY <2>1, HeadAndTail
  <2>3. flight[s] \in Seq(Page)
    BY <1>0 DEF WireTypes
  <2>4. Elems(flight'[s]) = Elems(flight[s]) \cup {w.what}
    BY <2>1, <2>3, ElemsOfAppend
  <2>5. HasBlock(s, w.what.off)
    BY <2>1 DEF AtHome
  <2>6. UNCHANGED serverVars
    BY <1>1 DEF SendsPage
  <2>7. QED
    BY <2>2, <2>4, <2>5, <2>6, AtHomeKept DEF serverVars, queueVars, listVars, rmhVars
<1>2. CASE ~SendsPage(q)
  BY <1>2, NoPageSent, AtHomeKept DEF NothingSent, queueVars, listVars
<1>3. QED
  BY <1>1, <1>2

LEMMA DeliversHead ==
    ASSUME AltTypes, NEW s \in Servers, Deliver(s)
    PROVE  LET p == Head(flight[s]) IN
           /\ p \in Page /\ flight[s] \in Seq(Page) /\ flight[s] # <<>> /\ p \in Elems(flight[s])
           /\ flight' = [flight EXCEPT ![s] = Tail(flight[s])]
           /\ Elems(Tail(flight[s])) \subseteq Elems(flight[s])
           /\ Receive(s, p)
<1>1. flight[s] \in Seq(Page) /\ flight[s] # <<>>
  BY DEF AltTypes, WireTypes, Deliver
<1>2. QED
  BY <1>1, HeadAndTail DEF Deliver

LEMMA ReceiveAppends ==
    ASSUME FarTypeOK, NEW s \in Servers, NEW p \in Page, Receive(s, p)
    PROVE  \E w \in Completion : cq'[s] = Append(cq[s], w) /\ w.off = p.off
<1> DEFINE w == [buf |-> Head(posted[s]), off |-> p.off]
<1>1. posted[s] \in Seq(Bufs) /\ posted[s] # <<>>
  BY DEF FarTypeOK, Receive
<1>2. Head(posted[s]) \in Bufs
  BY <1>1, HeadAndTail
<1>3. w \in Completion /\ w.off = p.off
  BY <1>2 DEF Completion, Page
<1>4. cq'[s] = Append(cq[s], w)
  BY DEF FarTypeOK, Receive
<1> HIDE DEF w
<1>5. QED
  BY <1>3, <1>4

LEMMA ServersAtHome ==
    ASSUME AltTypes, NEW t \in Servers, Deliver(t) \/ ServerRuns(t), NEW s \in Alive, AtHome(s)
    PROVE  AtHome(s)'
<1>0. FarTypeOK /\ CtrlTypes /\ WireTypes /\ s \in Servers
  BY AliveStays DEF AltTypes, ServerInv
<1>1. QueueInv(t)
  BY DEF AltTypes, ServerInv
<1>2. CASE Deliver(t)
  <2> DEFINE p == Head(flight[t])
  <2>1. /\ p \in Page /\ p \in Elems(flight[t])
        /\ flight' = [flight EXCEPT ![t] = Tail(flight[t])]
        /\ Elems(Tail(flight[t])) \subseteq Elems(flight[t])
        /\ Receive(t, p)
    BY <1>2, DeliversHead
  <2>2. UNCHANGED <<listVars, rmhVars>> /\ sendq' = sendq
    BY <1>2, <2>1 DEF Receive, Deliver
  <2> HIDE DEF p
  <2>3. Elems(flight'[s]) \subseteq Elems(flight[s])
    BY <1>0, <2>1 DEF WireTypes
  <2>4. ASSUME s = t PROVE \A w \in Elems(cq'[s]) : w \in Elems(cq[s]) \/ HasBlock(s, w.off)
    <3>1. HasBlock(s, p.off)
      BY <2>1, <2>4 DEF AtHome
    <3>2. PICK w \in Completion : cq'[t] = Append(cq[t], w) /\ w.off = p.off
      BY <1>0, <2>1, ReceiveAppends
    <3>3. cq[t] \in Seq(Completion)
      BY <1>0 DEF FarTypeOK
    <3>4. Elems(cq'[t]) = Elems(cq[t]) \cup {w}
      BY <3>2, <3>3, ElemsOfAppend
    <3>5. QED
      BY <2>4, <3>1, <3>2, <3>4
  <2>5. s # t => cq'[s] = cq[s]
    BY <1>0, <2>1 DEF Receive, FarTypeOK
  <2>6. QED
    BY <2>2, <2>3, <2>4, <2>5, AtHomeKept DEF listVars, rmhVars
<1>3. CASE ServerRuns(t)
  <2>1. sendq' = sendq /\ flight' = flight /\ StepOf(t)
    BY <1>3 DEF ServerRuns, StepOf, wireVars
  <2>2. blocks[s] \subseteq blocks'[s]
    BY <1>0, <2>1, BlocksGrow
  <2>3. CASE s # t
    BY <1>0, <2>1, <2>2, <2>3, OneServer, AtHomeKept DEF Untouched
  <2>4. CASE s = t /\ FlowAdd(s)
    <3> DEFINE w == Head(cq[s])
    <3>1. w \in Elems(cq[s]) /\ Elems(cq[s]) = {w} \cup Elems(cq'[s]) /\ flow'[s] = w
      BY <1>0, <1>1, <2>4, FlowAddDoes DEF QueueInv
    <3>2. HasBlock(s, w.off)
      BY <3>1 DEF AtHome
    <3>3. QED
      BY <2>1, <2>2, <3>1, <3>2, AtHomeKept
  <2>5. CASE s = t /\ FlowConvey(s)
    <3>1. cq' = cq /\ flow'[s] = None
      BY <1>0, <2>5, FlowConveyDoes
    <3>2. QED
      BY <2>1, <2>2, <3>1, AtHomeKept
  <2>6. CASE s = t /\ RdmaThread(s)
    <3>1. cq' = cq /\ flow' = flow
      BY <2>6 DEF RdmaThread, ServeOpen, CommitEmpty, CommitBegin, CommitConvey, CommitPutback, CommitReset,
                  queueVars, listVars
    <3>2. QED
      BY <2>1, <2>2, <3>1, AtHomeKept
  <2>7. QED
    BY <1>3, <2>3, <2>4, <2>5, <2>6 DEF ServerRuns, MulticastThread
<1>4. QED
  BY <1>2, <1>3

----------------------------------------------------------------------------
(* The account of a batch: what the driver has sent since the last commit   *)
(* is what a server has counted and what is on its way there.               *)

\* While a commit is under way it waits for every page let through.
Covers ==
    \A c \in Cpus : frame[c].pc \in CommitPcs => Uncounted = {} /\ batch <= SERVER_BATCH

TodoOnce == \A c \in Cpus : frame[c].pc \in CommitPcs => Distinct(frame[c].todo)

\* The server has answered the commit of the batch.
Settled(s) ==
    \/ rep[s] = "committed"
    \/ \E c \in Cpus : frame[c].pc \in CommitPcs /\ s \notin Elems(frame[c].todo)

Sending == {c \in Cpus : At(c, "send")}

\* The pages the driver has sent, counted or not.
Sent == batch + Cardinality(Sending)

Working(s) == IF flow[s] = None THEN 0 ELSE 1

\* The pages on their way to a server's count.
Underway(s) == Len(sendq["mcast"]) + Len(flight[s]) + Len(cq[s]) + Working(s)

Tally(s) == srvBatch[s] + Underway(s)

\* No commit works on the page the multicast thread is at, and what is listed was
\* conveyed.
Undisturbed(s) ==
    /\ ~clash[s]
    /\ flow[s] # None => ~convey[s][flow[s].buf]
    /\ \A b \in Elems(commitList[s]) : convey[s][b] \/ (flow[s] # None /\ flow[s].buf = b)

\* The commit is past its wait.
PutbackPcs == {"putback", "reset"}

Accounted(s) ==
    /\ Undisturbed(s)
    /\ rpcPc[s] \in PutbackPcs => Underway(s) = 0
    /\ Settled(s) => Underway(s) = 0 /\ srvBatch[s] = 0
    /\ ~Settled(s) => Tally(s) = Sent

Account ==
    /\ Covers /\ TodoOnce
    /\ \A s \in Alive : ~early[s] => Accounted(s)

LEMMA AmountsNat ==
    ASSUME AltTypes, NEW s \in Servers
    PROVE  /\ Len(sendq["mcast"]) \in Nat /\ Len(flight[s]) \in Nat /\ Len(cq[s]) \in Nat
           /\ Working(s) \in Nat /\ Underway(s) \in Nat /\ srvBatch[s] \in Nat
           /\ batch \in Nat /\ Cardinality(Sending) \in Nat /\ Sent \in Nat
           /\ IsFiniteSet(Sending)
<1>1. sendq["mcast"] \in Seq(Work) /\ flight[s] \in Seq(Page) /\ cq[s] \in Seq(Completion)
  BY DEF AltTypes, WireTypes, Qps, ServerInv, FarTypeOK
<1>2. Len(sendq["mcast"]) \in Nat /\ Len(flight[s]) \in Nat /\ Len(cq[s]) \in Nat
  BY <1>1, LenProperties
<1>3. Working(s) \in Nat
  BY DEF Working
<1>4. srvBatch[s] \in Nat /\ batch \in Nat
  BY DEF AltTypes, CtrlTypes, ServerInv, FarTypeOK
<1>5. Sending \subseteq Cpus
  BY DEF Sending
<1>6. IsFiniteSet(Sending) /\ Cardinality(Sending) \in Nat
  BY <1>5, UncountedFinite
<1>7. Underway(s) \in Nat
  <2> DEFINE a == Len(sendq["mcast"])  b == Len(flight[s])  d == Len(cq[s])  e == Working(s)
  <2>1. a \in Nat /\ b \in Nat /\ d \in Nat /\ e \in Nat /\ Underway(s) = a + b + d + e
    BY <1>2, <1>3 DEF Underway
  <2> HIDE DEF a, b, d, e
  <2>2. QED
    BY <2>1
<1>8. Sent \in Nat
  <2> DEFINE k == Cardinality(Sending)
  <2>1. k \in Nat /\ Sent = batch + k
    BY <1>6 DEF Sent
  <2> HIDE DEF k
  <2>2. QED
    BY <1>4, <2>1
<1>9. QED
  BY <1>2, <1>3, <1>4, <1>6, <1>7, <1>8

\* A CPU whose step does not touch a commit.
CommitsAs(d) ==
    /\ frame'[d].pc \in CommitPcs <=> frame[d].pc \in CommitPcs
    /\ frame[d].pc \in CommitPcs => frame'[d].todo = frame[d].todo

LEMMA SettledKept ==
    ASSUME NEW s, rep'[s] = "committed" <=> rep[s] = "committed", \A d \in Cpus : CommitsAs(d)
    PROVE  Settled(s)' <=> Settled(s)
BY DEF Settled, CommitsAs

LEMMA SendingKept ==
    ASSUME \A d \in Cpus : frame'[d].pc = "send" <=> frame[d].pc = "send"
    PROVE  Sending' = Sending /\ (batch' = batch => Sent' = Sent)
<1>1. Sending' = Sending
  BY DEF Sending, At
<1>2. QED
  BY <1>1 DEF Sent

LEMMA UnderwayKept ==
    ASSUME NEW s, NothingSent, flight'[s] = flight[s], cq'[s] = cq[s], flow'[s] = flow[s]
    PROVE  Underway(s)' = Underway(s)
BY DEF NothingSent, Underway, Working

LEMMA AccountedKept ==
    ASSUME NEW s, Accounted(s), clash'[s] = clash[s], flow'[s] = flow[s], convey'[s] = convey[s],
           commitList'[s] = commitList[s], rpcPc'[s] = rpcPc[s], srvBatch'[s] = srvBatch[s],
           Underway(s)' = Underway(s), Sent' = Sent, Settled(s)' <=> Settled(s)
    PROVE  Accounted(s)'
<1>1. Undisturbed(s)'
  BY DEF Accounted, Undisturbed
<1>2. QED
  BY <1>1 DEF Accounted, Tally

\* While no CPU commits, no server has a commit to answer.
LEMMA NoCommitNow ==
    ASSUME WireTypes, CallsOK, \A d \in Cpus : frame[d].pc \notin CommitPcs, NEW s \in Servers
    PROVE  ~Settled(s) /\ rep[s] # "committed" /\ rpcPc[s] = "idle"
<1>1. rep[s] # "committed" /\ rpcPc[s] = "idle"
  <2>1. CASE caller[s] = None
    BY <2>1, NoReplyAssumption DEF CallsOK, CallOK
  <2>2. ASSUME NEW d \in Cpus, d = caller[s], d # None PROVE rep[s] # "committed" /\ rpcPc[s] = "idle"
    <3>1. Answering(d, s) /\ ~At(d, "committing")
      BY <2>2 DEF CallsOK, CallOK, At, CommitPcs
    <3>2. QED
      BY <3>1, NoReplyAssumption DEF Answering
  <2>3. QED
    BY <2>1, <2>2 DEF WireTypes
<1>2. QED
  BY <1>1 DEF Settled

\* A step of the account leaves no other CPU in a commit.
LEMMA FormAlone ==
    ASSUME LockHeld, Covers, NEW c \in Cpus, Form(c), ~Aside(c), NEW d \in Cpus, d # c
    PROVE  frame[d].pc \notin CommitPcs
<1>1. frame[c].pc \in LockPcs \/ spin = None \/ frame[c].pc \in {"mark", "post", "send"}
  BY DEF Form, Locks, StartsCommit, InLoop, Hears, Passes, EndsCommit, Submits, Counts, Ends,
         At, LockPcs
<1>2. CommitPcs \subseteq LockPcs
  BY DEF CommitPcs, LockPcs
<1>3. CASE frame[c].pc \in LockPcs \/ spin = None
  BY <1>2, <1>3, AltCpusAssumption DEF LockHeld
<1>4. CASE frame[c].pc \in {"mark", "post", "send"}
  BY <1>4 DEF Covers, Uncounted
<1>5. QED
  BY <1>1, <1>3, <1>4

LEMMA AliveDistinct == CtrlTypes => Distinct(AliveOrder)
BY AliveOnceAssumption DEF CtrlTypes, AliveOrder, Distinct

LEMMA FormCovers ==
    ASSUME AltTypes, LockHeld, Covers, TodoOnce, NEW c \in Cpus, Form(c), OthersKept(c), ~blurred'
    PROVE  Covers' /\ TodoOnce'
<1>0. FramesOK /\ CtrlTypes
  BY DEF AltTypes
<1>1. CASE Aside(c)
  <2>1. batch' = batch /\ frame[c].pc \notin CountedPcs /\ frame'[c].pc \notin CountedPcs
    BY <1>1 DEF Aside, Still, SameBatch
  <2>2. Uncounted' = Uncounted
    BY <2>1 DEF Uncounted, CountedPcs, OthersKept
  <2>3. \A d \in Cpus : frame'[d].pc \in CommitPcs => frame[d].pc \in CommitPcs /\ frame'[d] = frame[d]
    BY <2>1 DEF CountedPcs, OthersKept
  <2>4. QED
    BY <2>1, <2>2, <2>3 DEF Covers, TodoOnce
<1>2. CASE ~Aside(c)
  <2>1. \A d \in Cpus : d # c => frame'[d].pc \notin CommitPcs
    BY <1>2, FormAlone DEF OthersKept
  <2>2. ASSUME frame'[c].pc \in CommitPcs
        PROVE  Uncounted' = {} /\ batch' <= SERVER_BATCH /\ Distinct(frame'[c].todo)
    <3>1. ASSUME Uncounted = {} PROVE Uncounted' = {}
      BY <2>2, <3>1 DEF Uncounted, OthersKept, CommitPcs
    <3>2. StartsCommit(c) \/ InLoop(c) \/ Hears(c)
      BY <1>2, <2>2 DEF Form, Locks, Passes, EndsCommit, Submits, Counts, Ends, CommitPcs
    <3>3. CASE StartsCommit(c)
      <4>1. Uncounted = {} /\ ~(batch > SERVER_BATCH) /\ batch' = batch /\ frame'[c].todo = AliveOrder
        BY <3>3 DEF StartsCommit
      <4>2. batch <= SERVER_BATCH
        BY <1>0, <4>1, ServerBatchAssumption DEF CtrlTypes
      <4>3. QED
        BY <1>0, <3>1, <4>1, <4>2, AliveDistinct
    <3>4. CASE InLoop(c)
      <4>1. At(c, "commit") /\ frame'[c].todo = frame[c].todo /\ batch' = batch
        BY <2>2, <3>4 DEF InLoop, CommitPcs, Still, SameBatch
      <4>2. Uncounted = {} /\ batch <= SERVER_BATCH /\ Distinct(frame[c].todo)
        BY <4>1 DEF Covers, TodoOnce, CommitPcs, At
      <4>3. QED
        BY <3>1, <4>1, <4>2
    <3>5. CASE Hears(c)
      <4>1. At(c, "committing") /\ frame'[c].todo = Tail(frame[c].todo) /\ batch' = batch
            /\ frame[c].todo # <<>>
        BY <2>2, <3>5 DEF Hears, CommitPcs, SameBatch
      <4>2. Uncounted = {} /\ batch <= SERVER_BATCH /\ Distinct(frame[c].todo)
        BY <4>1 DEF Covers, TodoOnce, CommitPcs, At
      <4>3. frame[c].todo \in Seq(Servers)
        BY <1>0 DEF FramesOK, Frame
      <4>4. QED
        BY <3>1, <4>1, <4>2, <4>3, HeadAndTail
    <3>6. QED
      BY <3>2, <3>3, <3>4, <3>5
  <2>3. QED
    BY <2>1, <2>2 DEF Covers, TodoOnce
<1>3. QED
  BY <1>1, <1>2

\* A step that neither begins nor ends anything of the account.
LEMMA KeptAccounts ==
    ASSUME NEW s \in Servers, Accounted(s), UNCHANGED <<queueVars, listVars, srvBatch, rpcPc, historyVars>>,
           rep'[s] = "committed" <=> rep[s] = "committed", NothingSent, flight' = flight,
           batch' = batch, \A d \in Cpus : CommitsAs(d),
           \A d \in Cpus : frame'[d].pc = "send" <=> frame[d].pc = "send"
    PROVE  Accounted(s)'
<1>1. Settled(s)' <=> Settled(s)
  BY SettledKept
<1>2. Sent' = Sent
  BY SendingKept
<1>3. Underway(s)' = Underway(s)
  BY UnderwayKept DEF queueVars, listVars
<1>4. QED
  BY <1>1, <1>2, <1>3, AccountedKept DEF queueVars, listVars, historyVars

LEMMA StartAccounts ==
    ASSUME AltTypes, LockHeld, CallsOK, Covers, NEW c \in Cpus, StartsCommit(c), OthersKept(c),
           flight' = flight, NEW s \in Alive, Accounted(s)
    PROVE  Accounted(s)'
<1>0. WireTypes /\ CtrlTypes /\ s \in Servers
  BY AliveStays DEF AltTypes
<1>1. /\ At(c, "check") \/ (At(c, "overdue") /\ spin = None)
      /\ frame'[c].pc = "commit" /\ frame'[c].todo = AliveOrder
      /\ SameServers /\ NothingSent /\ batch' = batch
  BY DEF StartsCommit
<1>2. \A d \in Cpus : frame[d].pc \notin CommitPcs /\ (d # c => frame'[d].pc \notin CommitPcs)
  <2>1. ~Aside(c) /\ Form(c)
    BY <1>1 DEF Aside, CountedPcs, CommitPcs, Form
  <2>2. frame[c].pc \notin CommitPcs
    BY <1>1 DEF At, CommitPcs
  <2>3. QED
    BY <2>1, <2>2, FormAlone DEF OthersKept
<1>3. ~Settled(s) /\ rep[s] # "committed"
  BY <1>0, <1>2, NoCommitNow
<1>4. ~Settled(s)'
  <2>1. rep'[s] # "committed"
    BY <1>1, <1>3 DEF SameServers, serverVars, rpcVars
  <2>2. s \in Elems(frame'[c].todo)
    BY <1>0, <1>1, AliveStays
  <2>3. QED
    BY <1>2, <2>1, <2>2 DEF Settled
<1>5. Sent' = Sent
  <2>1. \A d \in Cpus : frame'[d].pc = "send" <=> frame[d].pc = "send"
    BY <1>1 DEF OthersKept, At
  <2>2. QED
    BY <1>1, <2>1, SendingKept
<1>6. Underway(s)' = Underway(s)
  BY <1>1, UnderwayKept DEF SameServers, serverVars, queueVars, listVars
<1>7. QED
  BY <1>1, <1>3, <1>4, <1>5, <1>6, AccountedKept
     DEF SameServers, serverVars, listVars, rmhVars, rpcVars, historyVars

\* The answer of a server: it stays settled, off the list of those to call.
LEMMA HearAccounts ==
    ASSUME AltTypes, CallsOK, LockHeld, Covers, TodoOnce, NEW c \in Cpus, Hears(c), OthersKept(c),
           flight' = flight, NEW s \in Servers, Accounted(s)
    PROVE  Accounted(s)'
<1>0. FramesOK /\ FarTypeOK
  BY DEF AltTypes, ServerInv
<1> DEFINE h == Head(frame[c].todo)
<1>1. /\ h \in Servers /\ rep' = [rep EXCEPT ![h] = None]
      /\ At(c, "opening") => rep[h] = "opened"
      /\ At(c, "committing") => rep[h] = "committed"
      /\ UNCHANGED <<queueVars, listVars, rmhVars, rpcPc, req, historyVars>>
  BY HeardServer
<1>2. /\ NothingSent /\ batch' = batch /\ frame[c].todo # <<>> /\ frame'[c].todo = Tail(frame[c].todo)
      /\ \/ At(c, "opening") /\ frame'[c].pc = "open"
         \/ At(c, "committing") /\ frame'[c].pc = "commit"
  BY DEF Hears, SameBatch
<1> HIDE DEF h
<1>3. \A d \in Cpus : frame'[d].pc = "send" <=> frame[d].pc = "send"
  BY <1>2 DEF OthersKept, At
<1>4. \A d \in Cpus : d # c => frame[d].pc \notin CommitPcs /\ frame'[d].pc \notin CommitPcs
  <2>1. ~Aside(c) /\ Form(c)
    BY <1>2 DEF Aside, CountedPcs, CommitPcs, Form, At
  <2>2. QED
    BY <2>1, FormAlone DEF OthersKept
<1>5. Settled(s)' <=> Settled(s)
  <2>1. s # h => rep'[s] = rep[s]
    BY <1>0, <1>1 DEF FarTypeOK
  <2>2. s = h => rep'[s] # "committed"
    BY <1>0, <1>1, NoReplyAssumption DEF FarTypeOK
  <2>3. CASE At(c, "opening")
    <3>1. rep'[s] = "committed" <=> rep[s] = "committed"
      BY <1>1, <2>1, <2>2, <2>3
    <3>2. \A d \in Cpus : CommitsAs(d)
      <4>1. CommitsAs(c)
        BY <1>2, <2>3 DEF CommitsAs, At, CommitPcs
      <4>2. QED
        BY <1>4, <4>1 DEF CommitsAs
    <3>3. QED
      BY <3>1, <3>2, SettledKept
  <2>4. CASE At(c, "committing")
    <3>1. frame[c].pc \in CommitPcs /\ frame'[c].pc \in CommitPcs
      BY <1>2, <2>4 DEF At, CommitPcs
    <3>2. frame[c].todo \in Seq(Servers) /\ Distinct(frame[c].todo)
      BY <1>0, <3>1 DEF FramesOK, Frame, TodoOnce
    <3>3. Elems(frame[c].todo) = {h} \cup Elems(Tail(frame[c].todo)) /\ h \notin Elems(Tail(frame[c].todo))
      BY <1>2, <3>2, HeadAndTail DEF h
    <3>4. CASE s = h
      <4>1. Settled(s)
        BY <1>1, <2>4, <3>4 DEF Settled
      <4>2. Settled(s)'
        BY <1>2, <3>1, <3>3, <3>4 DEF Settled
      <4>3. QED
        BY <4>1, <4>2
    <3>5. CASE s # h
      <4>1. s \in Elems(frame'[c].todo) <=> s \in Elems(frame[c].todo)
        BY <1>2, <3>3, <3>5
      <4>2. QED
        BY <1>4, <2>1, <3>1, <3>5, <4>1 DEF Settled
    <3>6. QED
      BY <3>4, <3>5
  <2>5. QED
    BY <1>2, <2>3, <2>4
<1>6. Sent' = Sent
  BY <1>2, <1>3, SendingKept
<1>7. Underway(s)' = Underway(s)
  BY <1>1, <1>2, UnderwayKept DEF queueVars, listVars
<1>8. QED
  BY <1>1, <1>5, <1>6, <1>7, AccountedKept DEF listVars, rmhVars, historyVars

\* free_addr: every server has answered, and the batch starts anew.
LEMMA EndAccounts ==
    ASSUME AltTypes, CallsOK, LockHeld, Covers, NEW c \in Cpus, EndsCommit(c), OthersKept(c),
           flight' = flight, NEW s \in Servers, Accounted(s)
    PROVE  Accounted(s)'
<1>1. /\ At(c, "commit") /\ frame[c].todo = <<>> /\ batch' = 0 /\ SameServers /\ NothingSent
      /\ frame'[c].pc \in {"mark", "idle", "load"}
  BY DEF EndsCommit
<1>2. \A d \in Cpus : d # c => frame[d].pc \notin CommitPcs /\ frame'[d].pc \notin CommitPcs
  <2>1. ~Aside(c) /\ Form(c)
    BY <1>1 DEF Aside, CountedPcs, CommitPcs, Form, At
  <2>2. QED
    BY <2>1, FormAlone DEF OthersKept
<1>3. frame[c].pc \in CommitPcs /\ frame'[c].pc \notin CommitPcs
  BY <1>1 DEF At, CommitPcs
<1>4. Underway(s) = 0 /\ srvBatch[s] = 0 /\ Undisturbed(s)
  <2>1. Settled(s)
    BY <1>1, <1>3 DEF Settled, Elems
  <2>2. QED
    BY <2>1 DEF Accounted
<1>5. ~Settled(s)'
  <2>1. rep[s] # "committed"
    <3> SUFFICES ASSUME rep[s] = "committed" PROVE FALSE
      OBVIOUS
    <3>1. caller[s] \in Cpus \cup {None}
      BY DEF AltTypes, WireTypes
    <3>2. caller[s] # None /\ Answering(caller[s], s)
      BY NoReplyAssumption DEF CallsOK, CallOK
    <3>3. At(caller[s], "committing")
      BY <3>2, NoReplyAssumption DEF Answering
    <3>4. QED
      BY <1>1, <1>2, <3>1, <3>2, <3>3 DEF At, CommitPcs
  <2>2. rep' = rep
    BY <1>1 DEF SameServers, serverVars, rpcVars
  <2>3. QED
    BY <1>2, <1>3, <2>1, <2>2 DEF Settled
<1>6. Sending' = {}
  <2>1. Uncounted = {}
    BY <1>3 DEF Covers
  <2>2. QED
    BY <1>1, <2>1 DEF Uncounted, Sending, At, OthersKept
<1>7. Sent' = 0
  <2>1. Cardinality(Sending') = 0
    BY <1>6, FS_EmptySet
  <2>2. QED
    BY <1>1, <2>1 DEF Sent
<1>8. Underway(s)' = Underway(s)
  BY <1>1, UnderwayKept DEF SameServers, serverVars, queueVars, listVars
<1>9. Undisturbed(s)' /\ srvBatch'[s] = srvBatch[s]
  BY <1>1, <1>4 DEF SameServers, serverVars, listVars, rmhVars, historyVars, Undisturbed
<1>10. QED
  BY <1>4, <1>5, <1>7, <1>8, <1>9 DEF Accounted, Tally

\* A page is sent, or counted.
LEMMA SendAccounts ==
    ASSUME AltTypes, CallsOK, Covers, NEW c \in Cpus, Submits(c) \/ Counts(c), OthersKept(c),
           flight' = flight, NEW s \in Servers, Accounted(s)
    PROVE  Accounted(s)'
<1>0. FramesOK /\ WireTypes
  BY DEF AltTypes
<1>1. SameServers /\ frame[c].pc \in {"mark", "post", "send"} /\ frame'[c].pc \in {"send", "idle"}
  BY DEF Submits, Counts, At
<1>2. \A d \in Cpus : frame[d].pc \notin CommitPcs /\ frame'[d].pc \notin CommitPcs
  <2>1. \A d \in Cpus : frame[d].pc \notin CommitPcs
    BY <1>1 DEF Covers, Uncounted
  <2>2. QED
    BY <1>1, <2>1 DEF OthersKept, CommitPcs
<1>3. ~Settled(s) /\ rep[s] # "committed" /\ rpcPc[s] = "idle"
  BY <1>0, <1>2, NoCommitNow
<1>4. ~Settled(s)' /\ rpcPc'[s] = "idle"
  BY <1>1, <1>2, <1>3 DEF SameServers, serverVars, rpcVars, Settled
<1>5. Undisturbed(s)' /\ srvBatch'[s] = srvBatch[s] /\ cq' = cq /\ flow' = flow
  BY <1>1 DEF SameServers, serverVars, queueVars, listVars, rmhVars, historyVars, Undisturbed, Accounted
<1>6. Tally(s) = Sent
  BY <1>3 DEF Accounted
<1> DEFINE m == Len(sendq["mcast"])  f == Len(flight[s])  q == Len(cq[s])  w == Working(s)
           k == Cardinality(Sending)  v == srvBatch[s]
<1>7. /\ m \in Nat /\ f \in Nat /\ q \in Nat /\ w \in Nat /\ k \in Nat /\ v \in Nat /\ batch \in Nat
      /\ Tally(s) = v + (m + f + q + w) /\ Sent = batch + k
      /\ Tally(s)' = v + (m' + f + q + w) /\ Sent' = batch' + k' /\ IsFiniteSet(Sending)
  <2>1. Working(s)' = Working(s)
    BY <1>5 DEF Working
  <2>2. QED
    BY <1>5, <2>1, AmountsNat DEF Tally, Underway, Sent
<1>8. /\ \A a, d \in Nat : v + (m + f + q + w) = a + d => v + ((m + 1) + f + q + w) = a + (d + 1)
      /\ \A a, d \in Nat : v + (m + f + q + w) = a + d => v + (m + f + q + w) = (a + 1) + (d - 1)
  <2> HIDE DEF m, f, q, w, k, v
  <2>1. QED
    BY <1>7
<1>9. Tally(s)' = Sent'
  <2>1. CASE Submits(c)
    <3>1. m' = m + 1
      <4>1. sendq'["mcast"] = Append(sendq["mcast"], WorkOf(c)') /\ sendq["mcast"] \in Seq(Work)
        BY <1>0, <2>1 DEF Submits, WireTypes, Qps
      <4>2. At(c, "post") /\ frame'[c].pc = "send" /\ frame'[c].page = frame[c].page
        BY <2>1 DEF Submits, SameCall
      <4>3. WorkOf(c)' = [cpu |-> c, op |-> "page", what |-> frame[c].page] /\ frame[c].page \in Page
        BY <1>0, <4>2, FrameFacts DEF WorkOf, At
      <4>4. WorkOf(c)' \in Work
        BY <4>3 DEF Work
      <4>5. QED
        BY <4>1, <4>4, AppendProperties
    <3>2. k' = k + 1
      <4>1. Sending' = Sending \cup {c} /\ c \notin Sending
        BY <2>1 DEF Submits, Sending, At, OthersKept
      <4>2. QED
        BY <1>7, <4>1, FS_AddElement
    <3>3. batch' = batch
      BY <2>1 DEF Submits, SameBatch
    <3> HIDE DEF m, f, q, w, k, v
    <3>4. v + (m + f + q + w) = batch + k
      BY <1>6, <1>7
    <3>5. v + ((m + 1) + f + q + w) = batch + (k + 1)
      BY <1>7, <1>8, <3>4
    <3>6. QED
      BY <1>7, <3>1, <3>2, <3>3, <3>5, Zenon
  <2>2. CASE Counts(c)
    <3>1. m' = m /\ batch' = batch + 1
      BY <2>2 DEF Counts, NothingSent
    <3>2. k' = k - 1
      <4>1. Sending' = Sending \ {c} /\ c \in Sending
        BY <2>2 DEF Counts, Sending, At, OthersKept
      <4>2. QED
        BY <1>7, <4>1, FS_RemoveElement
    <3> HIDE DEF m, f, q, w, k, v
    <3>3. v + (m + f + q + w) = batch + k
      BY <1>6, <1>7
    <3>4. v + (m + f + q + w) = (batch + 1) + (k - 1)
      BY <1>7, <1>8, <3>3
    <3>5. QED
      BY <1>7, <3>1, <3>2, <3>4, Zenon
  <2>3. QED
    BY <2>1, <2>2
<1>10. QED
  BY <1>4, <1>5, <1>9 DEF Accounted, PutbackPcs

\* A step that keeps the frames and the batch keeps what the account says of them.
LEMMA FieldsAccount ==
    ASSUME Covers, TodoOnce, batch' = batch, \A d \in Cpus : SameFields(d)
    PROVE  /\ Covers' /\ TodoOnce' /\ \A d \in Cpus : CommitsAs(d)
           /\ \A d \in Cpus : frame'[d].pc = "send" <=> frame[d].pc = "send"
<1>1. Uncounted' = Uncounted
  BY DEF Uncounted, SameFields
<1>2. Covers' /\ TodoOnce'
  BY <1>1 DEF Covers, TodoOnce, SameFields
<1>3. QED
  BY <1>2 DEF CommitsAs, SameFields

LEMMA CpuAccount ==
    ASSUME AltTypes, Clean, CallsOK, FramesOK', NEW c \in Cpus, CpuStep(c), ~failed',
           ~blurred => Account, ~blurred'
    PROVE  Account'
<1>0. /\ FramesOK /\ CtrlTypes /\ WireTypes /\ flight' = flight /\ Alive' = Alive /\ LockHeld
      /\ Alive \subseteq Servers
  BY CpuCtrlTypes, AliveStays, CpuKeepsNode DEF AltTypes, Clean
<1>1. CASE PollsDone(c)
  <2>1. /\ UNCHANGED <<ctrlVars, sendq, flight, historyOfCalls, serverVars>>
        /\ \A d \in Cpus : SameFields(d)
    BY <1>0, <1>1, PolledFields DEF SameFields
  <2>2. batch' = batch /\ NothingSent /\ rep' = rep /\ early' = early
        /\ UNCHANGED <<queueVars, listVars, srvBatch, rpcPc, historyVars>>
    BY <2>1 DEF ctrlVars, NothingSent, serverVars, rmhVars, rpcVars, historyVars
  <2>3. Account
    BY <2>1 DEF historyOfCalls
  <2>4. /\ Covers' /\ TodoOnce' /\ \A d \in Cpus : CommitsAs(d)
        /\ \A d \in Cpus : frame'[d].pc = "send" <=> frame[d].pc = "send"
    BY <2>1, <2>2, <2>3, FieldsAccount DEF Account
  <2>5. ASSUME NEW s \in Alive, Accounted(s) PROVE Accounted(s)'
    BY <1>0, <2>1, <2>2, <2>4, <2>5, KeptAccounts
  <2>6. QED
    BY <1>0, <2>2, <2>3, <2>4, <2>5 DEF Account
<1>2. CASE ~PollsDone(c)
  <2>1. Form(c) /\ OthersKept(c)
    BY <1>2, NoOldAnswer, CpuForms
  <2>2. Account
    <3>1. StartsCommit(c) \/ blurred' = blurred
      <4>1. Still \/ SameBatch => blurred' = blurred
        BY DEF Still, SameBatch
      <4>2. Aside(c) \/ Locks(c) \/ InLoop(c) \/ Passes(c) \/ Ends(c) => Still
        BY DEF Aside, Locks, InLoop, Passes, Ends
      <4>3. Hears(c) \/ Submits(c) => SameBatch
        BY DEF Hears, Submits
      <4>4. EndsCommit(c) \/ Counts(c) => blurred' = blurred
        BY DEF EndsCommit, Counts
      <4>5. QED
        BY <2>1, <4>1, <4>2, <4>3, <4>4 DEF Form
    <3>2. StartsCommit(c) => ~blurred
      BY DEF StartsCommit
    <3>3. QED
      BY <3>1, <3>2
  <2>3. Covers' /\ TodoOnce'
    BY <1>0, <2>1, <2>2, FormCovers DEF Account
  <2>4. early' = early
    BY <2>1, FormServers DEF historyVars
  <2>5. ASSUME NEW s \in Alive, Accounted(s) PROVE Accounted(s)'
    <3>0. s \in Servers /\ Covers /\ TodoOnce
      BY <1>0, <2>2 DEF Account
    <3>1. CASE StartsCommit(c)
      BY <1>0, <2>1, <2>5, <3>0, <3>1, StartAccounts
    <3>2. CASE Hears(c)
      BY <1>0, <2>1, <2>5, <3>0, <3>2, HearAccounts
    <3>3. CASE EndsCommit(c)
      BY <1>0, <2>1, <2>5, <3>0, <3>3, EndAccounts
    <3>4. CASE Submits(c) \/ Counts(c)
      BY <1>0, <2>1, <2>5, <3>0, <3>4, SendAccounts
    <3>5. CASE Aside(c) \/ Locks(c) \/ InLoop(c) \/ Passes(c) \/ Ends(c)
      <4>1. Still
        BY <3>5 DEF Aside, Locks, InLoop, Passes, Ends
      <4>2. batch' = batch /\ NothingSent /\ rep' = rep
            /\ UNCHANGED <<queueVars, listVars, srvBatch, rpcPc, historyVars>>
        BY <4>1 DEF Still, SameBatch, SameServers, serverVars, rmhVars, rpcVars
      <4>3. CommitsAs(c) /\ (frame'[c].pc = "send" <=> frame[c].pc = "send")
        <5>1. CASE Aside(c)
          BY <5>1 DEF Aside, CommitsAs, CountedPcs
        <5>2. CASE Locks(c) \/ Passes(c) \/ InLoop(c)
          BY <5>2 DEF Locks, Passes, InLoop, CommitsAs, CommitPcs, At
        <5>3. CASE Ends(c)
          BY <5>3 DEF Ends, CommitsAs, CommitPcs
        <5>4. QED
          BY <3>5, <5>1, <5>2, <5>3
      <4>4. \A d \in Cpus : CommitsAs(d) /\ (frame'[d].pc = "send" <=> frame[d].pc = "send")
        BY <2>1, <4>3 DEF OthersKept, CommitsAs
      <4>5. QED
        BY <1>0, <2>5, <3>0, <4>2, <4>4, KeptAccounts
    <3>6. QED
      BY <2>1, <3>1, <3>2, <3>3, <3>4, <3>5 DEF Form
  <2>6. QED
    BY <1>0, <2>2, <2>3, <2>4, <2>5 DEF Account
<1>3. QED
  BY <1>1, <1>2

LEMMA WorkAccount ==
    ASSUME AltTypes, Clean, Matched, NEW q \in Qps, Executes(q), ~failed', Account
    PROVE  Account'
<1>0. WireTypes /\ CtrlTypes
  BY DEF AltTypes
<1>1. batch' = batch /\ loaded' = loaded
  BY DEF Executes, SendsPage, WorkFails, SendsCall, ReadsPage, WritesPage, Completes, ctrlVars
<1>2. Alive' = Alive /\ Alive \subseteq Servers
  BY <1>0, <1>1, AliveStays
<1>3. \A d \in Cpus : SameFields(d)
  BY WorkFrames DEF SameButGot, SameFields
<1>4. /\ Covers' /\ TodoOnce' /\ \A d \in Cpus : CommitsAs(d)
      /\ \A d \in Cpus : frame'[d].pc = "send" <=> frame[d].pc = "send"
  BY <1>1, <1>3, FieldsAccount DEF Account
<1>5. UNCHANGED <<queueVars, listVars, srvBatch, rpcPc, rep, historyVars>>
  <2>1. CASE SendsPage(q)
    BY <2>1 DEF SendsPage, serverVars, rmhVars, rpcVars
  <2>2. CASE ~SendsPage(q)
    BY <2>2, NoPageSent
  <2>3. QED
    BY <2>1, <2>2
<1>6. ASSUME NEW s \in Alive, Accounted(s) PROVE Accounted(s)'
  <2>1. CASE SendsPage(q)
    <3> DEFINE m == Len(sendq["mcast"])  f == Len(flight[s])  k == Len(cq[s])  w == Working(s)
    <3>1. /\ sendq["mcast"] \in Seq(Work) /\ sendq["mcast"] # <<>>
          /\ sendq'["mcast"] = Tail(sendq["mcast"])
          /\ Head(sendq["mcast"]).what \in Page
          /\ flight'[s] = Append(flight[s], Head(sendq["mcast"]).what) /\ flight[s] \in Seq(Page)
      BY <1>0, <1>2, <2>1, PageSent DEF WireTypes
    <3>2. m' = m - 1 /\ f' = f + 1
      BY <3>1, HeadTailProperties, AppendProperties
    <3>3. k' = k /\ w' = w
      BY <1>5 DEF queueVars, listVars, Working
    <3>4. m \in Nat /\ f \in Nat /\ k \in Nat /\ w \in Nat
          /\ Underway(s) = m + f + k + w /\ Underway(s)' = m' + f' + k' + w'
      BY <1>2, AmountsNat DEF Underway
    <3>5. Underway(s)' = Underway(s)
      <4> HIDE DEF m, f, k, w
      <4>1. (m - 1) + (f + 1) + k + w = m + f + k + w
        BY <3>4
      <4>2. QED
        BY <3>2, <3>3, <3>4, <4>1, Zenon
    <3>6. Sent' = Sent /\ (Settled(s)' <=> Settled(s))
      BY <1>1, <1>4, <1>5, SendingKept, SettledKept
    <3>7. QED
      BY <1>5, <1>6, <3>5, <3>6, AccountedKept DEF listVars, historyVars
  <2>2. CASE ~SendsPage(q)
    <3>1. NothingSent /\ flight' = flight
      BY <2>2, NoPageSent
    <3>2. QED
      BY <1>1, <1>2, <1>4, <1>5, <1>6, <3>1, KeptAccounts
  <2>3. QED
    BY <2>1, <2>2
<1>7. QED
  BY <1>2, <1>4, <1>5, <1>6 DEF Account, historyVars

\* The steps of a server leave the node alone, and the other servers.
LEMMA ServerSteps ==
    ASSUME AltTypes, NEW t \in Servers, Deliver(t) \/ ServerRuns(t)
    PROVE  /\ StepOf(t) /\ NothingSent /\ batch' = batch /\ Alive' = Alive
           /\ UNCHANGED <<frame, sendq, loaded, failed, blurred, rdmaInfo, caller>>
           /\ \A d \in Cpus : SameFields(d)
           /\ \A s \in Servers : s # t => flight'[s] = flight[s]
<1>1. UNCHANGED <<frame, sendq, loaded, failed, blurred, batch, rdmaInfo, caller>>
  BY DEF Deliver, ServerRuns, ctrlVars, wireVars, historyOfCalls
<1>2. StepOf(t)
  <2>1. CASE Deliver(t)
    <3>1. Head(flight[t]) \in Page /\ Receive(t, Head(flight[t]))
      BY <2>1, DeliversHead
    <3>2. QED
      BY <3>1 DEF StepOf
  <2>2. CASE ServerRuns(t)
    BY <2>2 DEF ServerRuns, StepOf
  <2>3. QED
    BY <2>1, <2>2
<1>3. Alive' = Alive
  BY <1>1, AliveStays DEF AltTypes
<1>4. \A s \in Servers : s # t => flight'[s] = flight[s]
  BY DEF Deliver, ServerRuns, wireVars, AltTypes, WireTypes
<1>5. QED
  BY <1>1, <1>2, <1>3, <1>4 DEF NothingSent, SameFields

LEMMA CountUntouched ==
    ASSUME FarTypeOK, NEW t \in Servers, StepOf(t), NEW s \in Servers, s # t
    PROVE  /\ srvBatch'[s] = srvBatch[s] /\ rpcPc'[s] = rpcPc[s] /\ rep'[s] = rep[s]
           /\ early'[s] = early[s]
<1>1. CASE MulticastThread(t)
  BY <1>1 DEF MulticastThread, FlowAdd, FlowConvey, FarTypeOK, rmhVars, rpcVars, historyVars
<1>2. CASE ServeOpen(t) \/ CommitEmpty(t) \/ CommitBegin(t)
  BY <1>2 DEF ServeOpen, CommitEmpty, CommitBegin, FarTypeOK, rmhVars, historyVars
<1>3. CASE CommitConvey(t)
  BY <1>3 DEF CommitConvey, FarTypeOK, historyVars
<1>4. CASE CommitPutback(t) \/ CommitReset(t)
  <2>1. CASE CommitPutback(t)
    BY <2>1 DEF CommitPutback, FarTypeOK, rmhVars
  <2>2. CASE CommitReset(t)
    BY <2>2 DEF CommitReset, FarTypeOK, historyVars
  <2>3. QED
    BY <1>4, <2>1, <2>2
<1>5. CASE TakeReply(t)
  BY <1>5 DEF TakeReply, FarTypeOK, rmhVars, historyVars
<1>6. CASE \E r \in Requests : Call(t, r)
  BY <1>6 DEF Call, FarTypeOK, rmhVars, historyVars
<1>7. CASE \E p \in Page : Receive(t, p)
  BY <1>7 DEF Receive, FarTypeOK, rmhVars, rpcVars
<1>8. QED
  BY <1>1, <1>2, <1>3, <1>4, <1>5, <1>6, <1>7 DEF StepOf, RdmaThread

\* What is on its way moves on, and the tally stays.
LEMMA MovedOn ==
    ASSUME NEW s, Accounted(s), Undisturbed(s)', Underway(s)' = Underway(s),
           srvBatch'[s] = srvBatch[s], rpcPc'[s] \in PutbackPcs => rpcPc[s] \in PutbackPcs,
           Sent' = Sent, Settled(s)' <=> Settled(s)
    PROVE  Accounted(s)'
BY DEF Accounted, Tally

LEMMA DeliverAccounts ==
    ASSUME AltTypes, NEW s \in Servers, Deliver(s), Accounted(s), Sent' = Sent,
           \A d \in Cpus : CommitsAs(d)
    PROVE  Accounted(s)'
<1>1. FarTypeOK /\ WireTypes /\ NothingSent
  BY ServerSteps DEF AltTypes, ServerInv
<1>2. Receive(s, Head(flight[s])) /\ flight[s] \in Seq(Page) /\ flight[s] # <<>>
      /\ Head(flight[s]) \in Page /\ flight' = [flight EXCEPT ![s] = Tail(flight[s])]
  BY DeliversHead
<1>3. PICK v \in Completion : cq'[s] = Append(cq[s], v)
  BY <1>1, <1>2, ReceiveAppends
<1>4. UNCHANGED <<listVars, srvBatch, rpcPc, rep, clash>>
  BY <1>2 DEF Receive, rmhVars, rpcVars
<1> DEFINE m == Len(sendq["mcast"])  f == Len(flight[s])  k == Len(cq[s])  w == Working(s)
<1>5. f' = f - 1 /\ k' = k + 1
  <2>1. cq[s] \in Seq(Completion) /\ flight'[s] = Tail(flight[s])
    BY <1>1, <1>2 DEF FarTypeOK, WireTypes
  <2>2. f' = f - 1
    BY <1>2, <2>1, HeadTailProperties
  <2>3. k' = k + 1
    BY <1>3, <2>1, AppendProperties
  <2>4. QED
    BY <2>2, <2>3
<1>6. m' = m /\ w' = w
  BY <1>1, <1>4 DEF NothingSent, Working, listVars
<1>7. m \in Nat /\ f \in Nat /\ k \in Nat /\ w \in Nat
      /\ Underway(s) = m + f + k + w /\ Underway(s)' = m' + f' + k' + w'
  BY AmountsNat DEF Underway
<1>8. Underway(s)' = Underway(s)
  <2> HIDE DEF m, f, k, w
  <2>1. m + (f - 1) + (k + 1) + w = m + f + k + w
    BY <1>7
  <2>2. QED
    BY <1>5, <1>6, <1>7, <2>1, Zenon
<1>9. Settled(s)' <=> Settled(s)
  BY <1>4, SettledKept
<1>10. QED
  BY <1>4, <1>8, <1>9, AccountedKept DEF listVars

LEMMA FlowAddAccounts ==
    ASSUME AltTypes, NEW s \in Servers, FlowAdd(s), Accounted(s), NothingSent,
           flight' = flight, Sent' = Sent, \A d \in Cpus : CommitsAs(d)
    PROVE  Accounted(s)'
<1>1. FarTypeOK /\ QueueInv(s)
  BY DEF AltTypes, ServerInv
<1> DEFINE v == Head(cq[s])
<1>2. /\ v \in Completion /\ cq[s] \in Seq(Completion) /\ cq[s] # <<>> /\ cq'[s] = Tail(cq[s])
      /\ Elems(commitList'[s]) = Elems(commitList[s]) \cup {v.buf}
      /\ v.buf \notin Elems(commitList[s]) /\ flow[s] = None /\ flow'[s] = v /\ v # None
      /\ convey' = convey /\ clash' = clash
  BY <1>1, FlowAddDoes DEF QueueInv
<1>3. srvBatch' = srvBatch /\ rpcPc' = rpcPc /\ rep' = rep
  BY DEF FlowAdd, rmhVars, rpcVars
<1>4. Undisturbed(s)'
  <2>1. ~clash[s] /\ \A b \in Elems(commitList[s]) : convey[s][b]
    BY <1>2 DEF Accounted, Undisturbed
  <2>2. ~convey[s][v.buf]
    <3>1. v.buf \in Bufs
      BY <1>2 DEF Completion
    <3>2. QED
      BY <1>1, <1>2, <2>1, <3>1 DEF QueueInv, OnlyListedMarked
  <2> HIDE DEF v
  <2>3. QED
    BY <1>2, <2>1, <2>2 DEF Undisturbed
<1> DEFINE m == Len(sendq["mcast"])  f == Len(flight[s])  k == Len(cq[s])  w == Working(s)
<1>5. k' = k - 1 /\ w = 0 /\ w' = 1
  <2> HIDE DEF v
  <2>1. w = 0 /\ w' = 1
    BY <1>2 DEF Working
  <2>2. k' = k - 1
    BY <1>2, HeadTailProperties
  <2>3. QED
    BY <2>1, <2>2
<1>6. m' = m /\ f' = f
  BY DEF NothingSent
<1>7. m \in Nat /\ f \in Nat /\ k \in Nat
      /\ Underway(s) = m + f + k + w /\ Underway(s)' = m' + f' + k' + w'
  BY AmountsNat DEF Underway
<1>8. Underway(s)' = Underway(s)
  <2> HIDE DEF m, f, k, w
  <2>1. m + f + (k - 1) + 1 = m + f + k + 0
    BY <1>7
  <2>2. QED
    BY <1>5, <1>6, <1>7, <2>1, Zenon
<1>9. Settled(s)' <=> Settled(s)
  BY <1>3, SettledKept
<1>10. QED
  BY <1>3, <1>4, <1>8, <1>9, MovedOn

\* Nothing is underway: nothing is at any of the places.
LEMMA NothingUnderway ==
    ASSUME AltTypes, NEW s \in Servers
    PROVE  Underway(s) = 0 <=> /\ Len(sendq["mcast"]) = 0 /\ Len(flight[s]) = 0
                               /\ Len(cq[s]) = 0 /\ flow[s] = None
<1> DEFINE m == Len(sendq["mcast"])  f == Len(flight[s])  k == Len(cq[s])  w == Working(s)
<1>1. m \in Nat /\ f \in Nat /\ k \in Nat /\ w \in Nat /\ Underway(s) = m + f + k + w
  BY AmountsNat DEF Underway
<1>2. flow[s] = None <=> w = 0
  BY DEF Working
<1> HIDE DEF m, f, k, w
<1>3. m + f + k + w = 0 <=> m = 0 /\ f = 0 /\ k = 0 /\ w = 0
  BY <1>1
<1>4. Underway(s) = 0 <=> m = 0 /\ f = 0 /\ k = 0 /\ flow[s] = None
  BY <1>1, <1>2, <1>3
<1>5. QED
  BY <1>4 DEF m, f, k

\* A page is conveyed, which its block allows, and counted.
LEMMA FlowConveyAccounts ==
    ASSUME AltTypes, NEW s \in Servers, FlowConvey(s), AtHome(s), Accounted(s), NothingSent,
           flight' = flight, Sent' = Sent, \A d \in Cpus : CommitsAs(d)
    PROVE  Accounted(s)'
<1>0. FarTypeOK
  BY DEF AltTypes, ServerInv
<1>1. flow[s] # None /\ ~convey[s][flow[s].buf] /\ CanConvey(s, flow[s].off) /\ ~clash[s]
  BY DEF FlowConvey, Accounted, Undisturbed, AtHome, HasBlock, CanConvey
<1>2. /\ flow'[s] = None /\ cq' = cq /\ commitList' = commitList /\ clash' = clash
      /\ convey'[s] = [convey[s] EXCEPT ![flow[s].buf] = TRUE] /\ flow[s].buf \in Bufs
  BY <1>0, <1>1, FlowConveyDoes
<1>3. srvBatch'[s] = srvBatch[s] + 1 /\ rpcPc' = rpcPc /\ rep' = rep
  BY <1>0, <1>1 DEF FlowConvey, FarTypeOK, rpcVars
<1>4. ~Settled(s) /\ rpcPc[s] \notin PutbackPcs
  <2>1. Underway(s) # 0
    BY <1>1, NothingUnderway
  <2>2. QED
    BY <2>1 DEF Accounted
<1>5. Undisturbed(s)'
  <2>1. \A b \in Elems(commitList[s]) : b \in Bufs /\ (convey[s][b] \/ flow[s].buf = b)
    BY <1>0, ElemsOfSeq DEF Accounted, Undisturbed, FarTypeOK
  <2>2. convey[s] \in [Bufs -> BOOLEAN]
    BY <1>0 DEF FarTypeOK
  <2>3. QED
    BY <1>1, <1>2, <2>1, <2>2 DEF Undisturbed
<1> DEFINE m == Len(sendq["mcast"])  f == Len(flight[s])  k == Len(cq[s])  w == Working(s)
           v == srvBatch[s]
<1>6. m' = m /\ f' = f /\ k' = k /\ w = 1 /\ w' = 0 /\ v' = v + 1
  BY <1>1, <1>2, <1>3 DEF NothingSent, Working
<1>7. m \in Nat /\ f \in Nat /\ k \in Nat /\ v \in Nat
      /\ Tally(s) = v + (m + f + k + w) /\ Tally(s)' = v' + (m' + f' + k' + w')
  BY AmountsNat DEF Tally, Underway
<1>8. Tally(s)' = Tally(s)
  <2> HIDE DEF m, f, k, w, v
  <2>1. (v + 1) + (m + f + k + 0) = v + (m + f + k + 1)
    BY <1>7
  <2>2. QED
    BY <1>6, <1>7, <2>1, Zenon
<1>9. Settled(s)' <=> Settled(s)
  BY <1>3, SettledKept
<1>10. QED
  BY <1>3, <1>4, <1>5, <1>8, <1>9 DEF Accounted

\* The CPU whose commit a server serves is the only one to commit, and every page
\* before the commit is counted.
LEMMA CommitServed ==
    ASSUME AltTypes, Clean, CallsOK, Covers, NEW s \in Servers, RdmaThread(s), rpcPc[s] # "idle"
    PROVE  ~Settled(s) /\ Sent <= SERVER_BATCH /\ Awaited(s) = SERVER_BATCH
<1>0. FramesOK
  BY DEF AltTypes
<1>1. PICK d \in Cpus : d = caller[s]
  BY ServedCall
<1>2. Calls(d, s) /\ req[s] = RequestOf(d) /\ rep[s] = None /\ At(d, "committing")
  BY <1>1, ServedCall
<1>3. Awaited(s) = SERVER_BATCH
  <2>1. RequestOf(d).op = "commit"
    BY <1>0, <1>2, RequestsAre DEF At
  <2>2. QED
    BY <1>2, <2>1 DEF Awaited
<1>4. \A c \in Cpus : frame[c].pc \in CommitPcs => c = d
  <2>1. \A c \in Cpus : frame[c].pc \in CommitPcs => spin = c
    BY DEF Clean, LockHeld, CommitPcs, LockPcs
  <2>2. frame[d].pc \in CommitPcs
    BY <1>2 DEF At, CommitPcs
  <2>3. QED
    BY <2>1, <2>2
<1>5. ~Settled(s)
  <2>1. frame[d].todo \in Seq(Servers) /\ frame[d].todo # <<>>
    BY <1>0, <1>2 DEF FramesOK, FrameOK, Frame, At
  <2>2. s \in Elems(frame[d].todo)
    BY <1>2, <2>1, HeadAndTail DEF Calls
  <2>3. QED
    BY <1>2, <1>4, <2>2, NoReplyAssumption DEF Settled
<1>6. Sent <= SERVER_BATCH
  <2>1. Uncounted = {} /\ batch <= SERVER_BATCH
    BY <1>2 DEF Covers, At, CommitPcs
  <2>2. Sending = {}
    BY <2>1 DEF Uncounted, Sending, At
  <2>3. Cardinality(Sending) = 0
    BY <2>2, FS_EmptySet
  <2>4. batch \in Nat
    BY DEF AltTypes, CtrlTypes
  <2>5. Sent = batch + 0
    BY <2>3 DEF Sent
  <2>6. QED
    BY <2>1, <2>4, <2>5
<1>7. QED
  BY <1>3, <1>5, <1>6

\* A commit that need not wait any longer has every page of the batch listed and
\* conveyed already.
LEMMA NoneToConvey ==
    ASSUME AltTypes, Clean, CallsOK, Covers, NEW s \in Servers, CommitConvey(s), Accounted(s)
    PROVE  /\ ~Settled(s) /\ Underway(s) = 0 /\ flow[s] = None
           /\ ToConvey(s) = {} /\ \A b \in Elems(commitList[s]) : convey[s][b]
<1>1. srvBatch[s] >= Awaited(s) /\ rpcPc[s] # "idle" /\ RdmaThread(s)
  BY DEF CommitConvey, RdmaThread
<1>2. ~Settled(s) /\ Sent <= SERVER_BATCH /\ srvBatch[s] >= SERVER_BATCH
  BY <1>1, CommitServed
<1>3. Underway(s) = 0 /\ flow[s] = None
  <2>1. Tally(s) = Sent
    BY <1>2 DEF Accounted
  <2>2. srvBatch[s] \in Nat /\ Underway(s) \in Nat /\ Sent \in Nat /\ SERVER_BATCH \in Nat
    BY AmountsNat, ServerBatchAssumption
  <2>3. srvBatch[s] + Underway(s) = Sent
    BY <2>1 DEF Tally
  <2>4. Underway(s) = 0
    BY <1>2, <2>2, <2>3
  <2>5. QED
    BY <2>4, NothingUnderway
<1>4. \A b \in Elems(commitList[s]) : convey[s][b]
  BY <1>3 DEF Accounted, Undisturbed
<1>5. ToConvey(s) = {}
  <2>1. \A i \in ToConvey(s) : commitList[s][i] \in Elems(commitList[s])
                                /\ ~convey[s][commitList[s][i]]
    BY CommitConveyDoes DEF AltTypes, ServerInv
  <2>2. QED
    BY <1>4, <2>1
<1>6. QED
  BY <1>2, <1>3, <1>4, <1>5

LEMMA CommitConveyAccounts ==
    ASSUME AltTypes, Clean, CallsOK, Covers, NEW s \in Servers, CommitConvey(s), Accounted(s),
           NothingSent, flight' = flight, Sent' = Sent, \A d \in Cpus : CommitsAs(d)
    PROVE  Accounted(s)'
<1>0. FarTypeOK
  BY DEF AltTypes, ServerInv
<1>1. /\ UNCHANGED <<queueVars, commitList, flow, rep, historyVars>>
      /\ srvBatch' = [srvBatch EXCEPT ![s] = @ + Cardinality(ToConvey(s))]
  BY DEF CommitConvey
<1>2. ~clash[s]
  BY DEF Accounted, Undisturbed
<1>3. /\ ~Settled(s) /\ Underway(s) = 0 /\ flow[s] = None
      /\ ToConvey(s) = {} /\ \A b \in Elems(commitList[s]) : convey[s][b]
  BY NoneToConvey
<1>4. \A b \in Bufs : convey'[s][b] <=> convey[s][b]
  BY <1>0, <1>3, CommitConveyDoes
<1>5. srvBatch'[s] = srvBatch[s]
  <2>1. Cardinality(ToConvey(s)) = 0
    BY <1>3, FS_EmptySet
  <2>2. srvBatch'[s] = srvBatch[s] + 0
    BY <1>0, <1>1, <2>1 DEF FarTypeOK
  <2>3. QED
    BY <1>0, <2>2 DEF FarTypeOK
<1>6. Undisturbed(s)'
  <2>1. Elems(commitList[s]) \subseteq Bufs
    BY <1>0, ElemsOfSeq DEF FarTypeOK
  <2>2. QED
    BY <1>1, <1>2, <1>3, <1>4, <2>1 DEF Undisturbed, historyVars
<1>7. Underway(s)' = Underway(s)
  BY <1>1, UnderwayKept DEF queueVars
<1>8. Settled(s)' <=> Settled(s)
  BY <1>1, SettledKept
<1>9. QED
  BY <1>3, <1>5, <1>6, <1>7, <1>8 DEF Accounted, Tally, PutbackPcs

\* The buffers go back: no page is left over.
LEMMA PutbackAccounts ==
    ASSUME AltTypes, NEW s \in Servers, CommitPutback(s), Accounted(s), NothingSent,
           flight' = flight, Sent' = Sent, \A d \in Cpus : CommitsAs(d)
    PROVE  Accounted(s)'
<1>0. FarTypeOK /\ InOneQueue(s)
  BY DEF AltTypes, ServerInv, QueueInv
<1>1. Underway(s) = 0 /\ flow[s] = None /\ ~clash[s]
  <2>1. Underway(s) = 0 /\ ~clash[s]
    BY DEF CommitPutback, Accounted, Undisturbed, PutbackPcs
  <2>2. QED
    BY <2>1, NothingUnderway
<1>2. srvBatch' = srvBatch /\ rep' = rep
  BY DEF CommitPutback, rmhVars
<1>3. Elems(commitList'[s]) = {} /\ ~clash'[s] /\ flow' = flow /\ cq' = cq
  BY <1>0, <1>1, CommitPutbackDoes
<1>4. Undisturbed(s)'
  BY <1>1, <1>3 DEF Undisturbed
<1>5. Underway(s)' = Underway(s)
  BY <1>3, UnderwayKept
<1>6. Settled(s)' <=> Settled(s)
  BY <1>2, SettledKept
<1>7. QED
  BY <1>1, <1>2, <1>4, <1>5, <1>6 DEF Accounted, Tally

\* The answer: the server's count starts anew.
LEMMA ResetAccounts ==
    ASSUME AltTypes, NEW s \in Servers, CommitReset(s), Accounted(s), NothingSent,
           flight' = flight
    PROVE  Accounted(s)'
<1>0. FarTypeOK
  BY DEF AltTypes, ServerInv
<1>1. Underway(s) = 0 /\ Undisturbed(s)
  BY DEF CommitReset, Accounted, PutbackPcs
<1>2. /\ srvBatch'[s] = 0 /\ rpcPc'[s] = "idle" /\ rep'[s] = "committed"
      /\ UNCHANGED <<cq, commitList, convey, flow, clash>>
  BY <1>0 DEF CommitReset, FarTypeOK, BatchLeft, queueVars, historyVars
<1>3. Undisturbed(s)'
  BY <1>1, <1>2 DEF Undisturbed
<1>4. Underway(s)' = 0
  BY <1>1, <1>2, UnderwayKept
<1>5. Settled(s)'
  BY <1>2 DEF Settled
<1>6. QED
  BY <1>2, <1>3, <1>4, <1>5 DEF Accounted

LEMMA RdmaAccounts ==
    ASSUME AltTypes, Clean, CallsOK, Covers, NEW s \in Servers, RdmaThread(s), ~early'[s],
           Accounted(s), NothingSent, flight' = flight, Sent' = Sent, batch' = batch,
           \A d \in Cpus : CommitsAs(d),
           \A d \in Cpus : frame'[d].pc = "send" <=> frame[d].pc = "send"
    PROVE  Accounted(s)'
<1>0. FarTypeOK
  BY DEF AltTypes, ServerInv
<1>1. CASE ServeOpen(s)
  <2>1. rep[s] = None
    BY ServedCall
  <2>2. rep'[s] = "opened" /\ UNCHANGED <<queueVars, listVars, srvBatch, rpcPc, historyVars>>
    BY <1>0, <1>1 DEF ServeOpen, FarTypeOK
  <2>3. rep'[s] = "committed" <=> rep[s] = "committed"
    BY <2>1, <2>2, NoReplyAssumption
  <2>4. QED
    BY <2>2, <2>3, KeptAccounts
<1>2. CASE CommitEmpty(s)
  BY <1>0, <1>2 DEF CommitEmpty, FarTypeOK
<1>3. CASE CommitBegin(s)
  <2>1. rpcPc'[s] = "wait" /\ UNCHANGED <<queueVars, listVars, srvBatch, rep, historyVars>>
    BY <1>0, <1>3 DEF CommitBegin, FarTypeOK, rmhVars
  <2>2. Undisturbed(s)'
    BY <2>1 DEF Accounted, Undisturbed, listVars, historyVars
  <2>3. Underway(s)' = Underway(s)
    BY <2>1, UnderwayKept DEF queueVars, listVars
  <2>4. Settled(s)' <=> Settled(s)
    BY <2>1, SettledKept
  <2>5. QED
    BY <2>1, <2>2, <2>3, <2>4, MovedOn DEF PutbackPcs
<1>4. CASE CommitConvey(s)
  BY <1>4, CommitConveyAccounts
<1>5. CASE CommitPutback(s)
  BY <1>5, PutbackAccounts
<1>6. CASE CommitReset(s)
  BY <1>6, ResetAccounts
<1>7. QED
  BY <1>1, <1>2, <1>3, <1>4, <1>5, <1>6 DEF RdmaThread

LEMMA ServersAccount ==
    ASSUME AltTypes, Clean, CallsOK, Account, NEW t \in Servers, Deliver(t) \/ ServerRuns(t),
           \A s \in Alive : AtHome(s)
    PROVE  Account'
<1>0. FarTypeOK /\ Alive \subseteq Servers
  BY AliveStays DEF AltTypes, ServerInv
<1>1. /\ StepOf(t) /\ NothingSent /\ batch' = batch /\ Alive' = Alive
      /\ \A d \in Cpus : SameFields(d)
      /\ \A s \in Servers : s # t => flight'[s] = flight[s]
  BY ServerSteps
<1>2. /\ Covers' /\ TodoOnce' /\ \A d \in Cpus : CommitsAs(d)
      /\ \A d \in Cpus : frame'[d].pc = "send" <=> frame[d].pc = "send"
  BY <1>1, FieldsAccount DEF Account
<1>3. Sent' = Sent
  BY <1>1, <1>2, SendingKept
<1>4. ASSUME NEW s \in Alive, ~early'[s] PROVE Accounted(s)'
  <2>0. s \in Servers
    BY <1>0
  <2>1. CASE s # t
    <3>1. /\ Untouched(s) /\ srvBatch'[s] = srvBatch[s] /\ rpcPc'[s] = rpcPc[s]
          /\ rep'[s] = rep[s] /\ early'[s] = early[s]
      BY <1>0, <1>1, <2>0, <2>1, OneServer, CountUntouched
    <3>2. Accounted(s)
      BY <1>4, <3>1 DEF Account
    <3>3. Underway(s)' = Underway(s)
      BY <1>1, <2>0, <2>1, <3>1, UnderwayKept DEF Untouched
    <3>4. Settled(s)' <=> Settled(s)
      BY <1>2, <3>1, SettledKept
    <3>5. QED
      BY <1>3, <3>1, <3>2, <3>3, <3>4, AccountedKept DEF Untouched
  <2>2. CASE s = t
    <3>1. ~early[s]
      <4>1. CASE early' = early
        BY <1>4, <4>1
      <4>2. CASE early' # early
        <5>1. CommitEmpty(s)
          BY <2>2, <4>2 DEF Deliver, Receive, ServerRuns, MulticastThread, FlowAdd, FlowConvey,
             RdmaThread, ServeOpen, CommitBegin, CommitConvey, CommitPutback, CommitReset, historyVars
        <5>2. QED
          BY <1>0, <1>4, <2>0, <5>1 DEF CommitEmpty, FarTypeOK
      <4>3. QED
        BY <4>1, <4>2
    <3>2. Accounted(s)
      BY <1>4, <3>1 DEF Account
    <3>3. CASE Deliver(s)
      BY <1>2, <1>3, <2>0, <3>2, <3>3, DeliverAccounts
    <3>4. CASE ServerRuns(s)
      <4>1. flight' = flight /\ (MulticastThread(s) \/ RdmaThread(s))
        BY <3>4 DEF ServerRuns, wireVars
      <4>2. CASE FlowAdd(s)
        BY <1>1, <1>2, <1>3, <2>0, <3>2, <4>1, <4>2, FlowAddAccounts
      <4>3. CASE FlowConvey(s)
        BY <1>1, <1>2, <1>3, <2>0, <3>2, <4>1, <4>3, FlowConveyAccounts
      <4>4. CASE RdmaThread(s)
        BY <1>1, <1>2, <1>3, <1>4, <2>0, <3>2, <4>1, <4>4, RdmaAccounts DEF Account
      <4>5. QED
        BY <4>1, <4>2, <4>3, <4>4 DEF MulticastThread
    <3>5. QED
      BY <2>2, <3>3, <3>4
  <2>3. QED
    BY <2>1, <2>2
<1>5. QED
  BY <1>1, <1>2, <1>4 DEF Account

----------------------------------------------------------------------------
(* The two counts agree. *)

\* Until a send fails: each piece of work is the step its CPU is at, each server's
\* call is its caller's, every page goes to a block the server has; and until a
\* commit is blurred, the account of the batch holds.
Agreed ==
    /\ Matched /\ CallsOK /\ OpensAll
    /\ \A s \in Alive : AtHome(s)
    /\ ~blurred => Account

AgreeInv == CleanInv /\ (~failed => Agreed)

LEMMA AgreeInit == AltInit => AgreeInv
<1> SUFFICES ASSUME AltInit PROVE Agreed
  BY CleanInit DEF AgreeInv
<1>0. AltTypes /\ CtrlTypes /\ Alive \subseteq Servers
  BY AltTypesInit, AliveStays DEF AltTypes
<1>1. /\ \A q \in Qps : sendq[q] = <<>>
      /\ \A c \in Cpus : frame[c].pc = "idle"
      /\ batch = 0 /\ "mcast" \in Qps
  BY DEF AltInit, IdleFrame, Qps
<1>2. \A s \in Servers : /\ flight[s] = <<>> /\ cq[s] = <<>> /\ commitList[s] = <<>>
                         /\ caller[s] = None /\ req[s] = None /\ rep[s] = None
                         /\ rpcPc[s] = "idle" /\ flow[s] = None /\ srvBatch[s] = 0
                         /\ clash[s] = FALSE /\ rdmaInfo[s] = {}
  BY DEF AltInit, FarInit
<1>3. Matched
  BY <1>1 DEF Matched, Elems
<1>4. CallsOK
  BY <1>2 DEF CallsOK, CallOK
<1>5. OpensAll
  BY <1>1, <1>2 DEF OpensAll, Opens, Opened, CommitPcs
<1>6. \A s \in Alive : AtHome(s)
  <2>1. Elems(<<>>) = {}
    BY DEF Elems
  <2>2. QED
    BY <1>0, <1>1, <1>2, <2>1 DEF AtHome
<1>7. Covers /\ TodoOnce
  BY <1>1 DEF Covers, TodoOnce, CommitPcs
<1>8. ASSUME NEW s \in Alive PROVE Accounted(s)
  <2>0. s \in Servers
    BY <1>0
  <2>1. Undisturbed(s)
    <3>1. Elems(commitList[s]) = {} /\ flow[s] = None /\ ~clash[s]
      BY <1>2, <2>0 DEF Elems
    <3>2. QED
      BY <3>1 DEF Undisturbed
  <2>2. ~Settled(s)
    BY <1>1, <1>2, <2>0, NoReplyAssumption DEF Settled, CommitPcs
  <2>3. Tally(s) = 0
    <3>1. /\ Len(sendq["mcast"]) = 0 /\ Len(flight[s]) = 0 /\ Len(cq[s]) = 0
          /\ Working(s) = 0 /\ srvBatch[s] = 0
      BY <1>1, <1>2, <2>0 DEF Working
    <3>2. 0 + (0 + 0 + 0 + 0) = 0
      OBVIOUS
    <3>3. QED
      BY <3>1, <3>2, Zenon DEF Tally, Underway
  <2>4. Sent = 0
    <3>1. Sending = {}
      BY <1>1 DEF Sending, At
    <3>2. Cardinality(Sending) = 0
      BY <3>1, FS_EmptySet
    <3>3. QED
      BY <1>1, <3>2 DEF Sent
  <2>5. QED
    BY <1>2, <2>0, <2>1, <2>2, <2>3, <2>4 DEF Accounted, PutbackPcs
<1>9. QED
  BY <1>3, <1>4, <1>5, <1>6, <1>7, <1>8 DEF Agreed, Account

LEMMA CpuAgrees ==
    ASSUME AltTypes, Clean, Agreed, FramesOK', NEW c \in Cpus, CpuStep(c), ~failed'
    PROVE  Agreed'
<1>1. Alive' = Alive
  BY CpuKeepsNode, AliveStays DEF AltTypes
<1>2. Matched' /\ CallsOK' /\ OpensAll'
  BY CpuMatched, CpuCallsOK, CpuOpens DEF Agreed
<1>3. \A s \in Alive : AtHome(s)'
  BY CpuAtHome DEF Agreed
<1>4. ~blurred' => Account'
  BY CpuAccount DEF Agreed
<1>5. QED
  BY <1>1, <1>2, <1>3, <1>4 DEF Agreed

LEMMA WorkAgrees ==
    ASSUME AltTypes, Clean, Agreed, NEW q \in Qps, Executes(q), ~failed'
    PROVE  Agreed'
<1>1. \A c \in Cpus : SameButGot(frame'[c], frame[c])
  BY WorkFrames
<1>2. Matched'
  <2>1. ASSUME NEW op, NEW ok \in BOOLEAN, Completes(q, op, ok) PROVE Matched'
    <3>1. Completed(q, ok)
      BY <2>1, WorkCompletes DEF AltTypes
    <3>2. QED
      BY <1>1, <3>1, WorkMatched DEF Agreed
  <2>2. QED
    BY <2>1 DEF Executes, SendsPage, WorkFails, SendsCall, ReadsPage, WritesPage
<1>3. CallsOK' /\ blocks' = blocks
  BY WorkCallsOK DEF Agreed
<1>4. UNCHANGED <<rdmaInfo, loaded, blurred>>
  BY DEF Executes, SendsPage, WorkFails, SendsCall, ReadsPage, WritesPage, Completes, ctrlVars
<1>5. Alive' = Alive
  BY <1>4, AliveStays DEF AltTypes
<1>6. OpensAll'
  <2>1. \A d \in Cpus : SameFields(d) /\ frame'[d].op = frame[d].op
    BY <1>1 DEF SameButGot, SameFields
  <2>2. QED
    BY <1>3, <1>4, <2>1, OthersOpen DEF Agreed, AltTypes
<1>7. \A s \in Alive : AtHome(s)'
  BY WorkAtHome DEF Agreed
<1>8. ~blurred' => Account'
  BY <1>4, WorkAccount DEF Agreed
<1>9. QED
  BY <1>2, <1>3, <1>5, <1>6, <1>7, <1>8 DEF Agreed

LEMMA ServersAgree ==
    ASSUME AltTypes, Clean, Agreed, NEW t \in Servers, Deliver(t) \/ ServerRuns(t)
    PROVE  Agreed'
<1>1. /\ StepOf(t) /\ Alive' = Alive /\ UNCHANGED <<frame, sendq, loaded, blurred, rdmaInfo>>
      /\ \A d \in Cpus : SameFields(d)
  BY ServerSteps
<1>2. Matched'
  <2>1. \A d : WorkOf(d)' = WorkOf(d)
    BY <1>1, SameWork
  <2>2. QED
    BY <1>1, <2>1 DEF Agreed, Matched
<1>3. CallsOK'
  BY ServersCallsOK DEF Agreed
<1>4. \A s \in Servers : blocks[s] \subseteq blocks'[s]
  BY <1>1, BlocksGrow DEF AltTypes, ServerInv
<1>5. OpensAll'
  BY <1>1, <1>4, OthersOpen DEF Agreed, AltTypes
<1>6. \A s \in Alive : AtHome(s)'
  BY ServersAtHome DEF Agreed
<1>7. ~blurred' => Account'
  BY <1>1, ServersAccount DEF Agreed
<1>8. QED
  BY <1>1, <1>2, <1>3, <1>5, <1>6, <1>7 DEF Agreed

LEMMA AgreeStep == AgreeInv /\ [AltNext]_altVars => AgreeInv'
<1> SUFFICES ASSUME AgreeInv, [AltNext]_altVars, ~failed' PROVE Agreed'
  BY CleanStep DEF AgreeInv
<1>0. AltTypes /\ FramesOK' /\ (~failed => Clean /\ Agreed)
  BY AltTypesStep DEF AgreeInv, CleanInv, AltTypes
<1>1. ASSUME NEW c \in Cpus, CpuStep(c) PROVE Agreed'
  BY <1>0, <1>1, CpuKeepsNode, CpuAgrees
<1>2. ASSUME NEW q \in Qps, Executes(q) PROVE Agreed'
  <2>1. ~failed
    BY <1>2 DEF Executes, SendsPage, WorkFails, SendsCall, ReadsPage, WritesPage, Completes
  <2>2. QED
    BY <1>0, <1>2, <2>1, WorkAgrees
<1>3. ASSUME NEW s \in Servers, Deliver(s) \/ ServerRuns(s) PROVE Agreed'
  BY <1>0, <1>3, ServerSteps, ServersAgree
<1>4. CASE UNCHANGED altVars
  <2>1. UNCHANGED <<batch, rdmaInfo, frame, sendq, caller, flight, loaded, failed, blurred>>
    BY <1>4 DEF altVars, ctrlVars, wireVars, historyOfCalls
  <2>2. UNCHANGED <<cq, commitList, convey, flow, srvBatch, blocks, rpcPc, req, rep, early, clash>>
    BY <1>4 DEF altVars, serverVars, queueVars, listVars, rmhVars, rpcVars, historyVars
  <2>3. Matched' = Matched
    BY <2>1 DEF Matched, WorkOf, RequestOf, Block, At
  <2>4. CallsOK' = CallsOK
    BY <2>1, <2>2 DEF CallsOK, CallOK, Calls, Answering, RequestOf, Block, At
  <2>5. Alive' = Alive
    BY <2>1 DEF Alive, AliveOrder
  <2>6. OpensAll' = OpensAll
    BY <2>1, <2>2, <2>5 DEF OpensAll, Opens, Opened, Knows, Block
  <2>7. (\A s \in Alive : AtHome(s))' <=> (\A s \in Alive : AtHome(s))
    BY <2>1, <2>2, <2>5 DEF AtHome, HasBlock
  <2>8. Account' = Account
    <3>1. Sent' = Sent
      BY <2>1 DEF Sent, Sending, At
    <3>2. \A s : Accounted(s)' = Accounted(s)
      BY <2>1, <2>2, <3>1 DEF Settled, Accounted, Undisturbed, Tally, Underway, Working
    <3>3. QED
      BY <2>1, <2>2, <2>5, <3>2 DEF Account, Covers, Uncounted, TodoOnce
  <2>9. QED
    BY <1>0, <2>1, <2>3, <2>4, <2>6, <2>7, <2>8 DEF Agreed
<1>5. QED
  BY <1>1, <1>2, <1>3, <1>4 DEF AltNext

LEMMA AgreeInvAgrees == AgreeInv => BatchAgrees
<1> SUFFICES ASSUME AgreeInv, ~failed, ~blurred, NEW s \in Alive, ~early[s], ~Settled(s)
             PROVE  /\ batch + Cardinality({c \in Cpus : At(c, "send")})
                         = Len(sendq["mcast"]) + Len(flight[s]) + Len(cq[s]) + srvBatch[s]
                           + (IF flow[s] = None THEN 0 ELSE IF convey[s][flow[s].buf] THEN 0 ELSE 1)
  BY DEF BatchAgrees, Settled, CommitPcs
<1>1. AltTypes /\ Accounted(s) /\ s \in Servers
  BY AliveStays DEF AgreeInv, CleanInv, Agreed, Account, AltTypes
<1> DEFINE m == Len(sendq["mcast"])  f == Len(flight[s])  k == Len(cq[s])  w == Working(s)
           v == srvBatch[s]
<1>2. m \in Nat /\ f \in Nat /\ k \in Nat /\ w \in Nat /\ v \in Nat
      /\ Tally(s) = v + (m + f + k + w)
  BY <1>1, AmountsNat DEF Tally, Underway
<1>3. (IF flow[s] = None THEN 0 ELSE IF convey[s][flow[s].buf] THEN 0 ELSE 1) = w
  BY <1>1 DEF Accounted, Undisturbed, Working
<1>4. batch + Cardinality({c \in Cpus : At(c, "send")}) = v + (m + f + k + w)
  BY <1>1, <1>2 DEF Accounted, Sent, Sending
<1>5. v + (m + f + k + w) = m + f + k + v + w
  <2> HIDE DEF m, f, k, w, v
  <2>1. QED
    BY <1>2
<1>6. QED
  BY <1>3, <1>4, <1>5

\* Until a send fails or a commit is blurred, ib's batch and a server's count of it
\* agree, whatever pages are still on their way: only a batch that is full everywhere
\* is answered, and a load's commit of less never (drive/ib.c:1255-1259, with rmh->batch
\* of lib/handler.c).
THEOREM BatchesAgree == AltSpec => []BatchAgrees
<1>1. AltSpec => []AgreeInv
  BY AgreeInit, AgreeStep, PTL DEF AltSpec
<1>2. QED
  BY <1>1, AgreeInvAgrees, PTL

----------------------------------------------------------------------------
(* The newest page of an offset in a queue. *)

\* The last page of offset o among those f takes the elements of q to is p; there is
\* none, and r holds.
LastOf(q, f, o, p) == \E i \in DOMAIN q : f[q[i]] = p /\ \A j \in DOMAIN q : j > i => f[q[j]].off # o
NoneOf(q, f, o) == \A i \in DOMAIN q : f[q[i]].off # o
Latest(q, f, o, p, r) == LastOf(q, f, o, p) \/ (NoneOf(q, f, o) /\ r)

LEMMA LatestAppend ==
    ASSUME NEW S, NEW q \in Seq(S), NEW x \in S, NEW f, NEW o, NEW p, p.off = o, NEW r \in BOOLEAN
    PROVE  Latest(Append(q, x), f, o, p, r)
             <=> IF f[x].off = o THEN f[x] = p ELSE Latest(q, f, o, p, r)
<1> DEFINE a == Append(q, x)  n == Len(q)
<1>1. /\ n \in Nat /\ DOMAIN q = 1 .. n /\ DOMAIN a = 1 .. n + 1 /\ a[n + 1] = x
      /\ \A i \in 1 .. n : a[i] = q[i]
  BY AppendProperties, LenProperties
<1> HIDE DEF a, n
<1>2. CASE f[x].off = o
  <2>1. ~NoneOf(a, f, o)
    BY <1>1, <1>2 DEF NoneOf
  <2>2. LastOf(a, f, o, p) => f[x] = p
    <3>1. SUFFICES ASSUME NEW i \in DOMAIN a, f[a[i]] = p,
                          \A j \in DOMAIN a : j > i => f[a[j]].off # o
                   PROVE  i = n + 1
      BY <1>1 DEF LastOf
    <3>2. n + 1 \in DOMAIN a /\ ~(n + 1 > i)
      BY <1>1, <1>2, <3>1
    <3>3. QED
      BY <1>1, <3>2
  <2>3. f[x] = p => LastOf(a, f, o, p)
    <3>1. n + 1 \in DOMAIN a /\ \A j \in DOMAIN a : ~(j > n + 1)
      BY <1>1
    <3>2. QED
      BY <1>1, <3>1 DEF LastOf
  <2>4. QED
    BY <1>2, <2>1, <2>2, <2>3 DEF Latest, a
<1>3. CASE f[x].off # o
  <2>1. NoneOf(a, f, o) <=> NoneOf(q, f, o)
    <3>1. \A i \in DOMAIN a : i \in DOMAIN q \/ i = n + 1
      BY <1>1
    <3>2. \A i \in DOMAIN q : i \in DOMAIN a /\ a[i] = q[i]
      BY <1>1
    <3>3. QED
      BY <1>1, <1>3, <3>1, <3>2 DEF NoneOf
  <2>2. ASSUME LastOf(a, f, o, p) PROVE LastOf(q, f, o, p)
    <3>1. PICK i \in DOMAIN a : f[a[i]] = p /\ \A j \in DOMAIN a : j > i => f[a[j]].off # o
      BY <2>2 DEF LastOf
    <3>2. i \in 1 .. n
      BY <1>1, <1>3, <3>1
    <3>3. \A j \in 1 .. n : j \in DOMAIN a /\ a[j] = q[j]
      BY <1>1
    <3>4. QED
      BY <1>1, <3>1, <3>2, <3>3 DEF LastOf
  <2>3. ASSUME LastOf(q, f, o, p) PROVE LastOf(a, f, o, p)
    <3>1. PICK i \in DOMAIN q : f[q[i]] = p /\ \A j \in DOMAIN q : j > i => f[q[j]].off # o
      BY <2>3 DEF LastOf
    <3>2. i \in DOMAIN a /\ a[i] = q[i]
      BY <1>1
    <3>3. \A j \in DOMAIN a : j = n + 1 \/ (j \in DOMAIN q /\ a[j] = q[j])
      BY <1>1
    <3>4. \A j \in DOMAIN a : j > i => f[a[j]].off # o
      BY <1>1, <1>3, <3>1, <3>3
    <3>5. QED
      BY <3>1, <3>2, <3>4 DEF LastOf
  <2>4. QED
    BY <1>3, <2>1, <2>2, <2>3 DEF Latest, a
<1>4. QED
  BY <1>2, <1>3

LEMMA LatestTail ==
    ASSUME NEW S, NEW q \in Seq(S), q # <<>>, NEW f, NEW o, NEW p, p.off = o, NEW r \in BOOLEAN
    PROVE  LET x == f[Head(q)] IN
           Latest(q, f, o, p, r)
             <=> Latest(Tail(q), f, o, p, IF x.off = o THEN x = p ELSE r)
<1> DEFINE t == Tail(q)  n == Len(q)  x == f[Head(q)]
<1>1. /\ n \in Nat \ {0} /\ DOMAIN q = 1 .. n /\ DOMAIN t = 1 .. n - 1 /\ x = f[q[1]]
      /\ \A i \in 1 .. n - 1 : t[i] = q[i + 1]
  BY HeadTailProperties, LenProperties, EmptySeq
<1> HIDE DEF t, n, x
<1>2. \A i \in DOMAIN t : i + 1 \in DOMAIN q /\ t[i] = q[i + 1] /\ i \in Int /\ i + 1 # 1
  BY <1>1
<1>3. \A i \in DOMAIN q : i \in Int /\ (i = 1 \/ (i - 1 \in DOMAIN t /\ t[i - 1] = q[i]))
  BY <1>1
<1>4. 1 \in DOMAIN q
  BY <1>1
<1>5. NoneOf(q, f, o) <=> NoneOf(t, f, o) /\ x.off # o
  BY <1>1, <1>2, <1>3, <1>4 DEF NoneOf
<1>6. LastOf(t, f, o, p) => LastOf(q, f, o, p)
  <2>1. ASSUME NEW i \in DOMAIN t, f[t[i]] = p, \A j \in DOMAIN t : j > i => f[t[j]].off # o
        PROVE  LastOf(q, f, o, p)
    <3>1. i + 1 \in DOMAIN q /\ f[q[i + 1]] = p /\ i \in Int /\ i + 1 > 1
      BY <1>1, <1>2, <2>1
    <3>2. ASSUME NEW j \in DOMAIN q, j > i + 1 PROVE f[q[j]].off # o
      <4>1. j - 1 \in DOMAIN t /\ t[j - 1] = q[j] /\ j - 1 > i
        BY <1>3, <3>1, <3>2
      <4>2. QED
        BY <2>1, <4>1
    <3>3. QED
      BY <3>1, <3>2 DEF LastOf
  <2>2. QED
    BY <2>1 DEF LastOf
<1>7. NoneOf(t, f, o) /\ x = p => LastOf(q, f, o, p)
  <2>1. ASSUME NoneOf(t, f, o), x = p PROVE LastOf(q, f, o, p)
    <3>1. \A j \in DOMAIN q : j > 1 => f[q[j]].off # o
      BY <1>3, <2>1 DEF NoneOf
    <3>2. QED
      BY <1>1, <1>4, <2>1, <3>1 DEF LastOf
  <2>2. QED
    BY <2>1
<1>8. LastOf(q, f, o, p) => LastOf(t, f, o, p) \/ (NoneOf(t, f, o) /\ x = p)
  <2>1. ASSUME NEW i \in DOMAIN q, f[q[i]] = p, \A j \in DOMAIN q : j > i => f[q[j]].off # o
        PROVE  LastOf(t, f, o, p) \/ (NoneOf(t, f, o) /\ x = p)
    <3>1. CASE i = 1
      <4>1. ASSUME NEW j \in DOMAIN t PROVE f[t[j]].off # o
        <5>1. j + 1 \in DOMAIN q /\ t[j] = q[j + 1] /\ j + 1 > 1
          BY <1>1, <4>1
        <5>2. QED
          BY <2>1, <3>1, <5>1
      <4>2. QED
        BY <1>1, <2>1, <3>1, <4>1 DEF NoneOf
    <3>2. CASE i # 1
      <4>1. i - 1 \in DOMAIN t /\ t[i - 1] = q[i] /\ i \in Int
        BY <1>3, <3>2
      <4>2. ASSUME NEW j \in DOMAIN t, j > i - 1 PROVE f[t[j]].off # o
        <5>1. j + 1 \in DOMAIN q /\ t[j] = q[j + 1] /\ j + 1 > i
          BY <1>2, <4>1, <4>2
        <5>2. QED
          BY <2>1, <5>1
      <4>3. QED
        BY <2>1, <4>1, <4>2 DEF LastOf
    <3>3. QED
      BY <3>1, <3>2
  <2>2. QED
    BY <2>1 DEF LastOf
<1>9. x = p => x.off = o
  OBVIOUS
<1>10. QED
  BY <1>5, <1>6, <1>7, <1>8, <1>9 DEF Latest, t, x

\* Only what f takes the elements to matters.
LEMMA LatestSame ==
    ASSUME NEW q, NEW f, NEW g, \A i \in DOMAIN q : f[q[i]] = g[q[i]], NEW o, NEW p, NEW r
    PROVE  Latest(q, f, o, p, r) <=> Latest(q, g, o, p, r)
BY DEF Latest, LastOf, NoneOf

\* A queue without a page of the offset says nothing about it.
LEMMA LatestNone ==
    ASSUME NEW q, NEW f, NEW o, NEW p, p.off = o, \A i \in DOMAIN q : f[q[i]].off # o,
           NEW r \in BOOLEAN, Latest(q, f, o, p, r)
    PROVE  r
BY DEF Latest, LastOf

----------------------------------------------------------------------------
(* What a step of a CPU does to its call, and to what frontswap believes. *)

\* All that a load or a store is about stays.
SameArgs(d) ==
    /\ frame'[d].op = frame[d].op /\ frame'[d].page = frame[d].page
    /\ frame'[d].ctrl = frame[d].ctrl /\ frame'[d].got = frame[d].got

\* The steps of a call, one after the other.
Onward(c) ==
    \/ /\ frame[c].pc \in {"lock", "open", "opening"}
       /\ frame'[c].pc \in {"open", "opening", "check"}
    \/ At(c, "check") /\ loaded = "ib" /\ frame'[c].pc \in {"mark", "commit"}
    \/ At(c, "check") /\ loaded # "ib" /\ frame'[c].pc = "write" /\ frame'[c].todo = CtrlOrder
    \/ /\ frame[c].pc \in CommitPcs
       /\ \/ frame'[c].pc \in CommitPcs
          \/ frame'[c].pc = "mark" /\ frame[c].op = "store"
          \/ frame'[c].pc = "load" /\ frame[c].op # "store"
    \/ At(c, "overdue") /\ frame'[c].pc = "commit"
    \/ At(c, "mark") /\ frame'[c].pc = "post"
    \/ At(c, "post") /\ frame'[c].pc \in {"send", "refused"}
    \/ At(c, "write") /\ frame'[c].pc \in {"writing", "hung"} /\ frame'[c].todo = frame[c].todo
    \/ At(c, "writing") /\ frame'[c].pc = "write" /\ frame'[c].todo = Tail(frame[c].todo)
    \/ /\ At(c, "load")
       /\ \/ loaded = "ib" /\ frame'[c].pc = "overdue"
          \/ frame'[c].pc = "hung"
          \/ frame'[c].pc = "read" /\ frame[c].ctrl \in Alive /\ ~Listed(c)
    \/ At(c, "read") /\ frame'[c].pc = "loaded"

Within(c) == OthersKept(c) /\ Onward(c) /\ SameArgs(c) /\ UNCHANGED kernelVars

\* frontswap is told how its store ended ...
Keeps(c, v) == stored' = [stored EXCEPT ![frame[c].page.off] = v] /\ stores' = stores

\* ... and the store is over: it failed, or its page is where it has to be.
StoreOver(c) ==
    \/ frame[c].pc \in {"open", "send", "refused", "write"} /\ Keeps(c, 0)
    \/ At(c, "commit") /\ frame[c].op = "store" /\ Keeps(c, 0)
    \/ /\ Keeps(c, frame[c].page.ver)
       /\ \/ At(c, "mark") /\ frame[c].page.off \in readList
          \/ At(c, "send")
          \/ At(c, "write") /\ frame[c].todo = <<>>

LoadOver(c) == frame[c].pc \in {"read", "loaded"} /\ UNCHANGED kernelVars

Over(c) == Return(c) /\ (StoreOver(c) \/ LoadOver(c))

LEMMA MoveWithin ==
    ASSUME FramesOK, NEW c \in Cpus, NEW l, NEW q, NEW e, NEW d, Moves(c, l, q, e, d)
    PROVE  OthersKept(c) /\ SameArgs(c) /\ frame'[c].pc = l /\ frame'[c].todo = q
BY MoveFields DEF SameArgs

LEMMA CallTurns ==
    ASSUME FramesOK, NEW c \in Cpus, RpcLoop(c)
    PROVE  UNCHANGED kernelVars /\ (frame' = frame \/ Within(c))
<1>1. UNCHANGED kernelVars
  BY DEF RpcLoop, TakeLock, OpenSkip, PostCall, CallAnswered, CallFails, CallEnds, OldAnswer
<1>2. CASE TakeLock(c)
  <2>1. PICK l, q, e :
          /\ Moves(c, l, q, e, frame[c].done)
          /\ \/ At(c, "lock") /\ l \in {"open", "check"}
             \/ At(c, "overdue") /\ l = "commit"
    BY <1>2, RpcMoves
  <2>2. OthersKept(c) /\ SameArgs(c) /\ frame'[c].pc = l
    BY <2>1, MoveWithin
  <2>3. QED
    BY <1>1, <2>1, <2>2 DEF Within, Onward, At
<1>3. CASE OpenSkip(c)
  <2>1. Onward(c) /\ OthersKept(c) /\ SameArgs(c)
    BY <1>3, RpcMoves, MoveWithin DEF Onward, At
  <2>2. QED
    BY <1>1, <2>1 DEF Within
<1>4. CASE PostCall(c)
  <2>1. Onward(c) /\ OthersKept(c) /\ SameArgs(c)
    BY <1>4, RpcMoves, MoveWithin DEF Onward, At, CommitPcs
  <2>2. QED
    BY <1>1, <2>1 DEF Within
<1>5. CASE CallAnswered(c) \/ CallFails(c)
  <2>1. PICK ok \in BOOLEAN :
          \/ /\ At(c, "opening")
             /\ Moves(c, "open", Tail(frame[c].todo), ~ok \/ frame[c].err, frame[c].done)
          \/ /\ At(c, "committing")
             /\ Moves(c, "commit", Tail(frame[c].todo), ~ok, frame[c].done)
    BY <1>5, RpcMoves
  <2> DEFINE e == ~ok \/ frame[c].err  k == ~ok
  <2>2. CASE At(c, "opening") /\ Moves(c, "open", Tail(frame[c].todo), e, frame[c].done)
    <3> HIDE DEF e
    <3>1. OthersKept(c) /\ SameArgs(c) /\ frame'[c].pc = "open"
      BY <2>2, MoveWithin
    <3>2. QED
      BY <1>1, <2>2, <3>1 DEF Within, Onward, At
  <2>3. CASE At(c, "committing") /\ Moves(c, "commit", Tail(frame[c].todo), k, frame[c].done)
    <3> HIDE DEF k
    <3>1. OthersKept(c) /\ SameArgs(c) /\ frame'[c].pc = "commit"
      BY <2>3, MoveWithin
    <3>2. QED
      BY <1>1, <2>3, <3>1 DEF Within, Onward, At, CommitPcs
  <2>4. QED
    BY <2>1, <2>2, <2>3
<1>6. CASE OldAnswer(c)
  BY <1>1, <1>6 DEF OldAnswer
<1>7. QED
  BY <1>2, <1>3, <1>4, <1>5, <1>6 DEF RpcLoop

LEMMA UnlockTurns ==
    ASSUME FramesOK, NEW c \in Cpus, Unlocks(c)
    PROVE  Within(c) \/ Over(c)
<1>1. CASE OpenEnds(c)
  <2>1. CASE StoreResult(c, FALSE)
    BY <1>1, <2>1 DEF OpenEnds, StoreResult, Over, StoreOver, Keeps, At
  <2>2. CASE Goto(c, "check") /\ UNCHANGED kernelVars
    <3>1. Moves(c, "check", frame[c].todo, frame[c].err, frame[c].done)
      BY <2>2, MoveForms DEF Goto
    <3>2. Onward(c) /\ OthersKept(c) /\ SameArgs(c)
      BY <1>1, <3>1, MoveWithin DEF OpenEnds, Onward, At
    <3>3. QED
      BY <2>2, <3>2 DEF Within
  <2>3. QED
    BY <1>1, <2>1, <2>2 DEF OpenEnds
<1>2. CASE CheckBatch(c)
  <2>1. At(c, "check") /\ UNCHANGED kernelVars
    BY <1>2 DEF CheckBatch
  <2>2. \/ loaded = "ib" /\ StartCommit(c)
        \/ loaded = "ib" /\ frame' = [frame EXCEPT ![c].pc = "mark"]
        \/ loaded # "ib" /\ frame' = [frame EXCEPT ![c].pc = "write", ![c].todo = CtrlOrder]
    BY <1>2 DEF CheckBatch
  <2>3. \/ loaded = "ib" /\ Moves(c, "commit", AliveOrder, FALSE, frame[c].done)
        \/ loaded = "ib" /\ Moves(c, "mark", frame[c].todo, frame[c].err, frame[c].done)
        \/ loaded # "ib" /\ Moves(c, "write", CtrlOrder, frame[c].err, frame[c].done)
    BY <2>2, MoveForms DEF StartCommit
  <2>4. PICK l, q, e :
          /\ Moves(c, l, q, e, frame[c].done)
          /\ \/ loaded = "ib" /\ l \in {"commit", "mark"}
             \/ loaded # "ib" /\ l = "write" /\ q = CtrlOrder
    BY <2>3
  <2>5. OthersKept(c) /\ SameArgs(c) /\ frame'[c].pc = l /\ frame'[c].todo = q
    BY <2>4, MoveWithin
  <2>6. QED
    BY <2>1, <2>4, <2>5 DEF Within, Onward
<1>3. CASE CommitEnds(c)
  <2>1. CASE frame[c].op = "store" /\ StoreResult(c, FALSE)
    BY <1>3, <2>1 DEF CommitEnds, StoreResult, Over, StoreOver, Keeps
  <2>2. CASE Goto(c, IF frame[c].op = "store" THEN "mark" ELSE "load") /\ UNCHANGED kernelVars
    <3> DEFINE l == IF frame[c].op = "store" THEN "mark" ELSE "load"
    <3>1. Moves(c, l, frame[c].todo, frame[c].err, frame[c].done)
      BY <2>2, MoveForms DEF Goto
    <3> HIDE DEF l
    <3>2. OthersKept(c) /\ SameArgs(c) /\ frame'[c].pc = l
      BY <3>1, MoveWithin
    <3>3. Onward(c)
      BY <1>3, <3>2 DEF CommitEnds, Onward, At, CommitPcs, l
    <3>4. QED
      BY <2>2, <3>2, <3>3 DEF Within
  <2>3. QED
    BY <1>3, <2>1, <2>2 DEF CommitEnds
<1>4. QED
  BY <1>1, <1>2, <1>3 DEF Unlocks

LEMMA SendTurns ==
    ASSUME FramesOK, NEW c \in Cpus, Sends(c)
    PROVE  Within(c) \/ Over(c)
<1>1. CASE MarkPage(c)
  <2>1. CASE frame[c].page.off \in readList
    BY <1>1, <2>1 DEF MarkPage, StoreResult, Over, StoreOver, Keeps
  <2>2. CASE frame[c].page.off \notin readList
    <3>1. At(c, "mark") /\ Goto(c, "post") /\ UNCHANGED kernelVars
      BY <1>1, <2>2 DEF MarkPage
    <3>2. Moves(c, "post", frame[c].todo, frame[c].err, frame[c].done)
      BY <3>1, MoveForms DEF Goto
    <3>3. Onward(c) /\ OthersKept(c) /\ SameArgs(c)
      BY <3>1, <3>2, MoveWithin DEF Onward
    <3>4. QED
      BY <3>1, <3>3 DEF Within
  <2>3. QED
    BY <2>1, <2>2
<1>2. CASE PostPage(c) \/ PostFails(c)
  <2>1. UNCHANGED kernelVars
    BY <1>2 DEF PostPage, PostFails
  <2>2. PICK l, d : /\ At(c, "post") /\ l \in {"send", "refused"}
                    /\ Moves(c, l, frame[c].todo, frame[c].err, d)
    BY <1>2, SendMoves
  <2>3. Onward(c) /\ OthersKept(c) /\ SameArgs(c)
    BY <2>2, MoveWithin DEF Onward
  <2>4. QED
    BY <2>1, <2>3 DEF Within
<1>3. CASE SendFails(c)
  <2>1. frame[c].pc \in {"send", "refused"} /\ StoreResult(c, FALSE)
    BY <1>3 DEF SendFails, At
  <2>2. QED
    BY <2>1 DEF StoreResult, Over, StoreOver, Keeps
<1>4. CASE CountPage(c)
  BY <1>4 DEF CountPage, StoreResult, Over, StoreOver, Keeps, At
<1>5. QED
  BY <1>1, <1>2, <1>3, <1>4 DEF Sends

LEMMA WriteTurns ==
    ASSUME FramesOK, NEW c \in Cpus, Writes(c)
    PROVE  Within(c) \/ Over(c)
<1>1. CASE PostWrite(c)
  <2>1. UNCHANGED kernelVars
    BY <1>1 DEF PostWrite, PostRdma
  <2>2. PICK l : /\ At(c, "write") /\ l \in {"writing", "hung"}
                 /\ Moves(c, l, frame[c].todo, frame[c].err, FALSE)
    BY <1>1, SendMoves
  <2>3. OthersKept(c) /\ SameArgs(c) /\ frame'[c].pc = l /\ frame'[c].todo = frame[c].todo
    BY <2>2, MoveWithin
  <2>4. QED
    BY <2>1, <2>2, <2>3 DEF Within, Onward
<1>2. CASE WriteDone(c) \/ WriteFails(c)
  <2>1. UNCHANGED kernelVars
    BY <1>2 DEF WriteDone, WriteFails
  <2>2. PICK err \in BOOLEAN :
          At(c, "writing") /\ Moves(c, "write", Tail(frame[c].todo), err, frame[c].done)
    BY <1>2, SendMoves
  <2>3. Onward(c) /\ OthersKept(c) /\ SameArgs(c)
    BY <2>2, MoveWithin DEF Onward
  <2>4. QED
    BY <2>1, <2>3 DEF Within
<1>3. CASE AllWritten(c)
  BY <1>3 DEF AllWritten, StoreResult, Over, StoreOver, Keeps, At
<1>4. QED
  BY <1>1, <1>2, <1>3 DEF Writes

LEMMA LoadTurns ==
    ASSUME FramesOK, NEW c \in Cpus, Loads(c)
    PROVE  Within(c) \/ Over(c)
<1>1. UNCHANGED kernelVars
  BY DEF Loads, LoadOverdue, PostRead, PostRdma, PageRead, ReadFails, LoadDone
<1>2. CASE ReadFails(c) \/ LoadDone(c)
  BY <1>1, <1>2 DEF ReadFails, LoadDone, Over, LoadOver, At
<1>3. CASE LoadOverdue(c)
  <2>1. At(c, "load") /\ loaded = "ib"
        /\ Moves(c, "overdue", frame[c].todo, frame[c].err, frame[c].done)
    BY <1>3, LoadMoves
  <2>2. Onward(c) /\ OthersKept(c) /\ SameArgs(c)
    BY <2>1, MoveWithin DEF Onward
  <2>3. QED
    BY <1>1, <2>2 DEF Within
<1>4. CASE PostRead(c)
  <2> DEFINE l == IF frame[c].ctrl \in Alive THEN "read" ELSE "hung"
  <2>1. /\ At(c, "load") /\ ~Listed(c)
        /\ frame' = [frame EXCEPT ![c].pc = l, ![c].done = FALSE]
    BY <1>4 DEF PostRead, PostRdma
  <2> HIDE DEF l
  <2>2. Moves(c, l, frame[c].todo, frame[c].err, FALSE)
    BY <2>1, MoveForms
  <2>3. OthersKept(c) /\ SameArgs(c) /\ frame'[c].pc = l
    BY <2>2, MoveWithin
  <2>4. Onward(c)
    BY <2>1, <2>3 DEF Onward, l
  <2>5. QED
    BY <1>1, <2>3, <2>4 DEF Within
<1>5. CASE PageRead(c)
  <2>1. At(c, "read") /\ Moves(c, "loaded", frame[c].todo, frame[c].err, frame[c].done)
    BY <1>5, LoadMoves
  <2>2. Onward(c) /\ OthersKept(c) /\ SameArgs(c)
    BY <2>1, MoveWithin DEF Onward
  <2>3. QED
    BY <1>1, <2>2 DEF Within
<1>6. QED
  BY <1>2, <1>3, <1>4, <1>5 DEF Loads

\* A call of the kernel, a flag that is set, and every other step.
LEMMA CpuTurns ==
    ASSUME FramesOK, NEW c \in Cpus, CpuStep(c)
    PROVE  \/ KernelCalls(c) \/ PollsDone(c)
           \/ UNCHANGED kernelVars /\ frame' = frame
           \/ Within(c) \/ Over(c)
BY CpuCases, CallTurns, UnlockTurns, SendTurns, WriteTurns, LoadTurns

----------------------------------------------------------------------------
(* How a call begins. *)

Written(o) == [off |-> o, ver |-> stored[o]]

StoreStarts(c, o) ==
    /\ At(c, "idle") /\ ~Busy(o) /\ OthersKept(c) /\ frame'[c].pc = "lock"
    /\ frame'[c].op = "store" /\ frame'[c].page = [off |-> o, ver |-> stores + 1]
    /\ frame'[c].got = None
    /\ stores < MaxStores /\ stores' = stores + 1 /\ stored' = stored

LoadStarts(c, o) ==
    /\ At(c, "idle") /\ ~Busy(o) /\ OthersKept(c) /\ frame'[c].pc = "load"
    /\ frame'[c].op = "load" /\ frame'[c].page = Written(o) /\ frame'[c].ctrl \in ReadServers
    /\ frame'[c].got = None
    /\ stored[o] # 0 /\ UNCHANGED kernelVars

Refused(o) ==
    /\ ~Busy(o) /\ frame' = frame
    /\ stores < MaxStores /\ stores' = stores + 1 /\ stored' = [stored EXCEPT ![o] = 0]

LEMMA KernelTurns ==
    ASSUME FramesOK, NEW c \in Cpus, KernelCalls(c)
    PROVE  \E o \in Offsets : StoreStarts(c, o) \/ LoadStarts(c, o) \/ Refused(o)
<1>1. PICK o \in Offsets : \/ StoreBegin(c, o) \/ StoreUnmapped(c, o)
                           \/ \E s \in Servers : LoadBegin(c, o, s)
  BY DEF KernelCalls, OwnStep
<1>2. CASE StoreBegin(c, o)
  <2>1. frame'[c] = [IdleFrame EXCEPT !.pc = "lock", !.op = "store",
                                        !.page = [off |-> o, ver |-> stores + 1]]
        /\ OthersKept(c)
    BY <1>2 DEF StoreBegin, FramesOK, OthersKept
  <2>2. /\ frame'[c].pc = "lock" /\ frame'[c].op = "store" /\ frame'[c].got = None
        /\ frame'[c].page = [off |-> o, ver |-> stores + 1]
    BY <2>1 DEF IdleFrame
  <2>3. QED
    BY <1>2, <2>1, <2>2 DEF StoreBegin, StoreStarts
<1>3. ASSUME NEW s \in Servers, LoadBegin(c, o, s) PROVE LoadStarts(c, o)
  <2>1. frame'[c] = [IdleFrame EXCEPT !.pc = "load", !.op = "load", !.page = Written(o),
                                        !.ctrl = s]
        /\ OthersKept(c)
    BY <1>3 DEF LoadBegin, FramesOK, OthersKept, Written
  <2>2. /\ frame'[c].pc = "load" /\ frame'[c].op = "load" /\ frame'[c].got = None
        /\ frame'[c].page = Written(o) /\ frame'[c].ctrl = s
    BY <2>1 DEF IdleFrame
  <2>3. QED
    BY <1>3, <2>1, <2>2 DEF LoadBegin, LoadStarts
<1>4. CASE StoreUnmapped(c, o)
  BY <1>4 DEF StoreUnmapped, Refused
<1>5. QED
  BY <1>1, <1>2, <1>3, <1>4

----------------------------------------------------------------------------
(* The path of a call, whatever fails. *)

StorePcs ==
    {"lock", "open", "opening", "check", "mark", "post", "send", "refused", "write", "writing"}

\* The steps only the other driver takes.
NotOurs == IF loaded = "ib" THEN {"write", "writing"}
           ELSE {"mark", "post", "send", "refused", "overdue"} \cup CommitPcs

\* A load is about what the last store of its offset wrote.
PathOK(c) ==
    /\ frame[c].pc \in StorePcs => frame[c].op = "store"
    /\ frame[c].pc \notin NotOurs
    /\ At(c, "read") => frame[c].ctrl \in Alive
    /\ ~At(c, "idle") /\ frame[c].op = "load" =>
         /\ frame[c].page = Written(frame[c].page.off)
         /\ loaded # "ib" => frame[c].ctrl = Main

\* A read on a queue pair that still has an owner is that of a load there.
ReadsOwned ==
    \A q \in Qps : \A w \in Elems(sendq[q]) :
        w.op = "read" /\ w.cpu # None => At(w.cpu, "read") /\ frame[w.cpu].ctrl = q

PathsOK == \A c \in Cpus : PathOK(c)

LEMMA PathKept ==
    ASSUME CtrlTypes, NEW d \in Cpus, PathOK(d), loaded' = loaded,
           frame'[d].pc = frame[d].pc, frame'[d].op = frame[d].op,
           frame'[d].page = frame[d].page, frame'[d].ctrl = frame[d].ctrl,
           ~At(d, "idle") => stored'[frame[d].page.off] = stored[frame[d].page.off]
    PROVE  PathOK(d)'
<1>1. Alive' = Alive /\ NotOurs' = NotOurs
  BY AliveStays DEF NotOurs
<1>2. At(d, "idle") <=> frame'[d].pc = "idle"
  BY DEF At
<1>3. QED
  BY <1>1, <1>2 DEF PathOK, At, Written

LEMMA OnwardPath ==
    ASSUME CtrlTypes, NEW c \in Cpus, PathOK(c), Within(c), loaded' = loaded
    PROVE  PathOK(c)'
<1>1. Alive' = Alive /\ NotOurs' = NotOurs /\ stored' = stored
  BY AliveStays DEF NotOurs, Within, kernelVars
<1>2. /\ frame'[c].op = frame[c].op /\ frame'[c].page = frame[c].page
      /\ frame'[c].ctrl = frame[c].ctrl
  BY DEF Within, SameArgs
<1>3. frame'[c].pc # "idle" /\ ~At(c, "idle")
  BY DEF Within, Onward, At, CommitPcs
<1>4. frame'[c].pc \in StorePcs => frame[c].op = "store"
  BY DEF Within, Onward, At, CommitPcs, StorePcs, PathOK
<1>5. frame'[c].pc \notin NotOurs
  BY DEF Within, Onward, At, CommitPcs, NotOurs, PathOK
<1>6. frame'[c].pc = "read" => frame[c].ctrl \in Alive
  BY DEF Within, Onward, At, CommitPcs
<1>7. QED
  BY <1>1, <1>2, <1>3, <1>4, <1>5, <1>6 DEF PathOK, At, Written

LEMMA CpuPaths ==
    ASSUME AltTypes, OneEach, PathsOK, NEW c \in Cpus, CpuStep(c), NEW d \in Cpus
    PROVE  PathOK(d)'
<1>0. /\ FramesOK /\ CtrlTypes /\ loaded' = loaded /\ PathOK(c) /\ PathOK(d)
      /\ stored \in [Offsets -> 0 .. MaxStores]
  BY CpuKeepsNode DEF AltTypes, PathsOK, KernelTypes
<1>1. ~At(d, "idle") => frame[d].page.off \in Offsets
  BY <1>0, FrameFacts
<1>2. CASE PollsDone(c)
  <2>1. stored' = stored
    BY <1>2 DEF PollsDone, kernelVars
  <2>2. QED
    BY <1>0, <1>2, <2>1, PolledFields, PathKept
<1>3. CASE UNCHANGED kernelVars /\ frame' = frame
  BY <1>0, <1>3, PathKept DEF kernelVars
<1>4. CASE Within(c)
  <2>1. CASE d = c
    BY <1>0, <1>4, <2>1, OnwardPath
  <2>2. CASE d # c
    BY <1>0, <1>4, <2>2, PathKept DEF Within, OthersKept, kernelVars
  <2>3. QED
    BY <2>1, <2>2
<1>5. CASE Over(c)
  <2>1. CASE d = c
    <3>1. frame'[d] = IdleFrame /\ frame'[d].pc = "idle"
      BY <1>0, <1>5, <2>1, ReturnFields DEF Over
    <3>2. QED
      BY <3>1 DEF PathOK, StorePcs, NotOurs, CommitPcs, At
  <2>2. CASE d # c
    <3>1. frame'[d] = frame[d] /\ ~At(c, "idle")
      BY <1>0, <1>5, <2>2, ReturnFields DEF Over, StoreOver, LoadOver, OthersKept, At
    <3>2. ~At(d, "idle") => stored'[frame[d].page.off] = stored[frame[d].page.off]
      <4>1. ~At(d, "idle") => frame[d].page.off # frame[c].page.off
        BY <2>2, <3>1 DEF OneEach
      <4>2. stored' = stored \/ \E v : stored' = [stored EXCEPT ![frame[c].page.off] = v]
        BY <1>5 DEF Over, StoreOver, LoadOver, Keeps, kernelVars
      <4>3. QED
        BY <1>0, <1>1, <4>1, <4>2
    <3>3. QED
      BY <1>0, <3>1, <3>2, PathKept
  <2>3. QED
    BY <2>1, <2>2
<1>6. ASSUME NEW o \in Offsets, StoreStarts(c, o) \/ LoadStarts(c, o) PROVE PathOK(d)'
  <2>1. CASE d = c
    <3>1. frame'[c].pc = "lock" /\ frame'[c].op = "store" => PathOK(c)'
      BY DEF PathOK, NotOurs, CommitPcs, At
    <3>2. ASSUME LoadStarts(c, o) PROVE PathOK(c)'
      <4>1. /\ frame'[c].pc = "load" /\ frame'[c].op = "load"
            /\ frame'[c].page = Written(o)' /\ frame'[c].page.off = o
            /\ frame'[c].ctrl \in ReadServers
        BY <3>2 DEF LoadStarts, Written, kernelVars
      <4>2. loaded # "ib" => frame'[c].ctrl = Main
        BY <1>0, <4>1 DEF ReadServers, CtrlTypes
      <4>3. QED
        BY <1>0, <4>1, <4>2 DEF PathOK, NotOurs, CommitPcs, At, StorePcs
    <3>3. QED
      BY <1>6, <2>1, <3>1, <3>2 DEF StoreStarts
  <2>2. CASE d # c
    BY <1>0, <1>6, <2>2, PathKept DEF StoreStarts, LoadStarts, OthersKept, kernelVars
  <2>3. QED
    BY <2>1, <2>2
<1>7. ASSUME NEW o \in Offsets, Refused(o) PROVE PathOK(d)'
  <2>1. ~At(d, "idle") => frame[d].page.off # o
    BY <1>7 DEF Refused, Busy
  <2>2. ~At(d, "idle") => stored'[frame[d].page.off] = stored[frame[d].page.off]
    BY <1>0, <1>1, <1>7, <2>1 DEF Refused
  <2>3. QED
    BY <1>0, <1>7, <2>2, PathKept DEF Refused
<1>8. QED
  BY <1>0, <1>2, <1>3, <1>4, <1>5, <1>6, <1>7, CpuTurns, KernelTurns

\* What is left on a queue is another's, or nobody's.
LEMMA DisownedElems ==
    ASSUME NEW c \in Cpus, NEW q \in Seq(Work), NEW w \in Elems(Disowned(c, q))
    PROVE  w.cpu = None \/ (w \in Elems(q) /\ w.cpu # c)
<1>1. PICK i \in DOMAIN q : w = IF q[i].cpu = c THEN [q[i] EXCEPT !.cpu = None] ELSE q[i]
  BY DEF Disowned, Elems
<1>2. q[i] \in Work
  BY ElemsOfSeq
<1>3. [q[i] EXCEPT !.cpu = None].cpu = None
  BY <1>2 DEF Work
<1>4. QED
  BY <1>1, <1>3 DEF Elems

LEMMA ReadSteps ==
    ASSUME NEW c \in Cpus, CpuStep(c), At(c, "read")
    PROVE  PageRead(c) \/ ReadFails(c) \/ PollsDone(c)
<1>1. ~KernelCalls(c)
  BY DEF KernelCalls, OwnStep, StoreBegin, StoreUnmapped, LoadBegin, At
<1>2. ~RpcLoop(c) /\ ~Unlocks(c)
  BY DEF RpcLoop, TakeLock, OpenSkip, PostCall, CallAnswered, CallFails, OldAnswer,
         Unlocks, OpenEnds, CheckBatch, CommitEnds, At
<1>3. ~Sends(c) /\ ~Writes(c) /\ ~LoadOverdue(c) /\ ~PostRead(c) /\ ~LoadDone(c)
  BY DEF Sends, MarkPage, PostPage, PostFails, SendFails, CountPage, Writes, PostWrite, WriteDone, WriteFails,
         AllWritten, LoadOverdue, PostRead, LoadDone, At
<1>4. QED
  BY <1>1, <1>2, <1>3, CpuCases DEF Loads

LEMMA CpuReads ==
    ASSUME AltTypes, ReadsOwned, NEW c \in Cpus, CpuStep(c)
    PROVE  ReadsOwned'
<1>0. FramesOK /\ WireTypes /\ KernelTypes
  BY DEF AltTypes
<1>1. CASE PollsDone(c)
  <2>1. /\ sendq' = sendq
        /\ \A d \in Cpus : frame'[d].pc = frame[d].pc /\ frame'[d].ctrl = frame[d].ctrl
    BY <1>0, <1>1, PolledFields
  <2> SUFFICES ASSUME NEW q \in Qps, NEW w \in Elems(sendq[q]), w.op = "read", w.cpu # None
               PROVE  At(w.cpu, "read")' /\ frame'[w.cpu].ctrl = q
    BY <2>1 DEF ReadsOwned
  <2>2. w \in Work
    BY <1>0, ElemsOfSeq DEF WireTypes
  <2>3. w.cpu \in Cpus
    BY <2>2 DEF Work
  <2>4. QED
    BY <2>1, <2>3 DEF ReadsOwned, At
<1>2. ASSUME NEW q \in Qps, NEW w \in Elems(sendq[q]), OthersKept(c), w.op = "read",
             w.cpu # None, w.cpu # c
      PROVE  At(w.cpu, "read")' /\ frame'[w.cpu].ctrl = q
  <2>1. At(w.cpu, "read") /\ frame[w.cpu].ctrl = q
    BY <1>2 DEF ReadsOwned
  <2>2. w \in Work
    BY <1>0, ElemsOfSeq DEF WireTypes
  <2>3. w.cpu \in Cpus
    BY <1>2, <2>2 DEF Work
  <2>4. QED
    BY <1>2, <2>1, <2>3 DEF OthersKept, At
<1>3. CASE ~PollsDone(c) /\ At(c, "read")
  <2>1. /\ OthersKept(c) /\ QpOf(c) = frame[c].ctrl
        /\ sendq' = [sendq EXCEPT ![QpOf(c)] = Disowned(c, @)]
    <3>1. PageRead(c) \/ ReadFails(c)
      BY <1>3, ReadSteps
    <3>2. OthersKept(c)
      <4>1. PageRead(c) => OthersKept(c)
        <5>1. PageRead(c) => Moves(c, "loaded", frame[c].todo, frame[c].err, frame[c].done)
          BY <1>0, LoadMoves
        <5>2. QED
          BY <1>0, <5>1, MoveWithin
      <4>2. ReadFails(c) => OthersKept(c)
        BY <1>0, LoadMoves, ReturnFields
      <4>3. QED
        BY <3>1, <4>1, <4>2
    <3>3. sendq' = [sendq EXCEPT ![QpOf(c)] = Disowned(c, @)]
      BY <3>1 DEF PageRead, ReadFails, StopsPolling, PollsError
    <3>4. QED
      BY <1>3, <3>2, <3>3 DEF QpOf, At
  <2> SUFFICES ASSUME NEW q \in Qps, NEW w \in Elems(sendq'[q]), w.op = "read", w.cpu # None
               PROVE  At(w.cpu, "read")' /\ frame'[w.cpu].ctrl = q
    BY DEF ReadsOwned
  <2>2. w \in Elems(sendq[q]) /\ w.cpu # c
    <3>1. CASE q = QpOf(c)
      <4>1. sendq'[q] = Disowned(c, sendq[q]) /\ sendq[q] \in Seq(Work)
        BY <1>0, <2>1, <3>1 DEF WireTypes
      <4>2. QED
        BY <4>1, DisownedElems
    <3>2. CASE q # QpOf(c)
      BY <1>0, <2>1, <3>2 DEF WireTypes, ReadsOwned
    <3>3. QED
      BY <3>1, <3>2
  <2>3. QED
    BY <1>2, <2>1, <2>2
<1>4. CASE ~PollsDone(c) /\ ~At(c, "read")
  <2>1. WireStep(c)
    BY <1>0, <1>4, CpuWires
  <2>2. OthersKept(c)
    BY <2>1 DEF WireStep
  <2>3. ASSUME NEW q \in Qps, NEW w \in Elems(sendq[q]), w.op = "read", w.cpu # None
        PROVE  At(w.cpu, "read")' /\ frame'[w.cpu].ctrl = q
    <3>1. w.cpu # c
      BY <1>4, <2>3 DEF ReadsOwned
    <3>2. QED
      BY <1>2, <2>2, <2>3, <3>1
  <2>4. CASE WiresKept(c)
    BY <2>3, <2>4 DEF WiresKept, ReadsOwned
  <2>5. CASE GivesUp(c) \/ Leaves(c)
    <3>1. sendq' = [sendq EXCEPT ![QpOf(c)] = Disowned(c, @)]
      BY <2>5 DEF GivesUp, Leaves, StopsPolling, PollsError
    <3>2. ASSUME NEW q \in Qps, NEW w \in Elems(sendq'[q]), w.cpu # None
          PROVE  w \in Elems(sendq[q])
      <4>1. sendq'[q] = sendq[q] \/ sendq'[q] = Disowned(c, sendq[q])
        BY <1>0, <3>1 DEF WireTypes
      <4>2. sendq[q] \in Seq(Work)
        BY <1>0 DEF WireTypes
      <4>3. QED
        BY <3>2, <4>1, <4>2, DisownedElems
    <3>3. QED
      BY <2>3, <3>2 DEF ReadsOwned
  <2>6. CASE PostsWork(c)
    <3>1. PICK r \in Qps, v \in Work : /\ v = WorkOf(c)' /\ v.cpu = c /\ r = QpOf(c)'
                                       /\ sendq' = [sendq EXCEPT ![r] = Append(sendq[r], v)]
      <4>1. PICK r \in Qps, op \in {"page", "read", "write", "call"}, what \in Page \cup Requests :
               /\ r = QpOf(c)' /\ Posted(c, r, op, what)
               /\ [cpu |-> c, op |-> op, what |-> what] \in Work
               /\ [cpu |-> c, op |-> op, what |-> what] = WorkOf(c)'
        BY <2>6 DEF PostsWork
      <4>2. QED
        BY <4>1 DEF Posted
    <3>2. v.op = "read" => frame'[c].pc = "read" /\ frame'[c].ctrl = r
      <4>1. v.op = "read" => frame'[c].pc = "read"
        BY <3>1 DEF WorkOf, At
      <4>2. QED
        BY <3>1, <4>1 DEF QpOf, At
    <3>3. ASSUME NEW q \in Qps, NEW w \in Elems(sendq'[q])
          PROVE  w \in Elems(sendq[q]) \/ (w = v /\ q = r)
      <4>1. sendq[q] \in Seq(Work)
        BY <1>0 DEF WireTypes
      <4>2. CASE q = r
        <5>1. sendq'[q] = Append(sendq[q], v)
          BY <1>0, <3>1, <4>2 DEF WireTypes
        <5>2. Elems(sendq'[q]) = Elems(sendq[q]) \cup {v}
          BY <4>1, <5>1, ElemsOfAppend
        <5>3. QED
          BY <3>3, <4>2, <5>2
      <4>3. CASE q # r
        BY <1>0, <3>1, <3>3, <4>3 DEF WireTypes
      <4>4. QED
        BY <4>2, <4>3
    <3>4. QED
      BY <2>3, <3>1, <3>2, <3>3 DEF ReadsOwned, At
  <2>7. QED
    BY <2>1, <2>4, <2>5, <2>6 DEF WireStep
<1>5. QED
  BY <1>1, <1>3, <1>4

CallInv == PathsOK /\ ReadsOwned

LEMMA CallInvInit == AltInit => CallInv
<1> SUFFICES ASSUME AltInit PROVE CallInv
  OBVIOUS
<1>1. \A c \in Cpus : PathOK(c)
  <2>1. \A c \in Cpus : frame[c].pc = "idle"
    BY DEF AltInit, IdleFrame
  <2>2. QED
    BY <2>1 DEF PathOK, StorePcs, NotOurs, CommitPcs, At
<1>2. \A q \in Qps : Elems(sendq[q]) = {}
  BY DEF AltInit, Elems
<1>3. QED
  BY <1>1, <1>2 DEF CallInv, PathsOK, ReadsOwned

\* The queue pairs and the servers leave a call where it is.
LEMMA WorkStays ==
    ASSUME AltTypes, NEW q \in Qps, Executes(q)
    PROVE  /\ \A d \in Cpus : SameButGot(frame'[d], frame[d])
           /\ UNCHANGED <<ctrlVars, kernelVars, loaded, blurred>>
           /\ failed => failed'
           /\ \A r \in Qps : Elems(sendq'[r]) \subseteq Elems(sendq[r])
<1>1. \A d \in Cpus : SameButGot(frame'[d], frame[d])
  BY WorkFrames
<1>2. WireTypes
  BY DEF AltTypes
<1>3. \/ \E op : Completes(q, op, TRUE)
      \/ \E op : Completes(q, op, FALSE)
  BY DEF Executes, SendsPage, WorkFails, SendsCall, ReadsPage, WritesPage
<1>4. PICK ok \in BOOLEAN : Completed(q, ok)
  <2>1. TRUE \in BOOLEAN /\ FALSE \in BOOLEAN
    OBVIOUS
  <2>2. Completed(q, TRUE) \/ Completed(q, FALSE)
    BY <1>2, <1>3, <2>1, WorkCompletes
  <2>3. QED
    BY <2>1, <2>2
<1>5. Elems(Tail(sendq[q])) \subseteq Elems(sendq[q])
  BY <1>4, HeadAndTail DEF Completed
<1>6. \A r \in Qps : Elems(sendq'[r]) \subseteq Elems(sendq[r])
  BY <1>2, <1>4, <1>5 DEF Completed, WireTypes
<1>7. QED
  BY <1>1, <1>4, <1>6 DEF Completed

LEMMA CallInvStep == AltTypes /\ OneEach /\ CallInv /\ [AltNext]_altVars => CallInv'
<1> SUFFICES ASSUME AltTypes, OneEach, CallInv, [AltNext]_altVars PROVE CallInv'
  OBVIOUS
<1>0. FramesOK /\ CtrlTypes /\ WireTypes /\ PathsOK /\ ReadsOwned
  BY DEF AltTypes, CallInv
<1>1. ASSUME NEW c \in Cpus, CpuStep(c) PROVE CallInv'
  BY <1>0, <1>1, CpuPaths, CpuReads DEF CallInv, PathsOK
<1>2. ASSUME NEW q \in Qps, Executes(q) PROVE CallInv'
  <2>1. /\ \A d \in Cpus : SameButGot(frame'[d], frame[d])
        /\ loaded' = loaded /\ stored' = stored
        /\ \A r \in Qps : Elems(sendq'[r]) \subseteq Elems(sendq[r])
    BY <1>2, WorkStays DEF kernelVars
  <2>2. PathsOK'
    BY <1>0, <2>1, PathKept DEF PathsOK, SameButGot
  <2>3. ReadsOwned'
    <3> SUFFICES ASSUME NEW r \in Qps, NEW w \in Elems(sendq'[r]), w.op = "read", w.cpu # None
                 PROVE  At(w.cpu, "read")' /\ frame'[w.cpu].ctrl = r
      BY DEF ReadsOwned
    <3>1. w \in Elems(sendq[r])
      BY <2>1
    <3>2. At(w.cpu, "read") /\ frame[w.cpu].ctrl = r
      BY <1>0, <3>1 DEF ReadsOwned
    <3>3. w \in Work
      BY <1>0, <3>1, ElemsOfSeq DEF WireTypes
    <3>4. w.cpu \in Cpus
      BY <3>3 DEF Work
    <3>5. QED
      BY <2>1, <3>2, <3>4 DEF SameButGot, At
  <2>4. QED
    BY <2>2, <2>3 DEF CallInv
<1>3. ASSUME UNCHANGED <<frame, sendq, loaded, stored>> PROVE CallInv'
  <2>1. PathsOK'
    BY <1>0, <1>3, PathKept DEF PathsOK
  <2>2. QED
    BY <1>0, <1>3, <2>1 DEF CallInv, ReadsOwned, At
<1>4. ASSUME NEW s \in Servers, Deliver(s) \/ ServerRuns(s) PROVE CallInv'
  BY <1>3, <1>4 DEF Deliver, ServerRuns, wireVars, kernelVars, historyOfCalls
<1>5. CASE UNCHANGED altVars
  BY <1>3, <1>5 DEF altVars, wireVars, kernelVars, historyOfCalls
<1>6. QED
  BY <1>1, <1>2, <1>4, <1>5 DEF AltNext

----------------------------------------------------------------------------
(* What rests with the backend: the pages of successful stores. *)

\* The steps a CPU may take from where it sends, writes or commits.
LEMMA StepsAt ==
    ASSUME NEW c \in Cpus, CpuStep(c), ~PollsDone(c)
    PROVE  /\ At(c, "mark") => MarkPage(c)
           /\ At(c, "post") => PostPage(c) \/ PostFails(c)
           /\ At(c, "load") => LoadOverdue(c) \/ PostRead(c)
           /\ At(c, "write") => PostWrite(c) \/ AllWritten(c)
           /\ At(c, "writing") => WriteDone(c) \/ WriteFails(c)
<1>1. KernelCalls(c) => At(c, "idle")
  BY DEF KernelCalls, OwnStep, StoreBegin, StoreUnmapped, LoadBegin
<1>2. RpcLoop(c) \/ Unlocks(c)
        => frame[c].pc \in {"lock", "overdue", "open", "opening", "check", "commit", "committing"}
  BY DEF RpcLoop, TakeLock, OpenSkip, PostCall, CallAnswered, CallFails, OldAnswer,
         Unlocks, OpenEnds, CheckBatch, CommitEnds, At
<1>3. Sends(c) => \/ MarkPage(c) \/ PostPage(c) \/ PostFails(c)
                  \/ frame[c].pc \in {"send", "refused"}
  BY DEF Sends, SendFails, CountPage, At
<1>4. Writes(c) => \/ At(c, "write") /\ (PostWrite(c) \/ AllWritten(c))
                   \/ At(c, "writing") /\ (WriteDone(c) \/ WriteFails(c))
  BY DEF Writes, PostWrite, WriteDone, WriteFails, AllWritten
<1>5. Loads(c) => \/ At(c, "load") /\ (LoadOverdue(c) \/ PostRead(c))
                  \/ frame[c].pc \in {"read", "loaded"}
  BY DEF Loads, LoadOverdue, PostRead, PageRead, ReadFails, LoadDone, At
<1>6. (MarkPage(c) => At(c, "mark")) /\ (PostPage(c) \/ PostFails(c) => At(c, "post"))
  BY DEF MarkPage, PostPage, PostFails
<1>7. QED
  BY <1>1, <1>2, <1>3, <1>4, <1>5, <1>6, CpuCases DEF At

\* A CPU does nothing to the memory of a server, nor to the pages on their way there.
LEMMA CpuKeepsServers ==
    ASSUME AltTypes, Clean, CallsOK, FramesOK', NEW c \in Cpus, CpuStep(c), ~failed'
    PROVE  UNCHANGED <<queueVars, listVars, rmhVars, historyVars, flight>>
<1>1. flight' = flight
  BY CpuCtrlTypes
<1>2. CASE PollsDone(c)
  BY <1>1, <1>2 DEF PollsDone, serverVars
<1>3. CASE ~PollsDone(c)
  <2>1. Form(c)
    BY <1>3, NoOldAnswer, CpuForms
  <2>2. QED
    BY <1>1, <2>1, FormServers
<1>4. QED
  BY <1>2, <1>3

\* Until a send fails, a CPU takes nothing off a queue pair.
LEMMA CpuKeepsWork ==
    ASSUME AltTypes, Clean, NEW c \in Cpus, CpuStep(c), NEW q \in Qps
    PROVE  Elems(sendq[q]) \subseteq Elems(sendq'[q])
<1>0. FramesOK /\ KernelTypes /\ WireTypes /\ OwedOnce /\ EntriesOwned
  BY DEF AltTypes, Clean
<1>1. CASE PollsDone(c)
  BY <1>0, <1>1, PolledFields
<1>2. CASE ~PollsDone(c)
  <2>1. WireStep(c) /\ ~GivesUp(c)
    BY <1>0, <1>2, CpuWires, NoError DEF GivesUp
  <2>2. CASE WiresKept(c) \/ Leaves(c)
    BY <1>0, <2>2, LeavesNothing DEF WiresKept
  <2>3. CASE PostsWork(c)
    <3>1. PICK r \in Qps, op \in {"page", "read", "write", "call"}, what \in Page \cup Requests :
             /\ Posted(c, r, op, what)
             /\ [cpu |-> c, op |-> op, what |-> what] \in Work
      BY <2>3 DEF PostsWork
    <3> DEFINE w == [cpu |-> c, op |-> op, what |-> what]
    <3>2. sendq' = [sendq EXCEPT ![r] = Append(@, w)] /\ w \in Work
      BY <3>1 DEF Posted
    <3> HIDE DEF w
    <3>3. sendq[q] \in Seq(Work)
      BY <1>0 DEF WireTypes
    <3>4. sendq'[q] = sendq[q] \/ sendq'[q] = Append(sendq[q], w)
      BY <1>0, <3>2 DEF WireTypes
    <3>5. QED
      BY <3>2, <3>3, <3>4, ElemsOfAppend
  <2>4. QED
    BY <2>1, <2>2, <2>3 DEF WireStep
<1>3. QED
  BY <1>1, <1>2

\* CPU c is in a store of offset o; a store of it succeeded, and no other is under way.
Stores(c, o) == ~At(c, "idle") /\ frame[c].op = "store" /\ frame[c].page.off = o
Rests(o) == stored[o] # 0 /\ \A c \in Cpus : ~Stores(c, o)

\* The store of c ends, and its page was sent everywhere.
Comes(c, o) ==
    /\ Stores(c, o) /\ Written(o)' = frame[c].page
    /\ \/ At(c, "mark") /\ o \in readList
       \/ At(c, "send")
       \/ At(c, "write") /\ frame[c].todo = <<>>

LEMMA RestTurns ==
    ASSUME AltTypes, OneEach, PathsOK, NEW c \in Cpus, CpuStep(c), NEW o \in Offsets, Rests(o)'
    PROVE  (Rests(o) /\ stored'[o] = stored[o]) \/ Comes(c, o)
<1>0. FramesOK /\ PathOK(c) /\ stored \in [Offsets -> 0 .. MaxStores]
  BY DEF AltTypes, PathsOK, KernelTypes
<1>1. stored'[o] # 0 /\ \A d \in Cpus : ~Stores(d, o)'
  BY DEF Rests
<1>2. ASSUME stored'[o] = stored[o], \A d \in Cpus : Stores(d, o) => Stores(d, o)'
      PROVE  Rests(o) /\ stored'[o] = stored[o]
  BY <1>1, <1>2 DEF Rests
<1>3. CASE PollsDone(c)
  <2>1. stored' = stored
    BY <1>3 DEF PollsDone, kernelVars
  <2>2. \A d \in Cpus : Stores(d, o) => Stores(d, o)'
    BY <1>0, <1>3, PolledFields DEF Stores, At
  <2>3. QED
    BY <1>2, <2>1, <2>2
<1>4. CASE UNCHANGED kernelVars /\ frame' = frame
  BY <1>2, <1>4 DEF kernelVars, Stores, At
<1>5. CASE Within(c)
  <2>1. frame'[c].pc # "idle"
    BY <1>5 DEF Within, Onward, At, CommitPcs
  <2>2. \A d \in Cpus : Stores(d, o) => Stores(d, o)'
    BY <1>5, <2>1 DEF Within, OthersKept, SameArgs, Stores, At
  <2>3. QED
    BY <1>2, <1>5, <2>2 DEF Within, kernelVars
<1>6. CASE Over(c)
  <2>1. OthersKept(c) /\ ~At(c, "idle")
    BY <1>0, <1>6, ReturnFields DEF Over, StoreOver, LoadOver, At
  <2>2. frame[c].page \in Page /\ frame[c].page.off \in Offsets
    BY <1>0, <2>1, FrameFacts
  <2>3. \A d \in Cpus : d # c /\ Stores(d, o) => Stores(d, o)'
    BY <2>1 DEF OthersKept, Stores, At
  <2>4. CASE LoadOver(c)
    <3>1. frame[c].op = "load"
      BY <1>0, <2>4 DEF FramesOK, FrameOK, LoadOver
    <3>2. QED
      BY <1>2, <2>3, <2>4, <3>1 DEF LoadOver, kernelVars, Stores
  <2>5. CASE StoreOver(c) /\ frame[c].page.off # o
    <3>1. stored'[o] = stored[o]
      BY <1>0, <2>5 DEF StoreOver, Keeps
    <3>2. QED
      BY <1>2, <2>3, <2>5, <3>1 DEF Stores
  <2>6. CASE StoreOver(c) /\ frame[c].page.off = o
    <3>1. ~Keeps(c, 0)
      BY <1>0, <1>1, <2>6 DEF Keeps
    <3>2. /\ Keeps(c, frame[c].page.ver)
          /\ \/ At(c, "mark") /\ o \in readList
             \/ At(c, "send")
             \/ At(c, "write") /\ frame[c].todo = <<>>
      BY <2>6, <3>1 DEF StoreOver
    <3>3. stored'[o] = frame[c].page.ver
      BY <1>0, <2>6, <3>2 DEF Keeps
    <3>4. Written(o)' = frame[c].page
      BY <2>2, <2>6, <3>3 DEF Written, Page
    <3>5. frame[c].op = "store"
      BY <1>0, <3>2 DEF PathOK, StorePcs, At
    <3>6. QED
      BY <2>1, <2>6, <3>2, <3>4, <3>5 DEF Comes, Stores
  <2>7. QED
    BY <1>6, <2>4, <2>5, <2>6 DEF Over
<1>7. ASSUME NEW x \in Offsets, StoreStarts(c, x) \/ LoadStarts(c, x)
      PROVE  Rests(o) /\ stored'[o] = stored[o]
  <2>1. \A d \in Cpus : Stores(d, o) => Stores(d, o)'
    BY <1>7 DEF StoreStarts, LoadStarts, OthersKept, Stores, At
  <2>2. QED
    BY <1>2, <1>7, <2>1 DEF StoreStarts, LoadStarts, kernelVars
<1>8. ASSUME NEW x \in Offsets, Refused(x) PROVE Rests(o) /\ stored'[o] = stored[o]
  <2>1. o # x
    BY <1>0, <1>1, <1>8 DEF Refused
  <2>2. QED
    BY <1>0, <1>2, <1>8, <2>1 DEF Refused, Stores, At
<1>9. QED
  BY <1>0, <1>3, <1>4, <1>5, <1>6, <1>7, <1>8, CpuTurns, KernelTurns

----------------------------------------------------------------------------
(* cib: no page is multicast, and a store returns when every server has its page. *)

NoPages ==
    /\ sendq["mcast"] = <<>>
    /\ \A s \in Servers : flight[s] = <<>> /\ cq[s] = <<>> /\ flow[s] = None /\ commitList[s] = <<>>

Has(s, p) == mem[s][p.off] = p

\* The servers c has no more to do with have its page; the one it waits for has it,
\* or will.
WrittenTo(c) ==
    /\ frame[c].pc \in {"write", "writing"} =>
         \A s \in Elems(CtrlOrder) : s \in Elems(frame[c].todo) \/ Has(s, frame[c].page)
    /\ At(c, "writing") => \/ WorkOf(c) \in Elems(sendq[Head(frame[c].todo)])
                           \/ Has(Head(frame[c].todo), frame[c].page)

WritesKept ==
    /\ \A o \in Offsets : Rests(o) => \A s \in Elems(CtrlOrder) : Has(s, Written(o))
    /\ \A c \in Cpus : WrittenTo(c)

LEMMA CpuNoPages ==
    ASSUME AltTypes, Clean, CallsOK, FramesOK', loaded # "ib", PathsOK', NEW c \in Cpus, CpuStep(c),
           ~failed', NoPages
    PROVE  NoPages'
<1>1. UNCHANGED <<queueVars, listVars, flight>>
  BY CpuKeepsServers
<1>2. sendq'["mcast"] = sendq["mcast"]
  <2>1. CASE PollsDone(c)
    BY <2>1 DEF PollsDone
  <2>2. CASE ~PollsDone(c)
    <3>1. PathOK(c)' /\ loaded' # "ib"
      BY CpuKeepsNode DEF PathsOK
    <3>2. frame'[c].pc # "send"
      BY <3>1 DEF PathOK, NotOurs
    <3>3. QED
      BY <2>2, <3>2, McastKept DEF PostsNone, NothingSent
  <2>3. QED
    BY <2>1, <2>2
<1>3. QED
  BY <1>1, <1>2 DEF NoPages, queueVars, listVars

LEMMA WorkNoPages ==
    ASSUME AltTypes, Clean, Matched, NEW q \in Qps, Executes(q), ~failed', NoPages
    PROVE  NoPages'
<1>1. ~SendsPage(q)
  BY PageSent DEF NoPages
<1>2. NothingSent /\ flight' = flight /\ UNCHANGED <<queueVars, listVars>>
  BY <1>1, NoPageSent
<1>3. QED
  BY <1>2 DEF NoPages, NothingSent, queueVars, listVars

\* A commit with nothing to convey leaves the memory as it is.
LEMMA ConveysNothing ==
    ASSUME FarTypeOK, NEW s \in Servers, CommitConvey(s), ToConvey(s) = {}
    PROVE  mem'[s] = mem[s]
<1>1. mem \in [Servers -> [Offsets -> Content]]
  BY DEF FarTypeOK
<1>2. \A o \in Offsets : mem'[s][o] = mem[s][o] /\ mem'[s] = [x \in Offsets |-> mem'[s][x]]
  BY <1>1 DEF CommitConvey
<1>3. mem'[s] = [x \in Offsets |-> mem[s][x]]
  BY <1>1 DEF CommitConvey
<1>4. QED
  BY <1>1, <1>3

LEMMA ServersNoPages ==
    ASSUME AltTypes, NEW t \in Servers, Deliver(t) \/ ServerRuns(t), NoPages
    PROVE  NoPages' /\ mem' = mem
<1>0. FarTypeOK /\ QueueInv(t)
  BY DEF AltTypes, ServerInv
<1>1. ~Deliver(t) /\ ~FlowAdd(t) /\ ~FlowConvey(t)
  BY DEF NoPages, Deliver, FlowAdd, FlowConvey
<1>2. RdmaThread(t) /\ ServerRuns(t)
  BY <1>1 DEF ServerRuns, MulticastThread
<1>3. sendq' = sendq /\ flight' = flight
  BY <1>2 DEF ServerRuns, wireVars
<1>4. /\ cq' = cq /\ flow' = flow /\ commitList'[t] = <<>> /\ mem' = mem
      /\ \A s \in Servers : s # t => commitList'[s] = commitList[s]
  <2>0. commitList[t] = <<>> /\ commitList \in [Servers -> Seq(Bufs)]
    BY <1>0 DEF NoPages, FarTypeOK
  <2>1. CASE ServeOpen(t) \/ CommitEmpty(t) \/ CommitBegin(t)
    BY <2>0, <2>1 DEF ServeOpen, CommitEmpty, CommitBegin, queueVars, listVars, rmhVars
  <2>2. CASE CommitConvey(t)
    <3>1. ToConvey(t) = {}
      BY <2>0 DEF ToConvey, Conveyable
    <3>2. mem'[t] = mem[t]
      BY <1>0, <2>2, <3>1, ConveysNothing
    <3>3. mem \in [Servers -> [Offsets -> Content]] /\ \E m : mem' = [mem EXCEPT ![t] = m]
      BY <1>0, <2>2 DEF FarTypeOK, CommitConvey
    <3>4. mem' = mem
      BY <3>2, <3>3
    <3>5. QED
      BY <2>0, <2>2, <3>4 DEF CommitConvey, queueVars
  <2>3. CASE CommitPutback(t) \/ CommitReset(t)
    BY <2>0, <2>3 DEF CommitPutback, CommitReset, queueVars, rmhVars
  <2>4. QED
    BY <1>2, <2>1, <2>2, <2>3 DEF RdmaThread
<1>5. QED
  BY <1>3, <1>4 DEF NoPages

LEMMA WrittenKept ==
    ASSUME FramesOK, NEW d \in Cpus, WrittenTo(d), SameFields(d),
           \A s \in Servers : mem[s][frame[d].page.off] = frame[d].page
                                => mem'[s][frame[d].page.off] = frame[d].page,
           LET s == Head(frame[d].todo) IN
             At(d, "writing") /\ WorkOf(d) \in Elems(sendq[s]) =>
               WorkOf(d) \in Elems(sendq'[s]) \/ mem'[s][frame[d].page.off] = frame[d].page
    PROVE  WrittenTo(d)'
<1>1. WorkOf(d)' = WorkOf(d)
  BY SameWork DEF SameFields
<1>2. Elems(CtrlOrder) \subseteq Servers
  BY CtrlOrderAssumption, ElemsOfSeq
<1>3. At(d, "writing") => Head(frame[d].todo) \in Servers
  BY FrameFacts DEF At, FramesOK, FrameOK
<1>4. QED
  BY <1>1, <1>2, <1>3 DEF WrittenTo, SameFields, At, Has

LEMMA CpuWrites ==
    ASSUME AltTypes, Clean, Matched, CallsOK, FramesOK', OneEach, PathsOK, loaded # "ib",
           NEW c \in Cpus, CpuStep(c), ~failed', WritesKept
    PROVE  WritesKept'
<1>0. /\ FramesOK /\ KernelTypes /\ WireTypes /\ PathOK(c) /\ EntriesOwned /\ OwedOnce
      /\ mem' = mem
  BY CpuKeepsServers DEF AltTypes, PathsOK, Clean, rmhVars
<1>1. ASSUME NEW o \in Offsets, Rests(o)', NEW s \in Elems(CtrlOrder) PROVE Has(s, Written(o))'
  <2>1. CASE Rests(o) /\ stored'[o] = stored[o]
    BY <1>0, <1>1, <2>1 DEF WritesKept, Has, Written
  <2>2. CASE Comes(c, o)
    <3>1. At(c, "write") /\ frame[c].todo = <<>>
      BY <1>0, <2>2 DEF Comes, PathOK, NotOurs, At
    <3>2. Elems(<<>>) = {}
      BY DEF Elems
    <3>3. Has(s, frame[c].page)
      BY <1>1, <3>1, <3>2 DEF WritesKept, WrittenTo, At
    <3>4. QED
      BY <1>0, <2>2, <3>3 DEF Comes, Has
  <2>3. QED
    BY <1>1, <2>1, <2>2, RestTurns
<1>2. ASSUME NEW d \in Cpus, SameFields(d) PROVE WrittenTo(d)'
  <2>1. At(d, "writing") => Head(frame[d].todo) \in Qps
    BY <1>0, FrameFacts DEF At, FramesOK, FrameOK, Qps
  <2>2. QED
    BY <1>0, <1>2, <2>1, WrittenKept, CpuKeepsWork DEF WritesKept
<1>3. CASE PollsDone(c)
  BY <1>0, <1>1, <1>2, <1>3, PolledFields DEF WritesKept, SameFields
<1>4. CASE ~PollsDone(c)
  <2>1. OthersKept(c)
    BY <1>4, McastKept
  <2>2. CASE frame' = frame
    BY <1>1, <1>2, <2>2 DEF WritesKept, SameFields
  <2>3. CASE frame'[c].pc \notin {"write", "writing"}
    BY <1>1, <1>2, <2>1, <2>3 DEF WritesKept, SameFields, OthersKept, WrittenTo, At
  <2>4. CASE Within(c) /\ frame'[c].pc \in {"write", "writing"}
    <3>0. frame'[c].page = frame[c].page
      BY <2>4 DEF Within, SameArgs
    <3>1. ASSUME At(c, "check"), frame'[c].pc = "write", frame'[c].todo = CtrlOrder
          PROVE  WrittenTo(c)'
      BY <3>1 DEF WrittenTo, At
    <3>2. ASSUME At(c, "write"), frame'[c].pc = "writing", frame'[c].todo = frame[c].todo
          PROVE  WrittenTo(c)'
      <4> DEFINE s == Head(frame[c].todo)  w == [cpu |-> c, op |-> "write", what |-> frame[c].page]
      <4>1. PostWrite(c)
        <5>1. AllWritten(c) => frame'[c].pc = "idle"
          BY <1>0, ReturnFields DEF AllWritten, StoreResult
        <5>2. QED
          BY <1>4, <3>2, <5>1, StepsAt
      <4>2. s \in Servers /\ frame[c].page \in Page
        BY <1>0, <3>2, <4>1, FrameFacts DEF At, PostWrite
      <4>3. s \in Alive /\ Posted(c, s, "write", frame[c].page)
        <5>1. /\ frame' = [frame EXCEPT ![c].pc = IF s \in Alive THEN "writing" ELSE "hung",
                                          ![c].done = FALSE]
              /\ s \in Alive => Posted(c, s, "write", frame[c].page)
          BY <4>1 DEF PostWrite, PostRdma
        <5>2. s \in Alive
          BY <1>0, <3>2, <5>1 DEF FramesOK, Frame
        <5>3. QED
          BY <5>1, <5>2
      <4>4. WorkOf(c)' = w /\ w \in Work
        BY <3>0, <3>2, <4>2 DEF WorkOf, At, Work
      <4> HIDE DEF w
      <4>5. sendq[s] \in Seq(Work) /\ sendq'[s] = Append(sendq[s], w)
        BY <1>0, <4>2, <4>3 DEF WireTypes, Posted, Qps, w
      <4>6. w \in Elems(sendq'[s])
        BY <4>4, <4>5, ElemsOfAppend
      <4>7. QED
        BY <1>0, <3>0, <3>2, <4>4, <4>6 DEF WritesKept, WrittenTo, At, Has
    <3>3. ASSUME At(c, "writing"), frame'[c].pc = "write", frame'[c].todo = Tail(frame[c].todo)
          PROVE  WrittenTo(c)'
      <4> DEFINE s == Head(frame[c].todo)
      <4>1. frame[c].todo \in Seq(Servers) /\ frame[c].todo # <<>> /\ s \in Servers /\ s \in Qps
        BY <1>0, <3>3, FrameFacts DEF At, FramesOK, FrameOK, Qps
      <4>2. ~Polling(c)
        <5>1. ~WriteFails(c)
          BY NoError, <1>0 DEF WriteFails
        <5>2. WriteDone(c)
          BY <1>4, <3>3, <5>1, StepsAt
        <5>3. QED
          BY <5>2 DEF WriteDone, StopsPolling, Polling
      <4>3. WorkOf(c) \notin Elems(sendq[s])
        BY <1>0, <4>1, <4>2, OwnersPoll DEF WorkOf
      <4>4. Has(s, frame[c].page)
        BY <3>3, <4>3 DEF WritesKept, WrittenTo
      <4>5. Elems(frame[c].todo) = {s} \cup Elems(Tail(frame[c].todo))
        BY <4>1, HeadAndTail
      <4>6. QED
        BY <1>0, <3>0, <3>3, <4>4, <4>5 DEF WritesKept, WrittenTo, At, Has
    <3>4. WrittenTo(c)'
      BY <2>4, <3>1, <3>2, <3>3 DEF Within, Onward, At, CommitPcs
    <3>5. QED
      BY <1>1, <1>2, <2>1, <3>4 DEF WritesKept, SameFields, OthersKept
  <2>5. ASSUME NEW x \in Offsets, StoreStarts(c, x) \/ LoadStarts(c, x) \/ Refused(x)
        PROVE  frame' = frame \/ frame'[c].pc \notin {"write", "writing"}
    BY <2>5 DEF StoreStarts, LoadStarts, Refused
  <2>6. Over(c) => frame'[c].pc \notin {"write", "writing"}
    BY <1>0, ReturnFields DEF Over
  <2>7. QED
    BY <1>0, <1>4, <2>2, <2>3, <2>4, <2>5, <2>6, CpuTurns, KernelTurns
<1>5. QED
  BY <1>3, <1>4

LEMMA WorkWrites ==
    ASSUME AltTypes, Clean, Matched, OneEach, PathsOK, loaded # "ib", NEW q \in Qps, Executes(q),
           ~failed', WritesKept
    PROVE  WritesKept'
<1>0. /\ FramesOK /\ WireTypes /\ FarTypeOK /\ stored' = stored
      /\ \A d \in Cpus : SameFields(d) /\ frame'[d].op = frame[d].op
  BY WorkStays DEF AltTypes, ServerInv, SameButGot, SameFields, kernelVars
<1>1. \A o \in Offsets : (Rests(o)' <=> Rests(o)) /\ Written(o)' = Written(o)
  BY <1>0 DEF Rests, Stores, SameFields, At, Written
<1>2. PICK op : Completes(q, op, TRUE)
  BY DEF Executes, SendsPage, WorkFails, SendsCall, ReadsPage, WritesPage, Completes
<1> DEFINE w == Head(sendq[q])
<1>3. /\ Completed(q, TRUE) /\ w \in Elems(sendq[q]) /\ w.cpu \in Cpus /\ w = WorkOf(w.cpu)
      /\ Polling(w.cpu) /\ QpOf(w.cpu) = q
  <2>1. TRUE \in BOOLEAN
    OBVIOUS
  <2>2. QED
    BY <1>0, <1>2, <2>1, WorkCompletes, HeadOfWork
<1>4. /\ Elems(sendq[q]) = {w} \cup Elems(sendq'[q])
      /\ \A r \in Qps : r # q => sendq'[r] = sendq[r]
  BY <1>0, <1>3, HeadAndTail DEF Completed, WireTypes
<1> HIDE DEF w
<1>5. ASSUME NEW d \in Cpus, At(d, "writing"), WorkOf(d) # w,
             WorkOf(d) \in Elems(sendq[Head(frame[d].todo)])
      PROVE  WorkOf(d) \in Elems(sendq'[Head(frame[d].todo)])
  <2>1. Head(frame[d].todo) \in Qps
    BY <1>0, <1>5, FrameFacts DEF At, FramesOK, FrameOK, Qps
  <2>2. QED
    BY <1>4, <1>5, <2>1
<1>6. CASE q \in Servers /\ WritesPage(q)
  <2> DEFINE e == w.cpu  p == w.what
  <2>1. w.op = "write" /\ mem' = [mem EXCEPT ![q][p.off] = p]
    BY <1>6 DEF WritesPage, Completes, w
  <2>2. At(e, "writing") /\ p = frame[e].page
    <3>1. WorkOf(e).op = "write" /\ p = WorkOf(e).what
      BY <1>3, <2>1
    <3>2. At(e, "writing")
      BY <3>1 DEF WorkOf
    <3>3. QED
      BY <3>1, <3>2 DEF WorkOf, At
  <2>3. Head(frame[e].todo) = q /\ Stores(e, p.off) /\ p.off \in Offsets /\ ~At(e, "idle")
    <3>1. Head(frame[e].todo) = q /\ p.off \in Offsets
      BY <1>0, <1>3, <2>2, FrameFacts DEF QpOf, At
    <3>2. frame[e].op = "store"
      BY <1>3, <2>2 DEF PathsOK, PathOK, StorePcs, At
    <3>3. QED
      BY <2>2, <3>1, <3>2 DEF Stores, At
  <2>4. \A s \in Servers, o \in Offsets :
           mem'[s][o] = mem[s][o] \/ (s = q /\ o = p.off /\ mem'[s][o] = p)
    BY <1>0, <2>1 DEF FarTypeOK
  <2>5. mem'[q][p.off] = p
    BY <1>0, <1>6, <2>1, <2>3 DEF FarTypeOK
  <2> HIDE DEF p
  <2>6. ASSUME NEW d \in Cpus PROVE WrittenTo(d)'
    <3>1. CASE d = e
      <4>1. \A s \in Servers : mem[s][frame[d].page.off] = frame[d].page
                                 => mem'[s][frame[d].page.off] = frame[d].page
        BY <2>2, <2>3, <2>4, <3>1
      <4>2. WrittenTo(d)
        BY DEF WritesKept
      <4>3. QED
        BY <1>0, <2>2, <2>3, <2>5, <3>1, <4>1, <4>2, WrittenKept
    <3>2. CASE d # e /\ frame[d].pc \in {"write", "writing"}
      <4>1. frame[d].page.off \in Offsets /\ frame[d].page.off # p.off
        BY <1>0, <1>3, <2>2, <2>3, <3>2, FrameFacts DEF OneEach, At
      <4>2. \A s \in Servers : mem'[s][frame[d].page.off] = mem[s][frame[d].page.off]
        BY <2>4, <4>1
      <4>3. WorkOf(d) # w
        BY <1>3, <3>2 DEF WorkOf
      <4>4. WrittenTo(d)
        BY DEF WritesKept
      <4>5. QED
        BY <1>0, <1>5, <4>2, <4>3, <4>4, WrittenKept
    <3>3. CASE frame[d].pc \notin {"write", "writing"}
      BY <1>0, <3>3 DEF WrittenTo, SameFields, At
    <3>4. QED
      BY <3>1, <3>2, <3>3
  <2>7. ASSUME NEW o \in Offsets, Rests(o), NEW s \in Elems(CtrlOrder) PROVE Has(s, Written(o))'
    <3>1. o # p.off
      BY <1>3, <2>3, <2>7 DEF Rests
    <3>2. s \in Servers
      BY <2>7, CtrlOrderAssumption, ElemsOfSeq
    <3>3. mem'[s][o] = mem[s][o]
      BY <2>4, <3>1, <3>2
    <3>4. Has(s, Written(o)) /\ Written(o).off = o
      BY <2>7 DEF WritesKept, Written
    <3>5. QED
      BY <1>1, <3>3, <3>4 DEF Has
  <2>8. QED
    BY <1>1, <2>6, <2>7 DEF WritesKept
<1>7. CASE ~(q \in Servers /\ WritesPage(q))
  <2>1. mem' = mem /\ w.op # "write"
    <3>1. ~WorkFails(q)
      BY <1>3 DEF WorkFails, Completes
    <3>2. CASE SendsPage(q)
      BY <3>2 DEF SendsPage, Completes, serverVars, rmhVars, w
    <3>3. CASE SendsCall(q)
      BY <3>3 DEF SendsCall, Completes, Call, rmhVars, w
    <3>4. CASE ReadsPage(q)
      BY <3>4 DEF ReadsPage, Completes, serverVars, rmhVars, w
    <3>5. QED
      BY <1>7, <3>1, <3>2, <3>3, <3>4 DEF Executes
  <2>2. \A d \in Cpus : At(d, "writing") => WorkOf(d) # w
    BY <2>1 DEF WorkOf, At
  <2>3. \A d \in Cpus : WrittenTo(d)'
    BY <1>0, <1>5, <2>1, <2>2, WrittenKept DEF WritesKept
  <2>4. \A o \in Offsets : Rests(o) => \A s \in Elems(CtrlOrder) : Has(s, Written(o))'
    BY <1>1, <2>1 DEF WritesKept, Has
  <2>5. QED
    BY <1>1, <2>3, <2>4 DEF WritesKept
<1>8. QED
  BY <1>6, <1>7

LEMMA SameWrites ==
    ASSUME UNCHANGED <<frame, sendq, stored, mem>>, WritesKept
    PROVE  WritesKept'
<1>1. \A d \in Cpus : WorkOf(d)' = WorkOf(d)
  BY SameWork
<1>2. \A d \in Cpus : WrittenTo(d)'
  BY <1>1 DEF WritesKept, WrittenTo, At, Has
<1>3. QED
  BY <1>2 DEF WritesKept, Rests, Stores, Written, Has, At

\* Until a send fails, cib keeps what rests with it on every server.
CibInv == loaded # "ib" /\ ~failed => NoPages /\ WritesKept

LEMMA CibInvInit == AltInit => CibInv
<1> SUFFICES ASSUME AltInit PROVE NoPages /\ WritesKept
  BY DEF CibInv
<1>1. NoPages
  BY DEF AltInit, FarInit, NoPages, Qps
<1>2. \A c \in Cpus : frame[c].pc = "idle"
  BY DEF AltInit, IdleFrame
<1>3. \A o \in Offsets : ~Rests(o)
  BY DEF AltInit, Rests
<1>4. QED
  BY <1>1, <1>2, <1>3 DEF WritesKept, WrittenTo, At

LEMMA CibInvStep ==
    ASSUME AgreeInv, AgreeInv', OneEach, CallInv, CallInv', CibInv, [AltNext]_altVars
    PROVE  CibInv'
<1>0. AltTypes /\ FramesOK' /\ PathsOK /\ PathsOK'
  BY DEF AgreeInv, CleanInv, AltTypes, CallInv
<1> SUFFICES ASSUME loaded' # "ib", ~failed' PROVE (NoPages /\ WritesKept)'
  BY DEF CibInv
<1>1. ASSUME NEW c \in Cpus, CpuStep(c) PROVE (NoPages /\ WritesKept)'
  <2>1. loaded # "ib" /\ ~failed
    BY <1>1, CpuKeepsNode
  <2>2. Clean /\ Matched /\ CallsOK /\ NoPages /\ WritesKept
    BY <2>1 DEF AgreeInv, CleanInv, Agreed, CibInv
  <2>3. QED
    BY <1>0, <1>1, <2>1, <2>2, CpuNoPages, CpuWrites
<1>2. ASSUME NEW q \in Qps, Executes(q) PROVE (NoPages /\ WritesKept)'
  <2>1. loaded # "ib" /\ ~failed
    BY <1>0, <1>2, WorkStays
  <2>2. Clean /\ Matched /\ NoPages /\ WritesKept
    BY <2>1 DEF AgreeInv, CleanInv, Agreed, CibInv
  <2>3. QED
    BY <1>0, <1>2, <2>1, <2>2, WorkNoPages, WorkWrites
<1>3. ASSUME NEW t \in Servers, Deliver(t) \/ ServerRuns(t) PROVE (NoPages /\ WritesKept)'
  <2>1. UNCHANGED <<frame, sendq, loaded, failed, stored>>
    BY <1>3 DEF Deliver, ServerRuns, wireVars, kernelVars, historyOfCalls
  <2>2. NoPages /\ WritesKept
    BY <2>1 DEF CibInv
  <2>3. QED
    BY <1>0, <1>3, <2>1, <2>2, ServersNoPages, SameWrites
<1>4. CASE UNCHANGED altVars
  <2>1. UNCHANGED <<frame, sendq, loaded, failed, stored, flight, mem, cq, flow, commitList>>
    BY <1>4 DEF altVars, wireVars, kernelVars, historyOfCalls, serverVars, queueVars, listVars,
                rmhVars
  <2>2. NoPages /\ WritesKept
    BY <2>1 DEF CibInv
  <2>3. QED
    BY <2>1, <2>2, SameWrites DEF NoPages
<1>5. QED
  BY <1>1, <1>2, <1>3, <1>4 DEF AltNext

----------------------------------------------------------------------------
(* ib: the newest page of an offset on its way to a server, or there.        *)

WhatOf == [w \in Work |-> w.what]
PageOf == [p \in Page |-> p]
HeldAt(s) == [w \in Completion |-> data[s][w.buf]]

\* p is the newest page of its offset at server s, counting the page its multicast
\* thread works on, those that have arrived, those in flight, and those not sent yet.
AtFlow(s, p) ==
    IF flow[s] # None /\ flow[s].off = p.off THEN data[s][flow[s].buf] = p ELSE Has(s, p)
Arriving(s, p) == Latest(cq[s], HeldAt(s), p.off, p, AtFlow(s, p))
InFlight(s, p) == Latest(flight[s], PageOf, p.off, p, Arriving(s, p))
Newest(s, p) == Latest(sendq["mcast"], WhatOf, p.off, p, InFlight(s, p))

\* All that is on its way to s is listed.
Listing(s) ==
    /\ \A w \in Elems(sendq["mcast"]) : w.what.off \in checkList
    /\ \A p \in Elems(flight[s]) : p.off \in checkList
    /\ \A w \in Elems(cq[s]) : w.off \in checkList
    /\ flow[s] # None => flow[s].off \in checkList

LEMMA LatestIsBool ==
    ASSUME NEW s, NEW p
    PROVE  /\ AtFlow(s, p) \in BOOLEAN /\ Arriving(s, p) \in BOOLEAN
           /\ InFlight(s, p) \in BOOLEAN /\ Newest(s, p) \in BOOLEAN
BY DEF AtFlow, Arriving, InFlight, Newest, Latest, LastOf, NoneOf, Has

\* Only whether the rest holds matters.
LEMMA LatestRest ==
    ASSUME NEW q, NEW f, NEW o, NEW p, NEW r \in BOOLEAN, NEW t \in BOOLEAN, r <=> t
    PROVE  Latest(q, f, o, p, r) <=> Latest(q, f, o, p, t)
BY DEF Latest

LEMMA ListingKept ==
    ASSUME NEW s, Listing(s), checkList \subseteq checkList',
           \A w \in Elems(sendq'["mcast"]) :
               w \in Elems(sendq["mcast"]) \/ w.what.off \in checkList',
           \A p \in Elems(flight'[s]) : p \in Elems(flight[s]) \/ p.off \in checkList',
           \A w \in Elems(cq'[s]) : w \in Elems(cq[s]) \/ w.off \in checkList',
           flow'[s] # None => flow'[s] = flow[s] \/ flow'[s].off \in checkList'
    PROVE  Listing(s)'
BY DEF Listing

\* Nothing moves.
LEMMA SameNewest ==
    ASSUME NEW s, NEW p, NothingSent, flight'[s] = flight[s], cq'[s] = cq[s],
           data'[s] = data[s], flow'[s] = flow[s], mem'[s] = mem[s]
    PROVE  Newest(s, p)' <=> Newest(s, p)
<1>1. AtFlow(s, p)' = AtFlow(s, p)
  BY DEF AtFlow, Has
<1>2. HeldAt(s)' = HeldAt(s)
  BY DEF HeldAt
<1>3. Arriving(s, p)' = Arriving(s, p)
  BY <1>1, <1>2 DEF Arriving, Latest, LastOf, NoneOf
<1>4. InFlight(s, p)' = InFlight(s, p)
  BY <1>3 DEF InFlight, Latest, LastOf, NoneOf
<1>5. QED
  BY <1>4 DEF Newest, Latest, LastOf, NoneOf, NothingSent

\* A store posts its page.
LEMMA PostedNewest ==
    ASSUME NEW s, sendq["mcast"] \in Seq(Work), NEW w \in Work,
           sendq'["mcast"] = Append(sendq["mcast"], w), NEW p \in Page,
           UNCHANGED <<flight, cq, data, flow, mem>>
    PROVE  Newest(s, p)' <=> IF w.what.off = p.off THEN w.what = p ELSE Newest(s, p)
<1>1. InFlight(s, p)' = InFlight(s, p)
  <2>1. AtFlow(s, p)' = AtFlow(s, p) /\ HeldAt(s)' = HeldAt(s)
    BY DEF AtFlow, Has, HeldAt
  <2>2. Arriving(s, p)' = Arriving(s, p)
    BY <2>1 DEF Arriving, Latest, LastOf, NoneOf
  <2>3. QED
    BY <2>2 DEF InFlight, Latest, LastOf, NoneOf
<1>2. WhatOf[w] = w.what
  BY DEF WhatOf
<1>3. Latest(Append(sendq["mcast"], w), WhatOf, p.off, p, InFlight(s, p))
        <=> IF WhatOf[w].off = p.off THEN WhatOf[w] = p
            ELSE Latest(sendq["mcast"], WhatOf, p.off, p, InFlight(s, p))
  <2>1. InFlight(s, p) \in BOOLEAN
    BY LatestIsBool
  <2> DEFINE r == InFlight(s, p)  q == sendq["mcast"]  f == WhatOf
  <2> HIDE DEF r, f
  <2>2. r \in BOOLEAN /\ q \in Seq(Work)
    BY <2>1 DEF r
  <2> HIDE DEF q
  <2>3. Latest(Append(q, w), f, p.off, p, r)
          <=> IF f[w].off = p.off THEN f[w] = p ELSE Latest(q, f, p.off, p, r)
    BY <2>2, LatestAppend
  <2>4. QED
    BY <2>3 DEF r, q, f
<1>4. QED
  BY <1>1, <1>2, <1>3 DEF Newest, WhatOf

\* The queue pair sends it to every server of the group.
LEMMA SentNewest ==
    ASSUME AltTypes, Clean, Matched, NEW q \in Qps, SendsPage(q), NEW s \in Alive, NEW p \in Page
    PROVE  Newest(s, p)' <=> Newest(s, p)
<1> DEFINE w == Head(sendq["mcast"])  x == w.what  m == sendq["mcast"]  o == p.off
<1>0. WireTypes /\ s \in Servers
  BY AliveStays DEF AltTypes
<1>1. /\ w \in Elems(m) /\ x \in Page /\ m \in Seq(Work) /\ m # <<>>
      /\ sendq'["mcast"] = Tail(m) /\ flight'[s] = Append(flight[s], x)
  BY PageSent
<1>2. UNCHANGED <<cq, data, flow, mem>>
  BY DEF SendsPage, serverVars, queueVars, listVars, rmhVars
<1>3. Arriving(s, p)' = Arriving(s, p)
  <2>1. AtFlow(s, p)' = AtFlow(s, p) /\ HeldAt(s)' = HeldAt(s)
    BY <1>2 DEF AtFlow, Has, HeldAt
  <2>2. QED
    BY <1>2, <2>1 DEF Arriving, Latest, LastOf, NoneOf
<1> DEFINE r == InFlight(s, p)  a == Arriving(s, p)  f == WhatOf  g == PageOf
           t == IF x.off = o THEN x = p ELSE r
<1>4. r \in BOOLEAN /\ a \in BOOLEAN /\ r' \in BOOLEAN /\ t \in BOOLEAN /\ flight[s] \in Seq(Page)
  <2>1. r \in BOOLEAN /\ a \in BOOLEAN
    BY LatestIsBool
  <2>2. r' \in BOOLEAN
    BY DEF InFlight, Latest
  <2>3. t \in BOOLEAN
    BY <2>1
  <2>4. QED
    BY <1>0, <2>1, <2>2, <2>3 DEF WireTypes
<1>5. f[w] = x /\ g[x] = x
  BY <1>1, HeadAndTail DEF WhatOf, PageOf
<1>6. Newest(s, p) <=> Latest(m, f, o, p, r)
  BY DEF Newest
<1>7. Newest(s, p)' <=> Latest(Tail(m), f, o, p, r')
  BY <1>1 DEF Newest, WhatOf
<1>8. r' <=> Latest(Append(flight[s], x), g, o, p, a)
  BY <1>1, <1>3 DEF InFlight, PageOf
<1>9. r <=> Latest(flight[s], g, o, p, a)
  BY DEF InFlight
<1> HIDE DEF r, a, f, g
<1>10. r' <=> t
  <2>1. Latest(Append(flight[s], x), g, o, p, a)
          <=> IF g[x].off = o THEN g[x] = p ELSE Latest(flight[s], g, o, p, a)
    BY <1>1, <1>4, LatestAppend
  <2>2. QED
    BY <1>5, <1>8, <1>9, <2>1
<1>11. Latest(m, f, o, p, r) <=> Latest(Tail(m), f, o, p, t)
  <2>1. Latest(m, f, o, p, r)
          <=> Latest(Tail(m), f, o, p, IF f[w].off = o THEN f[w] = p ELSE r)
    BY <1>1, <1>4, LatestTail
  <2>2. QED
    BY <1>5, <2>1
<1> HIDE DEF t
<1>12. Latest(Tail(m), f, o, p, r') <=> Latest(Tail(m), f, o, p, t)
  BY <1>4, <1>10, LatestRest
<1>13. QED
  BY <1>6, <1>7, <1>11, <1>12

\* The page arrives in a buffer nothing else is in.
LEMMA DeliveredNewest ==
    ASSUME AltTypes, NEW s \in Servers, Deliver(s), ~clash[s], NEW p \in Page
    PROVE  Newest(s, p)' <=> Newest(s, p)
<1> DEFINE x == Head(flight[s])  o == p.off
<1>0. FarTypeOK /\ QueueInv(s) /\ InOneQueue(s) /\ NothingSent /\ WireTypes
  BY ServerSteps DEF AltTypes, ServerInv, QueueInv
<1>1. /\ x \in Page /\ flight[s] \in Seq(Page) /\ flight[s] # <<>>
      /\ flight'[s] = Tail(flight[s]) /\ Receive(s, x)
  BY <1>0, DeliversHead DEF WireTypes
<1>2. PICK b \in Bufs : /\ b \in Elems(posted[s])
                        /\ cq'[s] = Append(cq[s], [buf |-> b, off |-> x.off])
                        /\ [buf |-> b, off |-> x.off] \in Completion
                        /\ data'[s] = [data[s] EXCEPT ![b] = x]
                        /\ flow' = flow /\ mem' = mem
  BY <1>0, <1>1, ReceiveDoes
<1> DEFINE w == [buf |-> b, off |-> x.off]
<1>3. w \in Completion /\ w.buf = b /\ cq'[s] = Append(cq[s], w) /\ cq[s] \in Seq(Completion)
  BY <1>0, <1>2 DEF FarTypeOK
<1> HIDE DEF w
<1>4. /\ \A i \in DOMAIN cq[s] : cq[s][i] \in Completion /\ cq[s][i].buf # b
      /\ flow[s] # None => flow[s].buf # b
  <2>1. \A v \in Elems(cq[s]) : v.buf \in Elems(Arrived(s))
    BY <1>3, BufsOfSeq DEF Arrived
  <2>2. \A i \in DOMAIN cq[s] : cq[s][i] \in Completion /\ cq[s][i] \in Elems(cq[s])
    BY <1>3, ElemsOfSeq
  <2>3. flow[s] # None => flow[s].buf \in Elems(commitList[s])
    BY <1>0 DEF QueueInv, FlowListed
  <2>4. QED
    BY <1>0, <1>2, <2>1, <2>2, <2>3 DEF InOneQueue
<1>5. data[s] \in [Bufs -> Content] /\ data'[s] \in [Bufs -> Content]
  BY <1>0, <1>1, ReceiveTypes DEF FarTypeOK
<1> DEFINE a == Arriving(s, p)  h == HeldAt(s)  k == h'  t == AtFlow(s, p)  g == PageOf
           r == IF x.off = o THEN x = p ELSE a
<1>6. t' = t
  BY <1>0, <1>2, <1>4, <1>5 DEF AtFlow, Has, FarTypeOK, Completion
<1>7. /\ k[w] = x /\ \A i \in DOMAIN cq[s] : h[cq[s][i]] = k[cq[s][i]]
  <2>1. \A v \in Completion : h[v] = data[s][v.buf] /\ k[v] = data'[s][v.buf] /\ v.buf \in Bufs
    BY DEF HeldAt, Completion
  <2>2. QED
    BY <1>2, <1>3, <1>4, <1>5, <2>1
<1>8. a \in BOOLEAN /\ a' \in BOOLEAN /\ t \in BOOLEAN /\ r \in BOOLEAN /\ g[x] = x
  <2>1. a \in BOOLEAN /\ t \in BOOLEAN
    BY LatestIsBool
  <2>2. a' \in BOOLEAN
    BY DEF Arriving, Latest
  <2>3. g[x] = x
    BY <1>1 DEF PageOf
  <2>4. QED
    BY <2>1, <2>2, <2>3
<1>9. a <=> Latest(cq[s], h, o, p, t)
  BY DEF Arriving
<1>10. a' <=> Latest(Append(cq[s], w), k, o, p, t)
  BY <1>3, <1>6 DEF Arriving
<1>11. InFlight(s, p) <=> Latest(flight[s], g, o, p, a)
  BY DEF InFlight
<1>12. InFlight(s, p)' <=> Latest(Tail(flight[s]), g, o, p, a')
  BY <1>1 DEF InFlight, PageOf
<1> HIDE DEF a, h, k, t, g
<1>13. a' <=> r
  <2>1. Latest(Append(cq[s], w), k, o, p, t)
          <=> IF k[w].off = o THEN k[w] = p ELSE Latest(cq[s], k, o, p, t)
    <3> DEFINE q == cq[s]
    <3>1. q \in Seq(Completion) /\ w \in Completion /\ t \in BOOLEAN /\ p.off = o
      BY <1>3, <1>8
    <3> HIDE DEF q, o, x
    <3>2. \A f : Latest(Append(q, w), f, o, p, t)
                  <=> IF f[w].off = o THEN f[w] = p ELSE Latest(q, f, o, p, t)
      <4> TAKE f
      <4>1. QED
        BY <3>1, LatestAppend
    <3>3. Latest(Append(q, w), k, o, p, t)
            <=> IF k[w].off = o THEN k[w] = p ELSE Latest(q, k, o, p, t)
      BY <3>2
    <3>4. QED
      BY <3>3 DEF q
  <2>2. Latest(cq[s], h, o, p, t) <=> Latest(cq[s], k, o, p, t)
    BY <1>7, LatestSame
  <2>3. QED
    BY <1>7, <1>9, <1>10, <2>1, <2>2
<1>14. Latest(flight[s], g, o, p, a) <=> Latest(Tail(flight[s]), g, o, p, r)
  <2>1. Latest(flight[s], g, o, p, a)
          <=> Latest(Tail(flight[s]), g, o, p, IF g[x].off = o THEN g[x] = p ELSE a)
    <3> DEFINE q == flight[s]
    <3>1. q \in Seq(Page) /\ q # <<>> /\ a \in BOOLEAN /\ p.off = o
      BY <1>1, <1>8
    <3> HIDE DEF q, o
    <3>2. Latest(q, g, o, p, a)
            <=> Latest(Tail(q), g, o, p, IF g[Head(q)].off = o THEN g[Head(q)] = p ELSE a)
      BY <3>1, LatestTail
    <3>3. QED
      BY <3>2 DEF q
  <2>2. QED
    BY <1>8, <2>1
<1> HIDE DEF r
<1>15. Latest(Tail(flight[s]), g, o, p, a') <=> Latest(Tail(flight[s]), g, o, p, r)
  BY <1>8, <1>13, LatestRest
<1>16. InFlight(s, p)' <=> InFlight(s, p)
  BY <1>11, <1>12, <1>14, <1>15
<1>17. InFlight(s, p)' \in BOOLEAN /\ InFlight(s, p) \in BOOLEAN
  BY DEF InFlight, Latest
<1>18. Latest(sendq["mcast"], WhatOf, o, p, InFlight(s, p)')
         <=> Latest(sendq["mcast"], WhatOf, o, p, InFlight(s, p))
  BY <1>16, <1>17, LatestRest
<1>19. QED
  BY <1>0, <1>18 DEF Newest, NothingSent, WhatOf

\* What lies before the completions is as it was.
LEMMA NewestByArriving ==
    ASSUME NEW s, NEW p, NothingSent, flight'[s] = flight[s], Arriving(s, p)' <=> Arriving(s, p)
    PROVE  Newest(s, p)' <=> Newest(s, p)
<1>1. Arriving(s, p)' \in BOOLEAN /\ Arriving(s, p) \in BOOLEAN
  BY DEF Arriving, Latest
<1>2. Latest(flight[s], PageOf, p.off, p, Arriving(s, p)')
        <=> Latest(flight[s], PageOf, p.off, p, Arriving(s, p))
  BY <1>1, LatestRest
<1>3. InFlight(s, p)' <=> InFlight(s, p)
  BY <1>2 DEF InFlight, PageOf
<1>4. InFlight(s, p)' \in BOOLEAN /\ InFlight(s, p) \in BOOLEAN
  BY DEF InFlight, Latest
<1>5. Latest(sendq["mcast"], WhatOf, p.off, p, InFlight(s, p)')
        <=> Latest(sendq["mcast"], WhatOf, p.off, p, InFlight(s, p))
  BY <1>3, <1>4, LatestRest
<1>6. QED
  BY <1>5 DEF Newest, NothingSent, WhatOf

\* The multicast thread takes the completion ...
LEMMA TakenNewest ==
    ASSUME AltTypes, NEW s \in Servers, FlowAdd(s), NothingSent, flight'[s] = flight[s], NEW p \in Page
    PROVE  Newest(s, p)' <=> Newest(s, p)
<1> DEFINE w == Head(cq[s])  o == p.off
<1>0. FarTypeOK /\ InOneQueue(s) /\ BuffersHoldPages(s)
  BY DEF AltTypes, ServerInv, QueueInv
<1>1. /\ w \in Completion /\ w \in Elems(cq[s]) /\ cq[s] \in Seq(Completion) /\ cq[s] # <<>>
      /\ cq'[s] = Tail(cq[s]) /\ flow[s] = None /\ flow'[s] = w /\ w # None
      /\ data' = data /\ mem' = mem
  BY <1>0, FlowAddDoes
<1>2. data[s][w.buf].off = w.off
  BY <1>0, <1>1 DEF BuffersHoldPages
<1> DEFINE h == HeldAt(s)  t == AtFlow(s, p)
<1>3. h[w] = data[s][w.buf]
  BY <1>1 DEF HeldAt
<1> HIDE DEF w
<1>4. t <=> Has(s, p)
  BY <1>1 DEF AtFlow
<1>5. t' <=> IF h[w].off = o THEN h[w] = p ELSE Has(s, p)
  <2>1. t' <=> IF w.off = o THEN data[s][w.buf] = p ELSE Has(s, p)
    BY <1>1 DEF AtFlow, Has
  <2>2. QED
    BY <1>2, <1>3, <2>1
<1>6. Arriving(s, p) <=> Latest(cq[s], h, o, p, t)
  BY DEF Arriving
<1>7. Arriving(s, p)' <=> Latest(Tail(cq[s]), h, o, p, t')
  BY <1>1 DEF Arriving, HeldAt
<1>8. t \in BOOLEAN /\ t' \in BOOLEAN
  BY DEF AtFlow, Has
<1> HIDE DEF h, t
<1>9. Latest(cq[s], h, o, p, t)
        <=> Latest(Tail(cq[s]), h, o, p, IF h[w].off = o THEN h[w] = p ELSE t)
  BY <1>1, <1>8, LatestTail DEF w
<1> DEFINE r == IF h[w].off = o THEN h[w] = p ELSE t
<1>10. r \in BOOLEAN /\ (r <=> t')
  BY <1>4, <1>5, <1>8
<1>11. Latest(cq[s], h, o, p, t) <=> Latest(Tail(cq[s]), h, o, p, r)
  BY <1>9
<1> HIDE DEF r
<1>12. Latest(Tail(cq[s]), h, o, p, r) <=> Latest(Tail(cq[s]), h, o, p, t')
  BY <1>8, <1>10, LatestRest
<1>13. Arriving(s, p)' <=> Arriving(s, p)
  BY <1>6, <1>7, <1>11, <1>12
<1>14. QED
  BY <1>13, NewestByArriving

\* ... and copies the page to its block.
LEMMA ConveyedNewest ==
    ASSUME AltTypes, NEW s \in Servers, FlowConvey(s), AtHome(s), Undisturbed(s), NothingSent,
           flight'[s] = flight[s], NEW p \in Page
    PROVE  Newest(s, p)' <=> Newest(s, p)
<1>0. FarTypeOK
  BY DEF AltTypes, ServerInv
<1>1. flow[s] # None /\ ~convey[s][flow[s].buf] /\ CanConvey(s, flow[s].off)
  BY DEF FlowConvey, Undisturbed, AtHome, HasBlock, CanConvey
<1>2. /\ flow'[s] = None /\ cq' = cq /\ data' = data /\ flow[s].off \in Offsets
      /\ mem'[s] = [mem[s] EXCEPT ![flow[s].off] = data[s][flow[s].buf]]
  BY <1>0, <1>1, FlowConveyDoes
<1>3. mem[s] \in [Offsets -> Content]
  BY <1>0 DEF FarTypeOK
<1>4. Has(s, p)' <=> IF flow[s].off = p.off THEN data[s][flow[s].buf] = p ELSE Has(s, p)
  BY <1>2, <1>3 DEF Has, Page
<1>5. AtFlow(s, p)' <=> AtFlow(s, p)
  BY <1>1, <1>2, <1>4 DEF AtFlow
<1>6. AtFlow(s, p)' \in BOOLEAN /\ AtFlow(s, p) \in BOOLEAN
  BY DEF AtFlow, Has
<1>7. Latest(cq[s], HeldAt(s), p.off, p, AtFlow(s, p)')
        <=> Latest(cq[s], HeldAt(s), p.off, p, AtFlow(s, p))
  BY <1>5, <1>6, LatestRest
<1>8. Arriving(s, p)' <=> Arriving(s, p)
  BY <1>2, <1>7 DEF Arriving, HeldAt
<1>9. QED
  BY <1>8, NewestByArriving

----------------------------------------------------------------------------
(* ib: what rests with the backend is the newest page on its way.            *)

\* The page of a store that succeeded, or of one that sent it and is not told yet.
Final(p) ==
    \/ Rests(p.off) /\ p = Written(p.off)
    \/ \E c \in Cpus : At(c, "send") /\ frame[c].page = p

\* What the driver answers for, as Answerable has it.
Vouches == ~failed /\ (loaded = "ib" => ~blurred /\ \A s \in Servers : ~early[s])

Unlisted == \A c \in Cpus : At(c, "read") => frame[c].page.off \notin checkList

\* A page that is about to be sent is listed.
Marked == \A c \in Cpus : At(c, "post") => frame[c].page.off \in checkList

PagesKept ==
    /\ Unlisted /\ Marked
    /\ \A s \in Alive : Listing(s)
    /\ \A s \in Alive : \A p \in Page : Final(p) => Newest(s, p)

LEMMA ListTurns ==
    ASSUME NEW c \in Cpus, CpuStep(c)
    PROVE  checkList' = checkList \/ (CommitEnds(c) /\ checkList' = {}) \/ MarkPage(c)
BY DEF CpuStep, OwnStep, StoreBegin, StoreUnmapped, LoadBegin, TakeLock, OpenSkip, PostCall,
       CallAnswered, CallFails, CallEnds, OldAnswer, OpenEnds, CheckBatch, CommitEnds, PostPage,
       PostFails, SendFails, CountPage, PostWrite, PostRdma, WriteDone, WriteFails, AllWritten,
       LoadOverdue, PostRead, PageRead, ReadFails, LoadDone, PollsDone, ctrlVars

\* A store that has passed the commit is not marked as read.
LEMMA NotRead ==
    ASSUME OneEach, ReadsMarked, NEW c \in Cpus, At(c, "mark")
    PROVE  frame[c].page.off \notin readList
<1> SUFFICES ASSUME frame[c].page.off \in readList PROVE FALSE
  OBVIOUS
<1>1. PICK d \in Cpus : At(d, "loaded") /\ frame[d].page.off = frame[c].page.off
  BY DEF ReadsMarked
<1>2. ~At(d, "idle") /\ ~At(c, "idle")
  BY <1>1 DEF At
<1>3. c = d
  BY <1>1, <1>2 DEF OneEach
<1>4. QED
  BY <1>1, <1>3 DEF At

\* A CPU comes to a send from the mark, and to a read from a load.
LEMMA TurnsTo ==
    ASSUME FramesOK, NEW c \in Cpus, CpuStep(c), ~PollsDone(c), frame' # frame
    PROVE  /\ frame'[c].pc = "send" => PostPage(c) /\ frame'[c].page = frame[c].page
           /\ frame'[c].pc = "post" => MarkPage(c) /\ frame'[c].page = frame[c].page
           /\ frame'[c].pc = "read" =>
                At(c, "load") /\ ~Listed(c) /\ frame'[c].page = frame[c].page
<1>1. CASE Within(c)
  <2>1. Onward(c) /\ frame'[c].page = frame[c].page
    BY <1>1 DEF Within, SameArgs
  <2>2. (frame'[c].pc = "send" => At(c, "post")) /\ (frame'[c].pc = "post" => At(c, "mark"))
    BY <2>1 DEF Onward, At, CommitPcs
  <2>3. frame'[c].pc = "read" => At(c, "load") /\ ~Listed(c)
    BY <2>1 DEF Onward, At, CommitPcs
  <2>4. PostFails(c) => frame'[c].pc # "send"
    <3>1. SUFFICES ASSUME PostFails(c) PROVE frame'[c].pc # "send"
      OBVIOUS
    <3>2. Moves(c, "refused", frame[c].todo, frame[c].err, frame[c].done)
      BY <3>1, SendMoves
    <3>3. frame'[c].pc = "refused"
      BY <3>2, MoveFields
    <3>4. QED
      BY <3>3
  <2>5. /\ At(c, "mark") => MarkPage(c)
        /\ At(c, "post") => PostPage(c) \/ PostFails(c)
    BY StepsAt
  <2>6. QED
    BY <2>1, <2>2, <2>3, <2>4, <2>5
<1>2. CASE Over(c)
  BY <1>2, ReturnFields DEF Over
<1>3. ASSUME NEW o \in Offsets, StoreStarts(c, o) \/ LoadStarts(c, o) \/ Refused(o)
      PROVE  frame'[c].pc \notin {"post", "send", "read"}
  BY <1>3 DEF StoreStarts, LoadStarts, Refused
<1>4. QED
  BY <1>1, <1>2, <1>3, CpuTurns, KernelTurns

\* A page becomes final when it is posted.
LEMMA FinalTurns ==
    ASSUME AltTypes, Clean, OneEach, ReadsMarked, PathsOK, FramesOK', loaded = "ib",
           NEW c \in Cpus, CpuStep(c), NEW p \in Page, Final(p)'
    PROVE  Final(p) \/ (PostPage(c) /\ frame'[c].pc = "send" /\ p = frame[c].page)
<1>0. FramesOK /\ PathOK(c) /\ p.off \in Offsets
  BY DEF AltTypes, PathsOK, Page
<1>1. CASE (Rests(p.off) /\ p = Written(p.off))'
  <2>1. Rests(p.off)' /\ p = Written(p.off)'
    BY <1>1
  <2>2. CASE Rests(p.off) /\ stored'[p.off] = stored[p.off]
    BY <2>1, <2>2 DEF Final, Written
  <2>3. CASE Comes(c, p.off)
    <3>1. p = frame[c].page /\ frame[c].page.off = p.off
      BY <2>1, <2>3 DEF Comes
    <3>2. ~(At(c, "mark") /\ p.off \in readList)
      BY <3>1, NotRead
    <3>3. ~At(c, "write")
      BY <1>0 DEF PathOK, NotOurs, At
    <3>4. At(c, "send")
      BY <2>3, <3>2, <3>3 DEF Comes
    <3>5. QED
      BY <3>1, <3>4 DEF Final
  <2>4. QED
    BY <1>0, <2>1, <2>2, <2>3, RestTurns
<1>2. ASSUME NEW d \in Cpus, frame'[d].pc = "send", frame'[d].page = p
      PROVE  Final(p) \/ (PostPage(c) /\ frame'[c].pc = "send" /\ p = frame[c].page)
  <2>1. CASE PollsDone(c)
    BY <1>0, <1>2, <2>1, PolledFields DEF Final, At
  <2>2. CASE ~PollsDone(c) /\ (d # c \/ frame' = frame)
    <3>1. frame'[d] = frame[d]
      BY <2>2, McastKept DEF OthersKept
    <3>2. QED
      BY <1>2, <3>1 DEF Final, At
  <2>3. CASE ~PollsDone(c) /\ d = c /\ frame' # frame
    BY <1>0, <1>2, <2>3, TurnsTo
  <2>4. QED
    BY <2>1, <2>2, <2>3
<1>3. QED
  BY <1>1, <1>2 DEF Final, At

\* A read that begins is of an offset off the list, and stays so while it lasts.
LEMMA CpuUnlisted ==
    ASSUME AltTypes, Clean, OneEach, FramesOK', loaded = "ib", NEW c \in Cpus, CpuStep(c), Unlisted
    PROVE  Unlisted'
<1> SUFFICES ASSUME NEW d \in Cpus, frame'[d].pc = "read"
             PROVE  frame'[d].page.off \notin checkList'
  BY DEF Unlisted, At
<1>0. FramesOK
  BY DEF AltTypes
<1>1. /\ frame'[d].page = frame[d].page /\ frame[d].page.off \notin checkList
      /\ At(d, "read") \/ At(d, "load")
  <2>1. CASE PollsDone(c)
    BY <1>0, <2>1, PolledFields DEF Unlisted, At
  <2>2. CASE ~PollsDone(c) /\ (d # c \/ frame' = frame)
    <3>1. frame'[d] = frame[d]
      BY <2>2, McastKept DEF OthersKept
    <3>2. QED
      BY <3>1 DEF Unlisted, At
  <2>3. CASE ~PollsDone(c) /\ d = c /\ frame' # frame
    BY <1>0, <2>3, TurnsTo DEF Listed
  <2>4. QED
    BY <2>1, <2>2, <2>3
<1>2. CASE checkList' = checkList \/ checkList' = {}
  BY <1>1, <1>2
<1>3. CASE MarkPage(c)
  <2>1. /\ At(c, "mark") /\ \/ checkList' = checkList \ {frame[c].page.off}
                            \/ checkList' = checkList \cup {frame[c].page.off}
    BY <1>3 DEF MarkPage
  <2>2. frame[d].page.off # frame[c].page.off
    BY <1>1, <2>1 DEF OneEach, At
  <2>3. QED
    BY <1>1, <2>1, <2>2
<1>4. QED
  BY <1>2, <1>3, ListTurns

\* When a commit ends, nothing is on its way to a server.
LEMMA CommitLeavesNone ==
    ASSUME AltTypes, Account, \A s \in Servers : ~early[s], NEW c \in Cpus, CommitEnds(c),
           NEW s \in Alive
    PROVE  /\ sendq["mcast"] = <<>> /\ flight[s] = <<>> /\ cq[s] = <<>> /\ flow[s] = None
<1>0. s \in Servers /\ WireTypes /\ FarTypeOK
  BY AliveStays DEF AltTypes, ServerInv
<1>1. Settled(s)
  BY DEF CommitEnds, Settled, CommitPcs, Elems, At
<1>2. Accounted(s)
  BY <1>0 DEF Account
<1>3. Underway(s) = 0
  BY <1>1, <1>2 DEF Accounted
<1>4. Len(sendq["mcast"]) = 0 /\ Len(flight[s]) = 0 /\ Len(cq[s]) = 0 /\ flow[s] = None
  BY <1>0, <1>3, NothingUnderway
<1>5. sendq["mcast"] \in Seq(Work) /\ flight[s] \in Seq(Page) /\ cq[s] \in Seq(Completion)
  BY <1>0 DEF WireTypes, Qps, FarTypeOK
<1>6. QED
  BY <1>4, <1>5, EmptySeq

\* The offset joins the list, and none leaves it.
LEMMA MarkLists ==
    ASSUME OneEach, ReadsMarked, NEW c \in Cpus, MarkPage(c)
    PROVE  checkList' = checkList \cup {frame[c].page.off}
<1>1. At(c, "mark")
  BY DEF MarkPage
<1>2. frame[c].page.off \notin readList
  BY <1>1, NotRead
<1>3. QED
  BY <1>2 DEF MarkPage

\* A commit that ends finds no page about to be sent.
LEMMA CpuMarked ==
    ASSUME AltTypes, Clean, Account, OneEach, ReadsMarked, FramesOK', NEW c \in Cpus, CpuStep(c),
           Marked
    PROVE  Marked'
<1> SUFFICES ASSUME NEW d \in Cpus, frame'[d].pc = "post" PROVE frame'[d].page.off \in checkList'
  BY DEF Marked, At
<1>0. FramesOK
  BY DEF AltTypes
<1>1. \/ At(d, "post") /\ frame'[d].page = frame[d].page
      \/ d = c /\ MarkPage(c) /\ frame'[d].page = frame[d].page
  <2>1. CASE PollsDone(c)
    BY <1>0, <2>1, PolledFields DEF At
  <2>2. CASE ~PollsDone(c) /\ (d # c \/ frame' = frame)
    <3>1. frame'[d] = frame[d]
      BY <2>2, McastKept DEF OthersKept
    <3>2. QED
      BY <3>1 DEF At
  <2>3. CASE ~PollsDone(c) /\ d = c /\ frame' # frame
    BY <1>0, <2>3, TurnsTo
  <2>4. QED
    BY <2>1, <2>2, <2>3
<1>2. CASE MarkPage(c)
  BY <1>1, <1>2, MarkLists DEF Marked
<1>3. CASE ~MarkPage(c)
  <2>1. At(d, "post") /\ frame'[d].page = frame[d].page
    BY <1>1, <1>3
  <2>2. ~CommitEnds(c)
    <3>1. CommitEnds(c) => Uncounted = {}
      BY DEF CommitEnds, Account, Covers, CommitPcs, At
    <3>2. d \in Uncounted
      BY <2>1 DEF Uncounted, At
    <3>3. QED
      BY <3>1, <3>2
  <2>3. QED
    BY <1>3, <2>1, <2>2, ListTurns DEF Marked
<1>4. QED
  BY <1>2, <1>3

LEMMA CpuPages ==
    ASSUME AltTypes, Clean, CallsOK, Account, OneEach, ReadsMarked, PathsOK, FramesOK',
           loaded = "ib", \A s \in Servers : ~early[s], NEW c \in Cpus, CpuStep(c), ~failed',
           PagesKept
    PROVE  PagesKept'
<1>0. /\ FramesOK /\ CtrlTypes /\ WireTypes /\ Alive' = Alive /\ Alive \subseteq Servers
      /\ UNCHANGED <<queueVars, listVars, rmhVars, flight>>
  BY AliveStays, CpuKeepsNode, CpuKeepsServers DEF AltTypes
<1>1. UNCHANGED <<cq, data, flow, mem, flight>>
  BY <1>0 DEF queueVars, listVars, rmhVars
<1>2. Unlisted' /\ Marked'
  BY CpuUnlisted, CpuMarked DEF PagesKept
<1>3. CASE ~PostPage(c)
  <2>1. NothingSent
    <3>1. CASE PollsDone(c)
      BY <3>1 DEF PollsDone, NothingSent
    <3>2. CASE ~PollsDone(c)
      <4>1. ~Submits(c)
        <5>1. ~PostFails(c)
          BY DEF PostFails
        <5>2. QED
          BY <1>3, <3>2, <5>1, StepsAt DEF Submits
      <4>2. Form(c)
        BY <3>2, NoOldAnswer, CpuForms
      <4>3. QED
        BY <4>1, <4>2 DEF Form, Aside, Locks, StartsCommit, InLoop, Hears, Passes, EndsCommit,
                          Counts, Ends, Still
    <3>3. QED
      BY <3>1, <3>2
  <2>2. ASSUME NEW s \in Alive PROVE Listing(s)'
    <3>1. CASE CommitEnds(c)
      <4>1. sendq'["mcast"] = <<>> /\ flight'[s] = <<>> /\ cq'[s] = <<>> /\ flow'[s] = None
        BY <1>1, <2>1, <2>2, <3>1, CommitLeavesNone DEF NothingSent
      <4>2. Elems(<<>>) = {}
        BY DEF Elems
      <4>3. QED
        BY <4>1, <4>2 DEF Listing
    <3>2. CASE ~CommitEnds(c)
      <4>1. checkList \subseteq checkList'
        BY <3>2, ListTurns, MarkLists
      <4>2. QED
        BY <1>1, <2>1, <2>2, <4>1, ListingKept DEF NothingSent, PagesKept
    <3>3. QED
      BY <3>1, <3>2
  <2>3. ASSUME NEW s \in Alive, NEW p \in Page, Final(p)' PROVE Newest(s, p)'
    <3>1. Newest(s, p)
      BY <1>3, <2>3, FinalTurns DEF PagesKept
    <3>2. QED
      BY <1>1, <2>1, <3>1, SameNewest
  <2>4. QED
    BY <1>0, <1>2, <2>2, <2>3 DEF PagesKept
<1>4. CASE PostPage(c)
  <2> DEFINE g == frame[c].page  w == [cpu |-> c, op |-> "page", what |-> g]
  <2>1. g \in Page /\ At(c, "post") /\ ~At(c, "idle") /\ w \in Work
    <3>1. At(c, "post")
      BY <1>4 DEF PostPage
    <3>2. ~At(c, "idle")
      BY <3>1 DEF At
    <3>3. g \in Page
      BY <1>0, <3>2, FrameFacts
    <3>4. QED
      BY <3>1, <3>2, <3>3 DEF Work
  <2>2. /\ checkList' = checkList /\ g.off \in checkList /\ Posted(c, "mcast", "page", g)
        /\ frame' = [frame EXCEPT ![c].pc = "send", ![c].done = FALSE] /\ UNCHANGED kernelVars
    BY <1>4, <2>1 DEF PostPage, ctrlVars, PagesKept, Marked
  <2>3. sendq'["mcast"] = Append(sendq["mcast"], w) /\ sendq["mcast"] \in Seq(Work)
    BY <1>0, <2>2 DEF Posted, WireTypes, Qps
  <2>4. /\ frame'[c].pc = "send" /\ frame'[c].page = g /\ frame'[c].op = frame[c].op
        /\ OthersKept(c)
    <3>1. Moves(c, "send", frame[c].todo, frame[c].err, FALSE)
      BY <1>0, <2>2, MoveForms
    <3>2. QED
      BY <1>0, <3>1, MoveWithin DEF SameArgs
  <2>5. ASSUME NEW s \in Alive PROVE Listing(s)'
    <3>1. Elems(sendq'["mcast"]) = Elems(sendq["mcast"]) \cup {w}
      BY <2>1, <2>3, ElemsOfAppend
    <3>2. w.what.off \in checkList' /\ checkList \subseteq checkList'
      BY <2>2
    <3> HIDE DEF w, g
    <3>3. \A v \in Elems(sendq'["mcast"]) :
             v \in Elems(sendq["mcast"]) \/ v.what.off \in checkList'
      BY <3>1, <3>2
    <3>4. Listing(s)
      BY <2>5 DEF PagesKept
    <3>5. QED
      BY <1>1, <3>2, <3>3, <3>4, ListingKept
  <2>6. ASSUME NEW p \in Page, Final(p)', p.off = g.off PROVE p = g
    <3>1. ASSUME Rests(p.off)' PROVE FALSE
      <4>1. ~Stores(c, p.off)'
        BY <3>1 DEF Rests
      <4>2. frame[c].op = "store"
        BY <2>1 DEF PathsOK, PathOK, StorePcs, At
      <4>3. QED
        BY <2>4, <2>6, <4>1, <4>2 DEF Stores, At
    <3>2. ASSUME NEW d \in Cpus, frame'[d].pc = "send", frame'[d].page = p PROVE p = g
      <4>1. CASE d = c
        BY <2>4, <3>2, <4>1
      <4>2. CASE d # c
        <5>1. At(d, "send") /\ frame[d].page.off = g.off
          BY <2>4, <2>6, <3>2, <4>2 DEF OthersKept, At
        <5>2. QED
          BY <2>1, <4>2, <5>1 DEF OneEach, At
      <4>3. QED
        BY <4>1, <4>2
    <3>3. QED
      BY <2>6, <3>1, <3>2 DEF Final, At
  <2>7. ASSUME NEW s \in Alive, NEW p \in Page, Final(p)' PROVE Newest(s, p)'
    <3>1. Newest(s, p)' <=> IF w.what.off = p.off THEN w.what = p ELSE Newest(s, p)
      <4> HIDE DEF w
      <4>1. QED
        BY <1>1, <2>1, <2>3, PostedNewest
    <3>2. w.what = g
      OBVIOUS
    <3> HIDE DEF w
    <3>3. CASE g.off = p.off
      BY <2>6, <2>7, <3>1, <3>2, <3>3
    <3>4. CASE g.off # p.off
      <4>1. Final(p)
        BY <2>7, <3>4, FinalTurns
      <4>2. QED
        BY <2>7, <3>1, <3>2, <3>4, <4>1 DEF PagesKept
    <3>5. QED
      BY <3>3, <3>4
  <2>8. QED
    BY <1>0, <1>2, <2>5, <2>7 DEF PagesKept
<1>5. QED
  BY <1>3, <1>4

LEMMA WorkPages ==
    ASSUME AltTypes, Clean, Matched, PathsOK, loaded = "ib", NEW q \in Qps, Executes(q), ~failed',
           PagesKept
    PROVE  PagesKept'
<1>0. /\ FramesOK /\ CtrlTypes /\ WireTypes /\ stored' = stored /\ loaded' = loaded
      /\ checkList' = checkList /\ \A d \in Cpus : SameButGot(frame'[d], frame[d])
      /\ \A r \in Qps : Elems(sendq'[r]) \subseteq Elems(sendq[r])
  BY WorkStays DEF AltTypes, kernelVars, ctrlVars
<1>1. Alive' = Alive /\ Alive \subseteq Servers /\ "mcast" \in Qps
  BY <1>0, AliveStays DEF Qps
<1>2. Unlisted' /\ Marked'
  BY <1>0 DEF PagesKept, Unlisted, Marked, SameButGot, At
<1>3. \A p : Final(p)' <=> Final(p)
  <2>1. \A o : (Rests(o)' <=> Rests(o)) /\ Written(o)' = Written(o)
    BY <1>0 DEF Rests, Stores, SameButGot, At, Written
  <2>2. QED
    BY <1>0, <2>1 DEF Final, SameButGot, At
<1>4. CASE SendsPage(q)
  <2> DEFINE w == Head(sendq["mcast"])
  <2>1. /\ w \in Elems(sendq["mcast"]) /\ w.what \in Page
        /\ \A s \in Alive : flight'[s] = Append(flight[s], w.what)
    BY <1>4, PageSent
  <2>2. cq' = cq /\ flow' = flow
    BY <1>4 DEF SendsPage, serverVars, queueVars, listVars
  <2> HIDE DEF w
  <2>3. ASSUME NEW s \in Alive PROVE Listing(s)'
    <3>1. flight[s] \in Seq(Page) /\ flight'[s] = Append(flight[s], w.what) /\ Listing(s)
      BY <1>0, <1>1, <2>1, <2>3 DEF WireTypes, PagesKept
    <3>2. Elems(flight'[s]) = Elems(flight[s]) \cup {w.what}
      BY <2>1, <3>1, ElemsOfAppend
    <3>3. w.what.off \in checkList
      BY <2>1, <3>1 DEF Listing
    <3>4. QED
      BY <1>0, <1>1, <2>2, <3>1, <3>2, <3>3, ListingKept
  <2>4. ASSUME NEW s \in Alive, NEW p \in Page, Final(p)' PROVE Newest(s, p)'
    BY <1>3, <1>4, <2>4, SentNewest DEF PagesKept
  <2>5. QED
    BY <1>1, <1>2, <2>3, <2>4 DEF PagesKept
<1>5. CASE ~SendsPage(q)
  <2>1. NothingSent /\ flight' = flight /\ cq' = cq /\ data' = data /\ flow' = flow
    BY <1>5, NoPageSent DEF queueVars, listVars
  <2>2. mem' = mem
    <3>1. ~WorkFails(q)
      BY DEF WorkFails, Completes
    <3>2. ~WritesPage(q)
      <4> SUFFICES ASSUME WritesPage(q) PROVE FALSE
        OBVIOUS
      <4>1. Completes(q, {"write"}, TRUE) /\ TRUE \in BOOLEAN
        BY DEF WritesPage
      <4> DEFINE w == Head(sendq[q])
      <4>2. w.op \in {"write"} /\ w.cpu \in Cpus /\ w = WorkOf(w.cpu)
        BY <4>1, HeadOfWork
      <4>3. At(w.cpu, "writing")
        <5> HIDE DEF w
        <5>1. QED
          BY <4>2 DEF WorkOf
      <4>4. QED
        BY <4>2, <4>3 DEF PathsOK, PathOK, NotOurs, At
    <3>3. CASE SendsCall(q)
      BY <3>3 DEF SendsCall, Call, rmhVars
    <3>4. CASE ReadsPage(q)
      BY <3>4 DEF ReadsPage, serverVars, rmhVars
    <3>5. QED
      BY <1>5, <3>1, <3>2, <3>3, <3>4 DEF Executes
  <2>3. ASSUME NEW s \in Alive PROVE Listing(s)'
    BY <1>0, <2>1, <2>3, ListingKept DEF NothingSent, PagesKept
  <2>4. ASSUME NEW s \in Alive, NEW p \in Page, Final(p)' PROVE Newest(s, p)'
    BY <1>3, <2>1, <2>2, <2>4, SameNewest DEF PagesKept
  <2>5. QED
    BY <1>1, <1>2, <2>3, <2>4 DEF PagesKept
<1>6. QED
  BY <1>4, <1>5

\* A step of a server that answers a call copies nothing.
LEMMA RdmaNewest ==
    ASSUME AltTypes, Clean, CallsOK, Covers, NEW s \in Servers, RdmaThread(s), Accounted(s)
    PROVE  /\ cq' = cq /\ data' = data /\ flow' = flow /\ mem'[s] = mem[s]
<1>1. cq' = cq /\ data' = data /\ flow' = flow
  BY DEF RdmaThread, ServeOpen, CommitEmpty, CommitBegin, CommitConvey, CommitPutback, CommitReset,
         queueVars, listVars
<1>2. CASE CommitConvey(s)
  BY <1>1, <1>2, NoneToConvey, ConveysNothing DEF AltTypes, ServerInv
<1>3. CASE ~CommitConvey(s)
  <2>1. mem' = mem
    BY <1>3 DEF RdmaThread, ServeOpen, CommitEmpty, CommitBegin, CommitPutback, CommitReset, rmhVars
  <2>2. QED
    BY <1>1, <2>1
<1>4. QED
  BY <1>2, <1>3

LEMMA ServersPages ==
    ASSUME AltTypes, Clean, CallsOK, Account, \A s \in Alive : AtHome(s),
           \A s \in Servers : ~early[s], NEW t \in Servers, Deliver(t) \/ ServerRuns(t), PagesKept
    PROVE  PagesKept'
<1>0. /\ FarTypeOK /\ CtrlTypes /\ WireTypes /\ StepOf(t) /\ NothingSent /\ Alive' = Alive
      /\ Alive \subseteq Servers /\ UNCHANGED <<frame, sendq>>
      /\ \A s \in Servers : s # t => flight'[s] = flight[s]
  BY ServerSteps, AliveStays DEF AltTypes, ServerInv
<1>1. checkList' = checkList /\ stored' = stored
  BY DEF Deliver, ServerRuns, ctrlVars, kernelVars
<1>2. Unlisted' /\ Marked' /\ \A p : Final(p)' <=> Final(p)
  <2>1. \A o : (Rests(o)' <=> Rests(o)) /\ Written(o)' = Written(o)
    BY <1>0, <1>1 DEF Rests, Stores, At, Written
  <2>2. QED
    BY <1>0, <1>1, <2>1 DEF PagesKept, Unlisted, Marked, Final, At
<1>3. ASSUME NEW s \in Alive, Accounted(s), NEW p \in Page PROVE Newest(s, p)' <=> Newest(s, p)
  <2>0. s \in Servers /\ Undisturbed(s) /\ ~clash[s]
    BY <1>0, <1>3 DEF Accounted, Undisturbed
  <2>1. CASE s # t
    BY <1>0, <2>0, <2>1, OneServer, SameNewest DEF Untouched
  <2>2. CASE s = t /\ Deliver(t)
    BY <2>0, <2>2, DeliveredNewest
  <2>3. CASE s = t /\ ServerRuns(t)
    <3>0. flight' = flight
      BY <2>3 DEF ServerRuns, wireVars
    <3>1. CASE FlowAdd(s)
      BY <1>0, <2>0, <3>0, <3>1, TakenNewest
    <3>2. CASE FlowConvey(s)
      BY <1>0, <2>0, <3>0, <3>2, ConveyedNewest
    <3>3. CASE RdmaThread(s)
      <4>1. cq' = cq /\ data' = data /\ flow' = flow /\ mem'[s] = mem[s]
        BY <1>3, <2>0, <3>3, RdmaNewest DEF Account
      <4>2. QED
        BY <1>0, <3>0, <4>1, SameNewest
    <3>4. QED
      BY <2>3, <3>1, <3>2, <3>3 DEF ServerRuns, MulticastThread
  <2>4. QED
    BY <2>1, <2>2, <2>3
<1>4. ASSUME NEW s \in Alive, NEW p \in Page, Final(p)' PROVE Newest(s, p)'
  <2>1. Accounted(s) /\ Newest(s, p)
    BY <1>0, <1>2, <1>4 DEF Account, PagesKept
  <2>2. QED
    BY <1>3, <2>1
<1>5. ASSUME NEW s \in Alive PROVE Listing(s)'
  <2>0. Listing(s) /\ s \in Servers
    BY <1>0, <1>5 DEF PagesKept
  <2>1. CASE s # t
    BY <1>0, <1>1, <2>0, <2>1, OneServer, ListingKept DEF Untouched, NothingSent
  <2>2. CASE s = t /\ Deliver(t)
    <3> DEFINE p == Head(flight[s])
    <3>1. /\ p \in Page /\ p \in Elems(flight[s])
          /\ flight' = [flight EXCEPT ![s] = Tail(flight[s])]
          /\ Elems(Tail(flight[s])) \subseteq Elems(flight[s])
          /\ Receive(s, p)
      BY <2>2, DeliversHead
    <3>2. flow' = flow
      BY <3>1 DEF Receive, listVars
    <3> HIDE DEF p
    <3>3. PICK w \in Completion : cq'[s] = Append(cq[s], w) /\ w.off = p.off
      BY <1>0, <2>0, <3>1, ReceiveAppends
    <3>4. cq[s] \in Seq(Completion)
      BY <1>0, <2>0 DEF FarTypeOK
    <3>5. Elems(cq'[s]) = Elems(cq[s]) \cup {w} /\ w.off \in checkList
      BY <2>0, <3>1, <3>3, <3>4, ElemsOfAppend DEF Listing
    <3>6. Elems(flight'[s]) \subseteq Elems(flight[s])
      BY <1>0, <2>0, <3>1 DEF WireTypes
    <3>7. QED
      BY <1>0, <1>1, <2>0, <3>2, <3>5, <3>6, ListingKept
  <2>3. CASE s = t /\ ServerRuns(t)
    <3>0. flight' = flight
      BY <2>3 DEF ServerRuns, wireVars
    <3>1. CASE FlowAdd(s)
      <4> DEFINE w == Head(cq[s])
      <4>1. w \in Elems(cq[s]) /\ Elems(cq[s]) = {w} \cup Elems(cq'[s]) /\ flow'[s] = w
        BY <1>0, <2>0, <3>1, FlowAddDoes DEF AltTypes, ServerInv, QueueInv
      <4>2. w.off \in checkList
        BY <2>0, <4>1 DEF Listing
      <4>3. QED
        BY <1>0, <1>1, <2>0, <3>0, <4>1, <4>2, ListingKept
    <3>2. CASE FlowConvey(s)
      <4>1. cq' = cq /\ flow'[s] = None
        BY <1>0, <2>0, <3>2, FlowConveyDoes
      <4>2. QED
        BY <1>0, <1>1, <2>0, <3>0, <4>1, ListingKept
    <3>3. CASE RdmaThread(s)
      <4>1. cq' = cq /\ flow' = flow
        BY <3>3 DEF RdmaThread, ServeOpen, CommitEmpty, CommitBegin, CommitConvey, CommitPutback, CommitReset,
                    queueVars, listVars
      <4>2. QED
        BY <1>0, <1>1, <2>0, <3>0, <4>1, ListingKept
    <3>4. QED
      BY <2>3, <3>1, <3>2, <3>3 DEF ServerRuns, MulticastThread
  <2>4. QED
    BY <2>1, <2>2, <2>3
<1>6. QED
  BY <1>0, <1>2, <1>4, <1>5 DEF PagesKept

LEMMA CpuVouches ==
    ASSUME NEW c \in Cpus, CpuStep(c)
    PROVE  early' = early /\ (blurred => blurred')
<1>1. blurred => blurred'
  <2>1. TakeLock(c) \/ CheckBatch(c) => blurred' = blurred \/ StartCommit(c)
    BY DEF TakeLock, CheckBatch
  <2>2. StartCommit(c) /\ blurred => blurred'
    BY DEF StartCommit
  <2>3. TakeLock(c) \/ CheckBatch(c) \/ blurred' = blurred
    BY DEF CpuStep, OwnStep, StoreBegin, StoreUnmapped, LoadBegin, OpenSkip, PostCall,
           CallAnswered, CallFails, CallEnds, OldAnswer, OpenEnds, CommitEnds, MarkPage, PostPage, PostFails, SendFails,
           CountPage, PostWrite, PostRdma, WriteDone, WriteFails, AllWritten, LoadOverdue,
           PostRead, PageRead, ReadFails, LoadDone, PollsDone, historyOfCalls
  <2>4. QED
    BY <2>1, <2>2, <2>3
<1>2. early' = early
  BY DEF CpuStep, OwnStep, StoreBegin, StoreUnmapped, LoadBegin, TakeLock, OpenSkip, PostCall,
         CallAnswered, CallFails, OldAnswer, OpenEnds, CheckBatch, CommitEnds, MarkPage, PostPage, PostFails, SendFails,
         CountPage, PostWrite, PostRdma, WriteDone, WriteFails, AllWritten, LoadOverdue, PostRead,
         PageRead, ReadFails, LoadDone, PollsDone, TakeReply, serverVars, historyVars
<1>3. QED
  BY <1>1, <1>2

\* The driver never answers for more than it did.
LEMMA VouchedBefore ==
    ASSUME AltTypes, [AltNext]_altVars
    PROVE  /\ loaded' = loaded /\ (failed => failed')
           /\ Vouches' => Vouches
<1>0. FarTypeOK /\ WireTypes
  BY DEF AltTypes, ServerInv
<1>1. ASSUME NEW c \in Cpus, CpuStep(c)
      PROVE  /\ loaded' = loaded /\ (failed => failed') /\ (blurred => blurred')
             /\ early' = early
  BY <1>1, CpuKeepsNode, CpuVouches
<1>2. ASSUME NEW q \in Qps, Executes(q)
      PROVE  loaded' = loaded /\ (failed => failed') /\ blurred' = blurred /\ early' = early
  <2>1. loaded' = loaded /\ (failed => failed') /\ blurred' = blurred
    BY <1>0, <1>2, WorkStays DEF AltTypes
  <2>2. early' = early
    BY <1>2 DEF Executes, SendsPage, WorkFails, SendsCall, ReadsPage, WritesPage, Call, serverVars,
                historyVars
  <2>3. QED
    BY <2>1, <2>2
<1>3. ASSUME NEW t \in Servers, Deliver(t) \/ ServerRuns(t)
      PROVE  /\ loaded' = loaded /\ failed' = failed /\ blurred' = blurred
             /\ \A s \in Servers : early[s] => early'[s]
  <2>1. loaded' = loaded /\ failed' = failed /\ blurred' = blurred
    BY <1>3, ServerSteps
  <2>2. CASE Deliver(t)
    <3>1. early' = early
      BY <2>2 DEF Deliver, Receive
    <3>2. QED
      BY <2>1, <3>1
  <2>3. CASE ServerRuns(t)
    <3>1. early' = early \/ early' = [early EXCEPT ![t] = TRUE]
      BY <2>3 DEF ServerRuns, MulticastThread, FlowAdd, FlowConvey, RdmaThread, ServeOpen,
                  CommitEmpty, CommitBegin, CommitConvey, CommitPutback, CommitReset, historyVars
    <3>2. QED
      BY <1>0, <2>1, <3>1 DEF FarTypeOK
  <2>4. QED
    BY <1>3, <2>2, <2>3
<1>4. CASE UNCHANGED altVars
  BY <1>4 DEF altVars, historyOfCalls, serverVars, historyVars, Vouches
<1>5. loaded' = loaded /\ (failed => failed') /\ (blurred => blurred')
      /\ \A s \in Servers : early[s] => early'[s]
  <2>1. CASE UNCHANGED altVars
    BY <2>1 DEF altVars, historyOfCalls, serverVars, historyVars
  <2>2. QED
    BY <1>1, <1>2, <1>3, <2>1 DEF AltNext
<1>6. QED
  BY <1>5 DEF Vouches

\* While ib answers for its offsets, what rests with it is the newest page everywhere.
IbInv == loaded = "ib" /\ Vouches => PagesKept

LEMMA IbInvInit == AltInit => IbInv
<1> SUFFICES ASSUME AltInit PROVE PagesKept
  BY DEF IbInv
<1>1. \A c \in Cpus : frame[c].pc = "idle"
  BY DEF AltInit, IdleFrame
<1>2. \A p \in Page : ~Final(p)
  <2>1. \A o \in Offsets : ~Rests(o)
    BY DEF AltInit, Rests
  <2>2. QED
    BY <1>1, <2>1 DEF Final, Page, At
<1>3. Alive \subseteq Servers
  BY AltTypesInit, AliveStays DEF AltTypes
<1>4. \A s \in Alive : Listing(s)
  <2>1. \A s \in Alive : sendq["mcast"] = <<>> /\ flight[s] = <<>> /\ cq[s] = <<>> /\ flow[s] = None
    BY <1>3 DEF AltInit, FarInit, Qps
  <2>2. Elems(<<>>) = {}
    BY DEF Elems
  <2>3. QED
    BY <2>1, <2>2 DEF Listing
<1>5. QED
  BY <1>1, <1>2, <1>4 DEF PagesKept, Unlisted, Marked, At

LEMMA IbInvStep ==
    ASSUME AgreeInv, AgreeInv', SentInv, CallInv, IbInv, [AltNext]_altVars
    PROVE  IbInv'
<1>0. AltTypes /\ FramesOK' /\ PathsOK /\ OneEach /\ ReadsMarked
  BY DEF AgreeInv, CleanInv, AltTypes, CallInv, SentInv
<1> SUFFICES ASSUME loaded' = "ib", Vouches' PROVE PagesKept'
  BY DEF IbInv
<1>1. loaded = "ib" /\ Vouches /\ PagesKept /\ ~failed'
  BY <1>0, VouchedBefore DEF IbInv, Vouches
<1>2. /\ Clean /\ Matched /\ CallsOK /\ Account /\ \A s \in Alive : AtHome(s)
      /\ \A s \in Servers : ~early[s]
  BY <1>1 DEF Vouches, AgreeInv, CleanInv, Agreed
<1>3. ASSUME NEW c \in Cpus, CpuStep(c) PROVE PagesKept'
  BY <1>0, <1>1, <1>2, <1>3, CpuPages
<1>4. ASSUME NEW q \in Qps, Executes(q) PROVE PagesKept'
  BY <1>0, <1>1, <1>2, <1>4, WorkPages
<1>5. ASSUME NEW t \in Servers, Deliver(t) \/ ServerRuns(t) PROVE PagesKept'
  BY <1>0, <1>1, <1>2, <1>5, ServersPages
<1>6. CASE UNCHANGED altVars
  <2>1. UNCHANGED <<frame, loaded, checkList, stored, sendq, flight, cq, flow, data, mem>>
    BY <1>6 DEF altVars, ctrlVars, wireVars, kernelVars, historyOfCalls, serverVars, queueVars,
                listVars, rmhVars
  <2>2. Alive' = Alive
    BY <2>1 DEF Alive, AliveOrder
  <2>3. \A p : Final(p)' <=> Final(p)
    BY <2>1 DEF Final, Rests, Stores, Written, At
  <2>4. ASSUME NEW s \in Alive, NEW p \in Page, Final(p)' PROVE Newest(s, p)'
    BY <1>1, <2>1, <2>3, <2>4, SameNewest DEF PagesKept, NothingSent
  <2>5. QED
    BY <1>1, <2>1, <2>2, <2>4 DEF PagesKept, Unlisted, Marked, Listing, At
<1>7. QED
  BY <1>3, <1>4, <1>5, <1>6 DEF AltNext

----------------------------------------------------------------------------
(* The drivers implement the frontswap backend of SwapStore: its variables are *)
(* functions of theirs.                                                        *)

\* What an outsider sees of a call.
LEMMA CallIs ==
    ASSUME FramesOK, NEW c \in Cpus
    PROVE  /\ AltCalls[c] = None <=> At(c, "idle")
           /\ ~At(c, "idle") =>
                /\ AltCalls[c].op = frame[c].op /\ AltCalls[c].page = frame[c].page
                /\ AltCalls[c] = [op |-> frame[c].op, page |-> frame[c].page,
                                  got |-> frame[c].got]
<1> DEFINE r == [op |-> frame[c].op, page |-> frame[c].page, got |-> frame[c].got]
<1>1. AltCalls[c] = IF At(c, "idle") THEN None ELSE r
  BY DEF AltCalls, AltCall
<1>2. ~At(c, "idle") => r # None
  <2>1. ~At(c, "idle") => r \in FrontswapCall
    BY DEF FramesOK, FrameOK, Frame, At, FrontswapCall
  <2>2. QED
    BY <2>1, NoCallAssumption
<1>3. QED
  BY <1>1, <1>2

LEMMA FreeIs ==
    ASSUME FramesOK, NEW o, ~Busy(o)
    PROVE  AltStore!Free(o)
<1> SUFFICES ASSUME NEW c \in Cpus, AltCalls[c] # None PROVE AltCalls[c].page.off # o
  BY DEF AltStore!Free
<1>1. ~At(c, "idle") /\ AltCalls[c].page = frame[c].page
  BY CallIs
<1>2. QED
  BY <1>1 DEF Busy

LEMMA AnswerableIs ==
    /\ Answerable \in SUBSET Offsets
    /\ \A o \in Offsets : o \in Answerable <=> Vouches
BY DEF Answerable, Vouches

\* A step no call shows: at most, the driver answers for other offsets.
LEMMA StepUnseen ==
    ASSUME UNCHANGED kernelVars,
           \A d \in Cpus : /\ frame'[d].pc = "idle" <=> frame[d].pc = "idle"
                           /\ frame'[d].op = frame[d].op /\ frame'[d].page = frame[d].page
                           /\ frame'[d].got = frame[d].got
    PROVE  AltStore!Vouch
<1>1. \A d \in Cpus : AltCall(d)' = AltCall(d)
  BY DEF AltCall, At
<1>2. AltCalls' = AltCalls
  BY <1>1 DEF AltCalls
<1>3. Answerable' \in SUBSET Offsets
  BY DEF Answerable
<1>4. QED
  BY <1>2, <1>3 DEF AltStore!Vouch, kernelVars

LEMMA OneCallChanges ==
    ASSUME NEW c \in Cpus, OthersKept(c)
    PROVE  AltCalls' = [AltCalls EXCEPT ![c] = AltCall(c)']
<1>1. \A d \in Cpus : d # c => AltCall(d)' = AltCall(d)
  BY DEF OthersKept, AltCall, At
<1>2. QED
  BY <1>1 DEF AltCalls

\* Only a commit that begins changes what the driver answers for.
LEMMA SameAnswerable ==
    ASSUME NEW c \in Cpus, CpuStep(c), frame[c].pc \notin {"lock", "overdue", "check", "post"}
    PROVE  Answerable' = Answerable
<1>1. loaded' = loaded /\ failed' = failed /\ early' = early
  <2>1. ~PostFails(c)
    BY DEF PostFails, At
  <2>2. failed' = failed
    BY <2>1 DEF CpuStep, OwnStep, StoreBegin, StoreUnmapped, LoadBegin, TakeLock, OpenSkip,
       PostCall, CallAnswered, CallFails, CallEnds, OldAnswer, OpenEnds, CheckBatch, CommitEnds,
       MarkPage, PostPage, SendFails, CountPage, PostWrite, PostRdma, WriteDone, WriteFails,
       AllWritten, LoadOverdue, PostRead, PageRead, ReadFails, LoadDone, PollsDone, historyOfCalls
  <2>3. QED
    BY <2>2, CpuKeepsNode, CpuVouches
<1>2. blurred' = blurred
  <2>1. ~TakeLock(c) /\ ~CheckBatch(c)
    BY DEF TakeLock, CheckBatch, At
  <2>2. QED
    BY <2>1 DEF CpuStep, OwnStep, StoreBegin, StoreUnmapped, LoadBegin, OpenSkip, PostCall,
                CallAnswered, CallFails, CallEnds, OldAnswer, OpenEnds, CommitEnds, MarkPage,
                PostPage, PostFails, SendFails, CountPage, PostWrite, PostRdma, WriteDone, WriteFails, AllWritten,
                LoadOverdue, PostRead, PageRead, ReadFails, LoadDone, PollsDone, historyOfCalls
<1>3. QED
  BY <1>1, <1>2 DEF Answerable

LEMMA BeginsSeen ==
    ASSUME AltTypes, NEW c \in Cpus, CpuStep(c), KernelCalls(c)
    PROVE  \E o \in Offsets : \/ AltStore!StoreBegins(c, o) \/ AltStore!LoadBegins(c, o)
                              \/ AltStore!StoreRefused(o)
<1>0. FramesOK /\ At(c, "idle") /\ AltCalls[c] = None
  BY CallIs DEF AltTypes, KernelCalls, OwnStep, StoreBegin, StoreUnmapped, LoadBegin
<1>1. Answerable' = Answerable
  BY <1>0, SameAnswerable DEF At
<1>2. PICK o \in Offsets : StoreStarts(c, o) \/ LoadStarts(c, o) \/ Refused(o)
  BY <1>0, KernelTurns
<1>3. AltStore!Free(o)
  BY <1>0, <1>2, FreeIs DEF StoreStarts, LoadStarts, Refused
<1>4. CASE StoreStarts(c, o)
  <2>1. AltCall(c)' = [op |-> "store", page |-> [off |-> o, ver |-> stores + 1], got |-> None]
    BY <1>4 DEF StoreStarts, AltCall, At
  <2>2. AltStore!NewCall(c, "store", o, stores + 1)
    BY <1>0, <1>3, <1>4, <2>1, OneCallChanges DEF StoreStarts, AltStore!NewCall
  <2>3. AltStore!StoreBegins(c, o)
    BY <1>1, <1>4, <2>2 DEF StoreStarts, AltStore!StoreBegins
  <2>4. QED
    BY <2>3
<1>5. CASE LoadStarts(c, o)
  <2>1. AltCall(c)' = [op |-> "load", page |-> [off |-> o, ver |-> stored[o]], got |-> None]
    BY <1>5 DEF LoadStarts, AltCall, At, Written
  <2>2. AltStore!NewCall(c, "load", o, stored[o])
    BY <1>0, <1>3, <1>5, <2>1, OneCallChanges DEF LoadStarts, AltStore!NewCall
  <2>3. AltStore!LoadBegins(c, o)
    BY <1>1, <1>5, <2>2 DEF LoadStarts, AltStore!LoadBegins, kernelVars
  <2>4. QED
    BY <2>3
<1>6. CASE Refused(o)
  <2>1. AltCalls' = AltCalls
    BY <1>6 DEF Refused, AltCalls, AltCall, At
  <2>2. AltStore!StoreRefused(o)
    BY <1>1, <1>3, <1>6, <2>1 DEF Refused, AltStore!StoreRefused
  <2>3. QED
    BY <2>2
<1>7. QED
  BY <1>2, <1>4, <1>5, <1>6

LEMMA EndSeen ==
    ASSUME AltTypes, PathsOK, NEW c \in Cpus, CpuStep(c), Over(c)
    PROVE  AltStore!StoreEnds(c) \/ AltStore!LoadEnds(c)
<1>0. FramesOK /\ PathOK(c) /\ OthersKept(c) /\ frame'[c].pc = "idle"
  BY ReturnFields DEF AltTypes, PathsOK, Over
<1>1. frame[c].pc \in {"open", "send", "refused", "write", "commit", "mark", "read", "loaded"}
  BY DEF Over, StoreOver, LoadOver, At
<1>2. /\ ~At(c, "idle") /\ Answerable' = Answerable
      /\ AltCalls' = [AltCalls EXCEPT ![c] = None]
  <2>1. ~At(c, "idle") /\ Answerable' = Answerable
    BY <1>1, SameAnswerable DEF At
  <2>2. AltCall(c)' = None
    BY <1>0 DEF AltCall, At
  <2>3. QED
    BY <1>0, <2>1, <2>2, OneCallChanges
<1>3. AltCalls[c] # None /\ AltCalls[c].op = frame[c].op /\ AltCalls[c].page = frame[c].page
  BY <1>0, <1>2, CallIs
<1>4. CASE StoreOver(c)
  <2>1. frame[c].op = "store"
    BY <1>0, <1>4 DEF StoreOver, PathOK, StorePcs, At
  <2>2. \E v \in {0, frame[c].page.ver} : Keeps(c, v)
    BY <1>4 DEF StoreOver
  <2>3. QED
    BY <1>2, <1>3, <2>1, <2>2 DEF Keeps, AltStore!StoreEnds
<1>5. CASE LoadOver(c)
  <2>1. frame[c].op = "load"
    BY <1>0, <1>5 DEF LoadOver, FramesOK, FrameOK
  <2>2. QED
    BY <1>2, <1>3, <1>5, <2>1 DEF LoadOver, kernelVars, AltStore!LoadEnds
<1>6. QED
  BY <1>4, <1>5 DEF Over

\* A read of an offset the driver answers for finds the page of the last store.
LEMMA ReadFinds ==
    ASSUME AltTypes, OneEach, CallInv, CibInv, IbInv, Vouches, NEW c \in Cpus, At(c, "read")
    PROVE  mem[frame[c].ctrl][frame[c].page.off] = frame[c].page
<1> DEFINE p == frame[c].page  s == frame[c].ctrl  o == p.off
<1>0. FramesOK /\ PathOK(c) /\ ~At(c, "idle") /\ p \in Page /\ o \in Offsets /\ o = p.off
  <2>1. FramesOK /\ PathOK(c) /\ ~At(c, "idle")
    BY DEF AltTypes, CallInv, PathsOK, At
  <2>2. QED
    BY <2>1, FrameFacts
<1>1. frame[c].op = "load" /\ p = Written(o) /\ s \in Alive /\ (loaded # "ib" => s = Main)
  <2>1. frame[c].op = "load"
    BY <1>0 DEF FramesOK, FrameOK, At
  <2>2. QED
    BY <1>0, <2>1 DEF PathOK
<1>2. Rests(o)
  <2>1. stored[o] # 0
    <3>1. p.ver = stored[o] /\ p.ver \in 1 .. MaxStores
      BY <1>0, <1>1 DEF Written, Page
    <3>2. MaxStores \in Nat
      BY MaxStoresAssumption
    <3> HIDE DEF p, o
    <3>3. QED
      BY <3>1, <3>2
  <2>2. \A d \in Cpus : ~Stores(d, o)
    BY <1>0, <1>1 DEF OneEach, Stores
  <2>3. QED
    BY <2>1, <2>2 DEF Rests
<1>3. CASE loaded # "ib"
  <2>1. WritesKept /\ s \in Elems(CtrlOrder)
    BY <1>1, <1>3, CtrlOrderAssumption DEF CibInv, Vouches
  <2>2. Has(s, Written(o))
    BY <1>0, <1>2, <2>1 DEF WritesKept
  <2>3. QED
    BY <1>1, <2>2 DEF Has
<1>4. CASE loaded = "ib"
  <2>1. PagesKept /\ s \in Servers
    BY <1>1, <1>4, AliveStays DEF IbInv, AltTypes
  <2>2. Listing(s) /\ Newest(s, p) /\ o \notin checkList
    BY <1>0, <1>1, <1>2, <2>1 DEF PagesKept, Unlisted, Final
  <2>3. WireTypes /\ FarTypeOK /\ BuffersHoldPages(s)
    BY <2>1 DEF AltTypes, ServerInv, QueueInv
  <2> HIDE DEF p, o, s
  <2>4. /\ sendq["mcast"] \in Seq(Work) /\ flight[s] \in Seq(Page) /\ cq[s] \in Seq(Completion)
    BY <2>1, <2>3 DEF WireTypes, FarTypeOK, Qps
  <2>5. \A i \in DOMAIN sendq["mcast"] : WhatOf[sendq["mcast"][i]].off # o
    <3>1. \A i \in DOMAIN sendq["mcast"] :
             sendq["mcast"][i] \in Work /\ sendq["mcast"][i].what.off \in checkList
      BY <2>2, <2>4, ElemsOfSeq DEF Listing, Elems
    <3>2. \A w \in Work : WhatOf[w] = w.what
      BY DEF WhatOf
    <3>3. QED
      BY <2>2, <3>1, <3>2
  <2>6. \A i \in DOMAIN flight[s] : PageOf[flight[s][i]].off # o
    <3>1. \A i \in DOMAIN flight[s] : flight[s][i] \in Page /\ flight[s][i].off \in checkList
      BY <2>2, <2>4, ElemsOfSeq DEF Listing, Elems
    <3>2. \A x \in Page : PageOf[x] = x
      BY DEF PageOf
    <3>3. QED
      BY <2>2, <3>1, <3>2
  <2>7. \A i \in DOMAIN cq[s] : HeldAt(s)[cq[s][i]].off # o
    <3>1. \A i \in DOMAIN cq[s] : /\ cq[s][i] \in Completion /\ cq[s][i].off \in checkList
                                  /\ cq[s][i] \in Elems(cq[s])
      BY <2>2, <2>4, ElemsOfSeq DEF Listing, Elems
    <3>2. \A w \in Completion : HeldAt(s)[w] = data[s][w.buf]
      BY DEF HeldAt
    <3>3. \A w \in Elems(cq[s]) : data[s][w.buf].off = w.off
      BY <2>3 DEF BuffersHoldPages
    <3>4. QED
      BY <2>2, <3>1, <3>2, <3>3
  <2> DEFINE x == InFlight(s, p)  y == Arriving(s, p)  z == AtFlow(s, p)
  <2>8. x \in BOOLEAN /\ y \in BOOLEAN /\ z \in BOOLEAN
    BY LatestIsBool
  <2>9. /\ Latest(sendq["mcast"], WhatOf, o, p, x)
        /\ x => Latest(flight[s], PageOf, o, p, y)
        /\ y => Latest(cq[s], HeldAt(s), o, p, z)
    BY <1>0, <2>2 DEF Newest, InFlight, Arriving
  <2> HIDE DEF x, y, z
  <2>10. x
    BY <1>0, <2>5, <2>8, <2>9, LatestNone
  <2>11. y
    BY <1>0, <2>6, <2>8, <2>9, <2>10, LatestNone
  <2>12. z
    BY <1>0, <2>7, <2>8, <2>9, <2>11, LatestNone
  <2>13. ~(flow[s] # None /\ flow[s].off = o)
    BY <2>2 DEF Listing
  <2>14. Has(s, p)
    BY <1>0, <2>12, <2>13 DEF AtFlow, z
  <2>15. QED
    BY <1>0, <2>14 DEF Has, p, s, o
<1>5. QED
  BY <1>3, <1>4

\* A queue pair gives a load its page, or shows nothing.
LEMMA WorkSeen ==
    ASSUME AltTypes, OneEach, AgreeInv, CallInv, CibInv, IbInv, NEW q \in Qps, Executes(q)
    PROVE  AltStore!Vouch \/ \E c \in Cpus : AltStore!LoadGets(c)
<1>0. FramesOK /\ WireTypes /\ FarTypeOK /\ UNCHANGED kernelVars
  BY WorkStays DEF AltTypes, ServerInv
<1>1. CASE frame' = frame
  BY <1>0, <1>1, StepUnseen
<1>2. CASE frame' # frame
  <2> DEFINE w == Head(sendq[q])  d == mem[q][w.what.off]
  <2>1. q \in Servers /\ ReadsPage(q)
    BY <1>2 DEF Executes, SendsPage, WorkFails, SendsCall, WritesPage
  <2>2. Completes(q, {"read"}, TRUE) /\ UNCHANGED serverVars /\ w.cpu # None
        /\ frame' = [frame EXCEPT ![w.cpu].got = d]
    BY <1>2, <2>1 DEF ReadsPage
  <2>3. sendq[q] \in Seq(Work) /\ sendq[q] # <<>> /\ w.op = "read"
    BY <1>0, <2>2 DEF WireTypes, Completes
  <2>4. w \in Elems(sendq[q]) /\ w \in Work
    BY <2>3, HeadAndTail
  <2> HIDE DEF w
  <2>5. w.cpu \in Cpus /\ w.what \in Page
    BY <2>2, <2>3, <2>4 DEF Work
  <2>6. PICK c \in Cpus : c = w.cpu
    BY <2>5
  <2>7. At(c, "read") /\ frame[c].ctrl = q /\ ~At(c, "idle") /\ frame[c].op = "load"
    <3>1. At(c, "read") /\ frame[c].ctrl = q
      BY <2>2, <2>3, <2>4, <2>6 DEF CallInv, ReadsOwned
    <3>2. QED
      BY <1>0, <2>5, <3>1 DEF FramesOK, FrameOK, At
  <2>8. Answerable' = Answerable
    <3>1. loaded' = loaded /\ failed' = failed /\ blurred' = blurred /\ early' = early
      <4>1. failed \in BOOLEAN
        BY DEF AltTypes, CtrlTypes
      <4>2. QED
        BY <2>2, <4>1 DEF Completes, serverVars, historyVars
    <3>2. QED
      BY <3>1 DEF Answerable
  <2>9. d \in Content
    BY <1>0, <2>1, <2>5 DEF FarTypeOK, Page
  <2>10. frame[c].page.off \in Answerable => d = frame[c].page
    <3> SUFFICES ASSUME frame[c].page.off \in Answerable PROVE d = frame[c].page
      OBVIOUS
    <3>1. Vouches
      BY DEF Answerable, Vouches
    <3>2. w = WorkOf(c)
      BY <2>4, <2>6, <3>1 DEF AgreeInv, Agreed, Matched, Vouches
    <3>3. w.what = frame[c].page
      BY <2>7, <3>2 DEF WorkOf, At
    <3>4. mem[q][frame[c].page.off] = frame[c].page
      BY <2>5, <2>7, <3>1, ReadFinds
    <3>5. QED
      BY <3>3, <3>4
  <2> DEFINE k == [AltCalls EXCEPT ![c].got = d]
  <2>11. AltCalls' = k
    <3> HIDE DEF d
    <3>1. OthersKept(c)
      BY <1>0, <2>2, <2>6 DEF OthersKept, FramesOK
    <3>2. /\ frame'[c].pc = frame[c].pc /\ frame'[c].op = frame[c].op
          /\ frame'[c].page = frame[c].page /\ frame'[c].got = d
      BY <1>0, <2>2, <2>6 DEF FramesOK, Frame
    <3>3. AltCall(c)' = [op |-> frame[c].op, page |-> frame[c].page, got |-> d]
      BY <2>7, <3>2 DEF AltCall, At
    <3>4. AltCalls[c] = [op |-> frame[c].op, page |-> frame[c].page, got |-> frame[c].got]
      BY <1>0, <2>5, <2>7, CallIs
    <3>5. [AltCalls[c] EXCEPT !.got = d] = AltCall(c)'
      BY <3>3, <3>4
    <3>6. AltCalls' = [AltCalls EXCEPT ![c] = AltCall(c)']
      BY <2>5, <3>1, OneCallChanges
    <3>7. QED
      BY <3>5, <3>6
  <2>12. AltStore!LoadGets(c)
    <3>1. AltCalls[c] # None /\ AltCalls[c].op = "load" /\ AltCalls[c].page = frame[c].page
      BY <1>0, <2>5, <2>7, CallIs
    <3> HIDE DEF d
    <3>2. \E e \in IF AltCalls[c].page.off \in Answerable THEN {AltCalls[c].page} ELSE Content :
             AltCalls' = [AltCalls EXCEPT ![c].got = e]
      BY <2>9, <2>10, <2>11, <3>1
    <3>3. QED
      BY <1>0, <2>8, <3>1, <3>2 DEF AltStore!LoadGets, AltStore!Content, AltStore!Page,
              Content, Page, kernelVars
  <2>13. QED
    BY <2>5, <2>12
<1>3. QED
  BY <1>1, <1>2

LEMMA CpuSeen ==
    ASSUME AltTypes, PathsOK, NEW c \in Cpus, CpuStep(c)
    PROVE  AltStore!StoreNext
<1>0. FramesOK
  BY DEF AltTypes
<1>1. CASE KernelCalls(c)
  BY <1>1, BeginsSeen DEF AltStore!StoreNext
<1>2. CASE PollsDone(c)
  <2>1. UNCHANGED kernelVars
    BY <1>2 DEF PollsDone
  <2>2. AltStore!Vouch
    BY <1>0, <1>2, <2>1, PolledFields, StepUnseen
  <2>3. QED
    BY <2>2 DEF AltStore!StoreNext
<1>3. CASE UNCHANGED kernelVars /\ frame' = frame
  BY <1>3, StepUnseen DEF AltStore!StoreNext
<1>4. CASE Within(c)
  <2>1. frame[c].pc # "idle" /\ frame'[c].pc # "idle"
    BY <1>4 DEF Within, Onward, At, CommitPcs
  <2>2. AltStore!Vouch
    BY <1>4, <2>1, StepUnseen DEF Within, OthersKept, SameArgs
  <2>3. QED
    BY <2>2 DEF AltStore!StoreNext
<1>5. CASE Over(c)
  BY <1>5, EndSeen DEF AltStore!StoreNext
<1>6. QED
  BY <1>0, <1>1, <1>2, <1>3, <1>4, <1>5, CpuTurns

KeepInv == AgreeInv /\ SentInv /\ CallInv /\ CibInv /\ IbInv

LEMMA KeepInvInit == AltInit => KeepInv
<1> SUFFICES ASSUME AltInit PROVE SentInv
  BY AgreeInit, CallInvInit, CibInvInit, IbInvInit DEF KeepInv
<1>1. \A c \in Cpus : frame[c].pc = "idle"
  BY DEF AltInit, IdleFrame
<1>2. QED
  BY <1>1, AltTypesInit DEF AltInit, SentInv, OneEach, ReadsMarked, At

LEMMA KeepInvStep == KeepInv /\ [AltNext]_altVars => KeepInv'
<1> SUFFICES ASSUME KeepInv, [AltNext]_altVars PROVE KeepInv'
  OBVIOUS
<1>1. AgreeInv' /\ SentInv' /\ AltTypes /\ OneEach
  BY AgreeStep, SentStep DEF KeepInv, SentInv
<1>2. CallInv'
  BY <1>1, CallInvStep DEF KeepInv
<1>3. CibInv' /\ IbInv'
  BY <1>1, <1>2, CibInvStep, IbInvStep DEF KeepInv
<1>4. QED
  BY <1>1, <1>2, <1>3 DEF KeepInv

LEMMA StoreStarted == AltInit => AltStore!StoreInit
<1> SUFFICES ASSUME AltInit PROVE AltStore!StoreInit
  OBVIOUS
<1>1. \A c \in Cpus : frame[c].pc = "idle"
  BY DEF AltInit, IdleFrame
<1>2. AltCalls = [c \in Cpus |-> None]
  BY <1>1 DEF AltCalls, AltCall, At
<1>3. QED
  BY <1>2, AnswerableIs DEF AltInit, AltStore!StoreInit

LEMMA StoreSteps == KeepInv /\ [AltNext]_altVars => [AltStore!StoreNext]_(AltStore!storeVars)
<1> SUFFICES ASSUME KeepInv, [AltNext]_altVars PROVE AltStore!StoreNext
  OBVIOUS
<1>0. AltTypes /\ OneEach /\ AgreeInv /\ CallInv /\ PathsOK /\ CibInv /\ IbInv
  BY DEF KeepInv, SentInv, CallInv
<1>1. ASSUME NEW c \in Cpus, CpuStep(c) PROVE AltStore!StoreNext
  BY <1>0, <1>1, CpuSeen
<1>2. ASSUME NEW q \in Qps, Executes(q) PROVE AltStore!StoreNext
  BY <1>0, <1>2, WorkSeen DEF AltStore!StoreNext
<1>3. ASSUME UNCHANGED <<frame, kernelVars>> PROVE AltStore!StoreNext
  BY <1>3, StepUnseen DEF AltStore!StoreNext
<1>4. ASSUME NEW s \in Servers, Deliver(s) \/ ServerRuns(s) PROVE AltStore!StoreNext
  BY <1>3, <1>4 DEF Deliver, ServerRuns
<1>5. CASE UNCHANGED altVars
  BY <1>3, <1>5 DEF altVars
<1>6. QED
  BY <1>1, <1>2, <1>4, <1>5 DEF AltNext

\* Both drivers the build leaves out implement the frontswap backend (drive/ib.c,
\* drive/cib.c: maruswap_multicast_write, maruswap_rdma_read): while no send fails, and
\* for ib no commit is blurred or early, a load gets the page of the last store.
THEOREM AltDriversRefineStore == AltSpec => AltDriversImplementStore
<1>1. AltInit => KeepInv
  BY KeepInvInit
<1>2. KeepInv /\ [AltNext]_altVars => KeepInv'
  BY KeepInvStep
<1>3. AltInit => AltStore!StoreInit
  BY StoreStarted
<1>4. KeepInv /\ [AltNext]_altVars => [AltStore!StoreNext]_(AltStore!storeVars)
  BY StoreSteps
<1>5. QED
  BY <1>1, <1>2, <1>3, <1>4, PTL DEF AltSpec, AltDriversImplementStore, AltStore!StoreSpec

=============================================================================
