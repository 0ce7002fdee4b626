-------------------------- MODULE SwapDriver_proofs --------------------------
(***************************************************************************)
(* Proofs about the driver, for any number of CPUs, servers, offsets and   *)
(* stores, any batch size, and any set of faults.                          *)
(***************************************************************************)
EXTENDS SwapDriver, FiniteSetTheorems, SequenceTheorems, TLAPS

USE DEF BatchFull, stage_buffer_clear, stage_buffer_count_reset

LEMMA SlotFacts ==
    /\ 0 \in Slots
    /\ Slots \subseteq Nat
    /\ \A i \in Slots : NextSlot(i) = IF i + 1 < DRIVER_BATCH THEN i + 1 ELSE 0
    /\ \A i \in Slots : NextSlot(i) \in Slots
BY DriverBatchAssumption DEF Slots, NextSlot

LEMMA TypeInit == DriverInit => DriverTypeOK
<1> SUFFICES ASSUME DriverInit PROVE DriverTypeOK
  OBVIOUS
<1>1. <<>> \in Seq(Servers)
  OBVIOUS
<1>2. todo \in [Cpus -> Seq(Servers)]
  BY <1>1 DEF DriverInit
<1>3. stored \in [Offsets -> 0 .. MaxStores] /\ stores \in 0 .. MaxStores
  BY MaxStoresAssumption DEF DriverInit
<1>4. pc \in [Cpus -> StorePcs \cup LoadPcs \cup {"idle"}]
  BY DEF DriverInit
<1>5. /\ arg \in [Cpus -> Content] /\ got \in [Cpus -> Content] /\ slot \in [Slots -> Content]
      /\ \A c \in Cpus : arg[c] = None <=> pc[c] = "idle"
  BY DEF DriverInit, Content
<1>6. QED
  BY <1>2, <1>3, <1>4, <1>5, SlotFacts DEF DriverInit, DriverTypeOK

\* What a call leaves behind when it returns.
CallsOK ==
    /\ pc \in [Cpus -> StorePcs \cup LoadPcs \cup {"idle"}]
    /\ arg \in [Cpus -> Content]
    /\ \A c \in Cpus : arg[c] = None <=> pc[c] = "idle"
    /\ todo \in [Cpus -> Seq(Servers)]
    /\ err \in [Cpus -> BOOLEAN]
    /\ ptr \in [Cpus -> Slots \cup {None}]
    /\ tmp \in [Cpus -> Nat]
    /\ got \in [Cpus -> Content]

LEMMA ReturnType ==
    ASSUME DriverTypeOK, NEW c \in Cpus, Return(c)
    PROVE  CallsOK'
BY DEF DriverTypeOK, CallsOK, Return, Goto, Content

LEMMA StoreResultType ==
    ASSUME DriverTypeOK, NEW c \in Cpus, pc[c] # "idle", NEW ok \in BOOLEAN,
           StoreResult(c, ok)
    PROVE  CallsOK' /\ stored' \in [Offsets -> 0 .. MaxStores] /\ stores' = stores
<1>1. arg[c] \in Page
  BY DEF DriverTypeOK, Content
<1>2. arg[c].ver \in 0 .. MaxStores /\ arg[c].off \in Offsets
  BY <1>1, MaxStoresAssumption DEF Page
<1>3. (IF ok THEN arg[c].ver ELSE 0) \in 0 .. MaxStores
  BY <1>2, MaxStoresAssumption
<1>4. QED
  BY <1>2, <1>3, ReturnType DEF StoreResult, DriverTypeOK

----------------------------------------------------------------------------
(* The steps of DriverNext, in the groups the proofs below treat alike.  A *)
(* server may answer a read with anything: the proofs hold for the driver  *)
(* by itself and for the one of Maruswap.tla.                              *)

Kernel(c) == \E o \in Offsets : StoreBegin(c, o) \/ StoreUnmapped(c, o) \/ LoadBegin(c, o)

RpcStep(c) ==
    \E s \in Servers :
      \/ OpenSkip(c, s) \/ OpenCall(c, s) \/ CommitCall(c, s)
      \/ \E ok \in BOOLEAN : OpenReturn(c, s, ok) \/ CommitReturn(c, s, ok)

SendFails(c) == PostFails(c) \/ \E ok \in BOOLEAN : PollSend(c, ok)

LoadStep(c) ==
    \/ StageHit(c) \/ StageMiss(c) \/ ReadHangs(c)
    \/ \E s \in Servers, d \in Content : RdmaRead(c, s, d)

LoadReturns(c) == LoadDone(c) \/ \E s \in Servers : ReadFails(c, s)

DriverStep(c) ==
    \/ Kernel(c) \/ EnterWrite(c) \/ OpenFailed(c) \/ OpenDone(c) \/ CheckBatch(c)
    \/ RpcStep(c) \/ ClearStage(c) \/ ResetCount(c) \/ Reserve(c) \/ Post(c)
    \/ StageFull(c) \/ StageStore(c) \/ StageUnlocks(c) \/ StageRetakes(c)
    \/ CountLoad(c) \/ CountStore(c) \/ SendFails(c) \/ LoadStep(c) \/ LoadReturns(c)

AnyDriverStep == (\E c \in Cpus : DriverStep(c)) \/ UNCHANGED driverVars

LEMMA LocalCases ==
    ASSUME NEW c \in Cpus, LocalStep(c)
    PROVE  DriverStep(c)
<1>1. Outcomes("send") \subseteq BOOLEAN
  BY DEF Outcomes
<1>2. QED
  BY <1>1, Zenon DEF LocalStep, DriverStep, Kernel, RpcStep, SendFails, LoadStep, LoadReturns

LEMMA StepCases == DriverTypeOK /\ [DriverNext]_driverVars => AnyDriverStep
<1> SUFFICES ASSUME DriverTypeOK, [DriverNext]_driverVars PROVE AnyDriverStep
  OBVIOUS
<1>1. ASSUME NEW c \in Cpus, NEW s \in Servers, pc[c] = "read",
             NEW d \in PastContent(arg[c].off), RdmaRead(c, s, d)
      PROVE  LoadStep(c)
  <2>1. arg[c] \in Page
    BY <1>1 DEF DriverTypeOK, Content
  <2>2. d \in Content
    BY <2>1, MaxStoresAssumption DEF PastContent, Content, Page, DriverTypeOK
  <2>3. QED
    BY <1>1, <2>2 DEF LoadStep
<1>2. ASSUME NEW c \in Cpus, RemoteStep(c) PROVE DriverStep(c)
  <2>1. Outcomes("rpc") \subseteq BOOLEAN
    BY DEF Outcomes
  <2>2. QED
    BY <1>1, <1>2, <2>1, Zenon DEF RemoteStep, DriverStep, RpcStep
<1>3. QED
  BY <1>2, LocalCases DEF DriverNext, DriverDone, AnyDriverStep

LEMMA TypeStep == DriverTypeOK /\ AnyDriverStep => DriverTypeOK'
<1> SUFFICES ASSUME DriverTypeOK, AnyDriverStep PROVE DriverTypeOK'
  OBVIOUS
<1> USE DEF DriverTypeOK, lockVars, stageVars, callVars, swapVars, StorePcs, LoadPcs
<1>1. ASSUME NEW c \in Cpus, NEW o \in Offsets, StoreBegin(c, o) PROVE DriverTypeOK'
  <2>1. stores + 1 \in 1 .. MaxStores /\ stores' \in 0 .. MaxStores
    BY <1>1, MaxStoresAssumption DEF StoreBegin
  <2>2. [off |-> o, ver |-> stores + 1] \in Content /\ [off |-> o, ver |-> stores + 1] # None
    BY <2>1, NoneAssumption DEF Content, Page
  <2>3. QED
    BY <1>1, <2>1, <2>2 DEF StoreBegin, Goto
<1>2. ASSUME NEW c \in Cpus, NEW o \in Offsets, StoreUnmapped(c, o) PROVE DriverTypeOK'
  BY <1>2, MaxStoresAssumption DEF StoreUnmapped
<1>3. ASSUME NEW c \in Cpus, NEW o \in Offsets, LoadBegin(c, o) PROVE DriverTypeOK'
  <2>1. stored[o] \in 1 .. MaxStores
    BY <1>3, MaxStoresAssumption DEF LoadBegin
  <2>2. [off |-> o, ver |-> stored[o]] \in Content /\ [off |-> o, ver |-> stored[o]] # None
    BY <2>1, NoneAssumption DEF Content, Page
  <2>3. QED
    BY <1>3, <2>2 DEF LoadBegin, Goto
<1>4. ASSUME NEW c \in Cpus, EnterWrite(c) PROVE DriverTypeOK'
  BY <1>4, AliveOrderAssumption DEF EnterWrite, Goto
<1>5. ASSUME NEW c \in Cpus, OpenFailed(c) PROVE DriverTypeOK'
  <2>1. CallsOK' /\ stored' \in [Offsets -> 0 .. MaxStores] /\ stores' = stores
    BY <1>5, StoreResultType DEF OpenFailed
  <2>2. QED
    BY <1>5, <2>1 DEF OpenFailed, CallsOK
<1>6. ASSUME NEW c \in Cpus, OpenDone(c) PROVE DriverTypeOK'
  BY <1>6 DEF OpenDone, Goto
<1>7. ASSUME NEW c \in Cpus, NEW s \in Servers, OpenSkip(c, s) PROVE DriverTypeOK'
  BY <1>7 DEF OpenSkip, NextServer
<1>8. ASSUME NEW c \in Cpus, NEW s \in Servers, ReadFails(c, s) PROVE DriverTypeOK'
  BY <1>8, ReturnType DEF ReadFails, CallsOK
<1>9. ASSUME NEW c \in Cpus, CheckBatch(c) PROVE DriverTypeOK'
  BY <1>9, AliveOrderAssumption DEF CheckBatch, Goto
<1>10. ASSUME NEW c \in Cpus, ClearStage(c) PROVE DriverTypeOK'
  <2>1. late' \in Nat
    BY <1>10, CpusAssumption, FS_Subset, FS_CardinalityType DEF ClearStage
  <2>2. QED
    BY <1>10, <2>1 DEF ClearStage, Goto
<1>11. ASSUME NEW c \in Cpus, ResetCount(c) PROVE DriverTypeOK'
  <2>1. CASE err[c]
    <3>1. CallsOK' /\ stored' \in [Offsets -> 0 .. MaxStores] /\ stores' = stores
      BY <1>11, <2>1, StoreResultType DEF ResetCount
    <3>2. QED
      BY <1>11, <2>1, <3>1 DEF ResetCount, CallsOK
  <2>2. CASE ~err[c]
    BY <1>11, <2>2 DEF ResetCount, Goto
  <2>3. QED
    BY <2>1, <2>2
<1>12. ASSUME NEW c \in Cpus, Reserve(c) PROVE DriverTypeOK'
  BY <1>12 DEF Reserve, Goto
<1>13. ASSUME NEW c \in Cpus, PostFails(c) PROVE DriverTypeOK'
  <2>1. CallsOK' /\ stored' \in [Offsets -> 0 .. MaxStores] /\ stores' = stores
    BY <1>13, StoreResultType DEF PostFails
  <2>2. QED
    BY <1>13, <2>1 DEF PostFails, CallsOK
<1>14. ASSUME NEW c \in Cpus, StageFull(c) PROVE DriverTypeOK'
  BY <1>14 DEF StageFull, Goto, Content, Page
<1>15. ASSUME NEW c \in Cpus, StageStore(c) PROVE DriverTypeOK'
  BY <1>15, SlotFacts DEF StageStore, TakeSlot, Goto, Content, Page
<1>16. ASSUME NEW c \in Cpus, StageUnlocks(c) PROVE DriverTypeOK'
  BY <1>16, SlotFacts DEF StageUnlocks, TakeSlot, Goto
<1>17. ASSUME NEW c \in Cpus, StageRetakes(c) PROVE DriverTypeOK'
  BY <1>17 DEF StageRetakes, Goto, Content, Page
<1>18. ASSUME NEW c \in Cpus, CountLoad(c) PROVE DriverTypeOK'
  BY <1>18 DEF CountLoad, Goto
<1>19. ASSUME NEW c \in Cpus, CountStore(c) PROVE DriverTypeOK'
  BY <1>19 DEF CountStore, Goto
<1>20. ASSUME NEW c \in Cpus, NEW ok \in BOOLEAN, PollSend(c, ok) PROVE DriverTypeOK'
  <2>1. CallsOK' /\ stored' \in [Offsets -> 0 .. MaxStores] /\ stores' = stores
    BY <1>20, StoreResultType DEF PollSend
  <2>2. QED
    BY <1>20, <2>1 DEF PollSend, CallsOK
<1>21. ASSUME NEW c \in Cpus, StageHit(c) PROVE DriverTypeOK'
  BY <1>21 DEF StageHit, Goto, Content, Page
<1>22. ASSUME NEW c \in Cpus, StageMiss(c) PROVE DriverTypeOK'
  BY <1>22 DEF StageMiss, Goto
<1>23. ASSUME NEW c \in Cpus, LoadDone(c) PROVE DriverTypeOK'
  BY <1>23, ReturnType DEF LoadDone, CallsOK
<1>24. ASSUME NEW c \in Cpus, Post(c) PROVE DriverTypeOK'
  BY <1>24 DEF Post, Goto
<1>25. ASSUME NEW c \in Cpus, NEW s \in Servers, OpenCall(c, s) \/ CommitCall(c, s)
       PROVE  DriverTypeOK'
  BY <1>25 DEF OpenCall, CommitCall, Goto
<1>26. ASSUME NEW c \in Cpus, NEW s \in Servers, NEW ok \in BOOLEAN, OpenReturn(c, s, ok)
       PROVE  DriverTypeOK'
  BY <1>26, BlockOfAssumption DEF OpenReturn, NextServer, Goto, Content, Page
<1>27. ASSUME NEW c \in Cpus, NEW s \in Servers, NEW ok \in BOOLEAN, CommitReturn(c, s, ok)
       PROVE  DriverTypeOK'
  BY <1>27 DEF CommitReturn, NextServer, Goto
<1>28. ASSUME NEW c \in Cpus, NEW s \in Servers, NEW d \in Content, RdmaRead(c, s, d)
       PROVE  DriverTypeOK'
  BY <1>28 DEF RdmaRead, Goto
<1>29. ASSUME UNCHANGED driverVars PROVE DriverTypeOK'
  BY <1>29 DEF driverVars
<1>30. ASSUME NEW c \in Cpus, ReadHangs(c) PROVE DriverTypeOK'
  BY <1>30 DEF ReadHangs, Goto
<1>31. QED
  BY <1>1, <1>2, <1>3, <1>4, <1>5, <1>6, <1>7, <1>8, <1>9, <1>10, <1>11, <1>12, <1>13,
     <1>14, <1>15, <1>16, <1>17, <1>18, <1>19, <1>20, <1>21, <1>22, <1>23, <1>24, <1>25,
     <1>26, <1>27, <1>28, <1>29, <1>30
     DEF AnyDriverStep, DriverStep, Kernel, RpcStep, SendFails, LoadStep, LoadReturns

----------------------------------------------------------------------------
(* Each part of the inductive invariant is kept. *)

LEMMA LocksStep ==
    DriverTypeOK /\ LocksHeld /\ AnyDriverStep => LocksHeld'
<1> SUFFICES ASSUME DriverTypeOK, LocksHeld, AnyDriverStep PROVE LocksHeld'
  OBVIOUS
<1> USE CpusAssumption
        DEF DriverTypeOK, LocksHeld, lockVars, stageVars, SpinPcs, XaPcs, Goto
<1>1. ASSUME NEW c \in Cpus, Kernel(c) PROVE LocksHeld'
  BY <1>1 DEF Kernel, StoreBegin, StoreUnmapped, LoadBegin, callVars
<1>2. ASSUME NEW c \in Cpus, EnterWrite(c) PROVE LocksHeld'
  BY <1>2 DEF EnterWrite
<1>3. ASSUME NEW c \in Cpus, OpenFailed(c) PROVE LocksHeld'
  BY <1>3 DEF OpenFailed, StoreResult, Return
<1>4. ASSUME NEW c \in Cpus, OpenDone(c) \/ CheckBatch(c) PROVE LocksHeld'
  BY <1>4 DEF OpenDone, CheckBatch
<1>5. ASSUME NEW c \in Cpus, RpcStep(c) PROVE LocksHeld'
  BY <1>5 DEF RpcStep, OpenSkip, OpenCall, CommitCall, OpenReturn, CommitReturn
<1>6. ASSUME NEW c \in Cpus, ClearStage(c) PROVE LocksHeld'
  BY <1>6 DEF ClearStage
<1>7. ASSUME NEW c \in Cpus, ResetCount(c) PROVE LocksHeld'
  <2>1. /\ pc[c] = "reset" /\ spin = c /\ xa' = xa
        /\ \/ spin' = spin /\ pc' = [pc EXCEPT ![c] = "reserve"]
           \/ spin' = None /\ pc' = [pc EXCEPT ![c] = "idle"]
    BY <1>7 DEF ResetCount, StoreResult, Return
  <2>2. QED
    BY <2>1
<1>8. ASSUME NEW c \in Cpus, Reserve(c) PROVE LocksHeld'
  BY <1>8 DEF Reserve
<1>9. ASSUME NEW c \in Cpus, Post(c) \/ StageFull(c) \/ StageUnlocks(c) PROVE LocksHeld'
  BY <1>9 DEF Post, StageFull, StageUnlocks, TakeSlot
<1>10. ASSUME NEW c \in Cpus, StageStore(c) \/ StageRetakes(c) PROVE LocksHeld'
  BY <1>10 DEF StageStore, TakeSlot, StageRetakes
<1>11. ASSUME NEW c \in Cpus, CountLoad(c) PROVE LocksHeld'
  BY <1>11 DEF CountLoad
<1>12. ASSUME NEW c \in Cpus, CountStore(c) PROVE LocksHeld'
  <2>1. xa = c /\ xa' = None /\ spin' = spin /\ pc' = [pc EXCEPT ![c] = "poll"]
    BY <1>12 DEF CountStore
  <2>2. QED
    BY <2>1
<1>13. ASSUME NEW c \in Cpus, SendFails(c) PROVE LocksHeld'
  BY <1>13 DEF SendFails, PostFails, PollSend, StoreResult, Return
<1>14. ASSUME NEW c \in Cpus, LoadStep(c) PROVE LocksHeld'
  BY <1>14 DEF LoadStep, StageHit, StageMiss, ReadHangs, RdmaRead
<1>15. ASSUME NEW c \in Cpus, LoadReturns(c) PROVE LocksHeld'
  BY <1>15 DEF LoadReturns, ReadFails, LoadDone, Return
<1>16. ASSUME UNCHANGED driverVars PROVE LocksHeld'
  BY <1>16 DEF driverVars, callVars
<1>17. QED
  BY <1>1, <1>2, <1>3, <1>4, <1>5, <1>6, <1>7, <1>8, <1>9, <1>10, <1>11, <1>12, <1>13,
     <1>14, <1>15, <1>16 DEF AnyDriverStep, DriverStep

LEMMA RoomStep ==
    DriverTypeOK /\ LocksHeld /\ RoomInBatch /\ AnyDriverStep => RoomInBatch'
<1> SUFFICES ASSUME DriverTypeOK, LocksHeld, RoomInBatch, AnyDriverStep
             PROVE  RoomInBatch'
  OBVIOUS
<1> USE DriverBatchAssumption DEF DriverTypeOK, RoomInBatch, BatchBound, lockVars, Goto
<1>1. ASSUME NEW c \in Cpus, CheckBatch(c) PROVE RoomInBatch'
  BY <1>1 DEF CheckBatch
<1>2. ASSUME NEW c \in Cpus, ClearStage(c) PROVE RoomInBatch'
  BY <1>2 DEF ClearStage
<1>3. ASSUME NEW c \in Cpus, ResetCount(c) PROVE RoomInBatch'
  <2>1. /\ batch = 0 /\ batch' = batch
        /\ \/ pc' = [pc EXCEPT ![c] = "reserve"]
           \/ pc' = [pc EXCEPT ![c] = "idle"]
    BY <1>3 DEF ResetCount, StoreResult, Return
  <2>2. QED
    BY <2>1
<1>4. ASSUME NEW c \in Cpus, Reserve(c) PROVE RoomInBatch'
  <2>1. \A d \in Cpus : d # c => pc[d] \notin {"reset", "reserve"}
    BY <1>4 DEF Reserve, LocksHeld, SpinPcs
  <2>2. QED
    BY <1>4, <2>1 DEF Reserve
<1>5. ASSUME batch' = batch,
             \A d \in Cpus : pc'[d] \in {"reset", "reserve"} => pc'[d] = pc[d]
      PROVE  RoomInBatch'
  BY <1>5
<1>6. ASSUME NEW c \in Cpus,
             \/ Kernel(c) \/ EnterWrite(c) \/ OpenDone(c) \/ Post(c) \/ StageFull(c)
             \/ StageUnlocks(c) \/ StageStore(c) \/ StageRetakes(c) \/ CountLoad(c)
             \/ CountStore(c) \/ LoadStep(c)
      PROVE  RoomInBatch'
  BY <1>5, <1>6
     DEF Kernel, StoreBegin, StoreUnmapped, LoadBegin, callVars, EnterWrite, OpenDone, Post,
         StageFull, StageUnlocks, StageStore, TakeSlot, StageRetakes, CountLoad, CountStore,
         LoadStep, StageHit, StageMiss, ReadHangs, RdmaRead
<1>7. ASSUME NEW c \in Cpus, RpcStep(c) PROVE RoomInBatch'
  BY <1>5, <1>7 DEF RpcStep, OpenSkip, OpenCall, CommitCall, OpenReturn, CommitReturn
<1>8. ASSUME NEW c \in Cpus, OpenFailed(c) \/ SendFails(c) \/ LoadReturns(c)
      PROVE  RoomInBatch'
  BY <1>5, <1>8 DEF OpenFailed, SendFails, PostFails, PollSend, StoreResult, LoadReturns,
                    ReadFails, LoadDone, Return
<1>9. ASSUME UNCHANGED driverVars PROVE RoomInBatch'
  BY <1>5, <1>9 DEF driverVars, callVars
<1>10. QED
  BY <1>1, <1>2, <1>3, <1>4, <1>6, <1>7, <1>8, <1>9 DEF AnyDriverStep, DriverStep

LEMMA OneCallStep ==
    DriverTypeOK /\ OneCallPerOffset /\ AnyDriverStep => OneCallPerOffset'
<1> SUFFICES ASSUME DriverTypeOK, OneCallPerOffset, AnyDriverStep
             PROVE  OneCallPerOffset'
  OBVIOUS
<1> USE DEF DriverTypeOK, OneCallPerOffset, Goto
<1>1. ASSUME NEW c \in Cpus, Kernel(c) PROVE OneCallPerOffset'
  <2>1. CASE \E o \in Offsets : StoreUnmapped(c, o)
    BY <2>1 DEF StoreUnmapped, callVars
  <2>2. ASSUME NEW o \in Offsets, StoreBegin(c, o) \/ LoadBegin(c, o)
        PROVE  OneCallPerOffset'
    <3>1. /\ ~Busy(o)
          /\ \E v : arg' = [arg EXCEPT ![c] = [off |-> o, ver |-> v]]
          /\ \E l : pc' = [pc EXCEPT ![c] = l]
      BY <2>2 DEF StoreBegin, LoadBegin
    <3>2. \A d \in Cpus : d # c => arg'[d] = arg[d] /\ pc'[d] = pc[d]
      BY <3>1
    <3>3. arg'[c].off = o
      BY <3>1
    <3>4. QED
      BY <3>1, <3>2, <3>3 DEF Busy
  <2>3. QED
    BY <1>1, <2>1, <2>2 DEF Kernel
<1>2. ASSUME NEW c \in Cpus, pc[c] # "idle", arg' = arg,
             \A d \in Cpus : d # c => pc'[d] = pc[d]
      PROVE  OneCallPerOffset'
  BY <1>2
<1>3. ASSUME NEW c \in Cpus, Return(c) PROVE OneCallPerOffset'
  BY <1>3 DEF Return
<1>4. ASSUME NEW c \in Cpus,
             \/ EnterWrite(c) \/ OpenDone(c) \/ CheckBatch(c) \/ ClearStage(c)
             \/ Reserve(c) \/ Post(c) \/ StageFull(c) \/ StageUnlocks(c) \/ StageStore(c)
             \/ StageRetakes(c) \/ CountLoad(c) \/ CountStore(c) \/ LoadStep(c)
      PROVE  OneCallPerOffset'
  BY <1>2, <1>4
     DEF EnterWrite, OpenDone, CheckBatch, ClearStage, Reserve, Post, StageFull,
         StageUnlocks, StageStore, TakeSlot, StageRetakes, CountLoad, CountStore,
         LoadStep, StageHit, StageMiss, ReadHangs, RdmaRead
<1>5. ASSUME NEW c \in Cpus, RpcStep(c) PROVE OneCallPerOffset'
  BY <1>2, <1>5 DEF RpcStep, OpenSkip, OpenCall, CommitCall, OpenReturn, CommitReturn
<1>6. ASSUME NEW c \in Cpus, ResetCount(c) PROVE OneCallPerOffset'
  BY <1>2, <1>3, <1>6 DEF ResetCount, StoreResult
<1>7. ASSUME NEW c \in Cpus, OpenFailed(c) \/ SendFails(c) \/ LoadReturns(c)
      PROVE  OneCallPerOffset'
  BY <1>3, <1>7 DEF OpenFailed, SendFails, PostFails, PollSend, StoreResult, LoadReturns,
                    ReadFails, LoadDone
<1>8. ASSUME UNCHANGED driverVars PROVE OneCallPerOffset'
  BY <1>8 DEF driverVars, callVars
<1>9. QED
  BY <1>1, <1>4, <1>5, <1>6, <1>7, <1>8 DEF AnyDriverStep, DriverStep

\* Taking a slot makes it the youngest and every other slot older by one; the
\* slot taken was the oldest.
LEMMA AgeFacts ==
    ASSUME DriverTypeOK, NEW i \in Slots
    PROVE  /\ Age(i) \in Nat
           /\ i = index => Age(i) = DRIVER_BATCH
           /\ index' = NextSlot(index) => Age(i)' = IF i = index THEN 1 ELSE Age(i) + 1
<1>1. index \in Slots
  BY DEF DriverTypeOK
<1>2. QED
  BY <1>1, SlotFacts, DriverBatchAssumption DEF Age, Slots

LEMMA CountStep ==
    DriverTypeOK /\ LocksHeld /\ CountCoversStage /\ AnyDriverStep
      => CountCoversStage'
<1> SUFFICES ASSUME DriverTypeOK, LocksHeld, CountCoversStage, AnyDriverStep
             PROVE  CountCoversStage'
  OBVIOUS
<1> USE DEF Goto
<1>1. ASSUME xa' = xa, index' = index, count' = count, raced' = raced,
             \A o \in Offsets : checkList'[o] \in {checkList[o], None},
             \A d \in Cpus : pc'[d] \in {"add", "reset", "retake"}
                            => pc'[d] = pc[d] /\ tmp'[d] = tmp[d]
      PROVE  CountCoversStage'
  BY <1>1 DEF CountCoversStage, Age
<1>2. ASSUME NEW c \in Cpus,
             \/ Kernel(c) \/ EnterWrite(c) \/ OpenDone(c) \/ CheckBatch(c) \/ Reserve(c)
             \/ Post(c) \/ StageFull(c) \/ LoadStep(c)
      PROVE  CountCoversStage'
  BY <1>1, <1>2
     DEF Kernel, StoreBegin, StoreUnmapped, LoadBegin, EnterWrite, OpenDone, CheckBatch,
         Reserve, Post, StageFull, LoadStep, StageHit, StageMiss, ReadHangs, RdmaRead, callVars,
         stageVars, DriverTypeOK
<1>3. ASSUME NEW c \in Cpus, RpcStep(c) PROVE CountCoversStage'
  BY <1>1, <1>3 DEF RpcStep, OpenSkip, OpenCall, CommitCall, OpenReturn, CommitReturn,
                    stageVars, DriverTypeOK
<1>4. ASSUME NEW c \in Cpus, OpenFailed(c) \/ SendFails(c) \/ LoadReturns(c)
      PROVE  CountCoversStage'
  BY <1>1, <1>4 DEF OpenFailed, SendFails, PostFails, PollSend, StoreResult, LoadReturns,
                    ReadFails, LoadDone, Return, stageVars, DriverTypeOK
<1>5. ASSUME NEW c \in Cpus, ClearStage(c) PROVE CountCoversStage'
  <2>1. \A d \in Cpus : pc[d] \notin XaPcs
    BY <1>5, CpusAssumption DEF ClearStage, LocksHeld
  <2>2. \A d \in Cpus : pc'[d] # "add" /\ (pc'[d] = "retake" => raced')
    BY <1>5, <2>1 DEF ClearStage, XaPcs, DriverTypeOK
  <2>3. xa' = None /\ \A o \in Offsets : checkList'[o] = None
    BY <1>5 DEF ClearStage
  <2>4. QED
    BY <2>2, <2>3 DEF CountCoversStage
<1>6. ASSUME NEW c \in Cpus, ResetCount(c) PROVE CountCoversStage'
  <2>1. /\ pc[c] = "reset" /\ xa' = xa /\ checkList' = checkList /\ raced' = raced
        /\ \A d \in Cpus : /\ d # c => pc'[d] = pc[d]
                           /\ pc'[c] \in {"reserve", "idle"}
    BY <1>6 DEF ResetCount, StoreResult, Return, DriverTypeOK
  <2>2. ~raced => xa = None /\ \A o \in Offsets : checkList[o] = None
    BY <2>1 DEF CountCoversStage
  <2>3. ~raced => \A d \in Cpus : pc[d] # "add"
    BY <2>2, CpusAssumption DEF LocksHeld, XaPcs
  <2>4. QED
    BY <2>1, <2>2, <2>3 DEF CountCoversStage
<1>7. ASSUME NEW c \in Cpus, StageStore(c) PROVE CountCoversStage'
  <2>1. ASSUME ~raced'
        PROVE  /\ \A d \in Cpus : pc'[d] \notin {"add", "reset"}
               /\ \A o \in Offsets : checkList'[o] # None => Age(checkList[o])' <= count' + 1
    <3>1. ~raced /\ \A d \in Cpus : pc[d] # "reset"
      BY <1>7, <2>1 DEF StageStore
    <3>2. \A d \in Cpus : pc[d] # "add"
      BY <1>7, CpusAssumption DEF StageStore, TakeSlot, LocksHeld, XaPcs
    <3>3. count \in Nat /\ count < DRIVER_BATCH /\ count' = count /\ xa = None
          /\ index' = NextSlot(index)
      BY <1>7, DriverBatchAssumption
         DEF StageStore, TakeSlot, stage_buffer_full, DriverTypeOK
    <3>4. ASSUME NEW o \in Offsets, checkList'[o] # None
          PROVE  Age(checkList[o])' <= count' + 1
      <4>1. checkList'[o] = index \/ (checkList'[o] = checkList[o] /\ checkList[o] # None)
        BY <1>7, <3>4 DEF StageStore, DriverTypeOK
      <4>2. checkList'[o] \in Slots
        BY <4>1 DEF DriverTypeOK
      <4>3. CASE checkList'[o] = index
        BY <4>2, <4>3, <3>3, AgeFacts DEF Age
      <4>4. CASE checkList'[o] # index
        <5>1. Age(checkList[o]) <= count
          BY <3>1, <3>3, <4>1, <4>4 DEF CountCoversStage
        <5>2. QED
          BY <4>1, <4>2, <4>4, <5>1, <3>3, AgeFacts DEF Age
      <4>5. QED
        BY <4>3, <4>4
    <3>5. QED
      BY <1>7, <3>1, <3>2, <3>4 DEF StageStore, DriverTypeOK
  <2>2. xa' # None
    BY <1>7, CpusAssumption DEF StageStore
  <2>3. \A d \in Cpus : pc'[d] = "retake" => raced'
    BY <1>7 DEF StageStore, CountCoversStage, DriverTypeOK
  <2>4. QED
    BY <2>1, <2>2, <2>3 DEF CountCoversStage, Age
<1>8. ASSUME NEW c \in Cpus, StageUnlocks(c) \/ StageRetakes(c) PROVE CountCoversStage'
  <2>1. raced'
    BY <1>8 DEF StageUnlocks, StageRetakes, CountCoversStage
  <2>2. QED
    BY <2>1 DEF CountCoversStage
<1>9. ASSUME NEW c \in Cpus, CountLoad(c) PROVE CountCoversStage'
  BY <1>9 DEF CountLoad, CountCoversStage, Age, stageVars, DriverTypeOK
<1>10. ASSUME NEW c \in Cpus, CountStore(c) PROVE CountCoversStage'
  <2>1. /\ pc[c] = "add" /\ xa = c /\ xa' = None /\ count' = tmp[c] + 1
        /\ index' = index /\ checkList' = checkList /\ raced' = raced
        /\ pc' = [pc EXCEPT ![c] = "poll"]
    BY <1>10 DEF CountStore, LocksHeld, XaPcs
  <2>2. \A d \in Cpus : d # c => pc[d] # "add"
    BY <2>1 DEF LocksHeld, XaPcs
  <2>3. ~raced => count' = count + 1 /\ \A d \in Cpus : pc[d] # "reset"
    BY <2>1, CpusAssumption DEF CountCoversStage
  <2>4. \A d \in Cpus : pc'[d] # "add" /\ (pc'[d] # pc[d] => pc'[d] = "poll")
    BY <2>1, <2>2 DEF DriverTypeOK
  <2>5. \A i : Age(i)' = Age(i)
    BY <2>1 DEF Age
  <2>6. ~raced => \A o \in Offsets : checkList[o] # None => Age(checkList[o]) <= count'
    BY <2>1, <2>3, CpusAssumption DEF CountCoversStage
  <2>7. \A d \in Cpus : pc'[d] = "retake" => raced'
    BY <2>1, <2>4 DEF CountCoversStage
  <2>8. ~raced' => \A d \in Cpus : pc'[d] # "reset"
    BY <2>1, <2>3, <2>4
  <2>9. ~raced' => \A o \in Offsets : checkList'[o] # None => Age(checkList[o])' <= count'
    BY <2>1, <2>5, <2>6 DEF Age
  <2>10. count' \in Nat
    BY <2>1 DEF DriverTypeOK
  <2>11. QED
    BY <2>1, <2>4, <2>7, <2>8, <2>9, <2>10 DEF CountCoversStage, Age
<1>11. ASSUME UNCHANGED driverVars PROVE CountCoversStage'
  BY <1>11 DEF driverVars, stageVars, callVars, CountCoversStage, Age
<1>12. QED
  BY <1>2, <1>3, <1>4, <1>5, <1>6, <1>7, <1>8, <1>9, <1>10, <1>11 DEF AnyDriverStep, DriverStep

\* The steps that move a call along without staging or forgetting a copy.
LEMMA QuietStep ==
    ASSUME StagedCopyIsLatest, UNCHANGED <<slot, raced, arg, stored>>,
           \A o \in Offsets : checkList'[o] \in {checkList[o], None},
           \A d \in Cpus : /\ pc'[d] \in StorePcs <=> pc[d] \in StorePcs
                           /\ pc'[d] \in {"count", "add", "poll"}
                                => pc[d] \in {"count", "add", "poll"}
    PROVE  StagedCopyIsLatest'
<1> SUFFICES ASSUME ~raced, NEW o \in Offsets, checkList'[o] # None
             PROVE  SlotIntact(o)'
  BY DEF StagedCopyIsLatest, StageIntact
<1>1. SlotIntact(o) /\ checkList'[o] = checkList[o]
  BY DEF StagedCopyIsLatest, StageIntact
<1>2. \A d \in Cpus : Storing(d, o)' <=> Storing(d, o)
  BY DEF Storing
<1>3. QED
  BY <1>1, <1>2 DEF SlotIntact

\* A store that returns leaves its own copy in the slot, or none to load.
LEMMA ResultStep ==
    ASSUME DriverTypeOK, OneCallPerOffset, StagedCopyIsLatest,
           UNCHANGED <<slot, raced, checkList>>,
           NEW c \in Cpus, pc[c] \in StorePcs, NEW ok \in BOOLEAN,
           ok => pc[c] = "poll", StoreResult(c, ok)
    PROVE  StagedCopyIsLatest'
<1> SUFFICES ASSUME ~raced, NEW o \in Offsets, checkList'[o] # None
             PROVE  SlotIntact(o)'
  BY DEF StagedCopyIsLatest, StageIntact
<1>1. SlotIntact(o) /\ checkList'[o] = checkList[o]
  BY DEF StagedCopyIsLatest, StageIntact
<1>2. pc[c] # "idle" /\ arg[c] \in Page
  BY DEF StorePcs, DriverTypeOK, Content
<1>3. /\ pc' = [pc EXCEPT ![c] = "idle"] /\ arg' = [arg EXCEPT ![c] = None]
      /\ stored' = [stored EXCEPT ![arg[c].off] = IF ok THEN arg[c].ver ELSE 0]
  BY DEF StoreResult, Return, Goto
<1>4. \A d \in Cpus : Storing(d, o)' <=> Storing(d, o) /\ d # c
  BY <1>3 DEF Storing, StorePcs, DriverTypeOK
<1>5. CASE arg[c].off = o
  <2>1. stored'[o] = IF ok THEN arg[c].ver ELSE 0
    BY <1>3, <1>5 DEF DriverTypeOK
  <2>2. ok => slot[checkList[o]] = arg[c]
    BY <1>1, <1>5 DEF SlotIntact, Storing
  <2>3. arg[c] = [off |-> o, ver |-> arg[c].ver]
    BY <1>2, <1>5 DEF Page
  <2>4. \A d \in Cpus : ~Storing(d, o)'
    BY <1>2, <1>4, <1>5 DEF OneCallPerOffset, Storing, StorePcs
  <2>5. QED
    BY <1>1, <2>1, <2>2, <2>3, <2>4 DEF SlotIntact
<1>6. CASE arg[c].off # o
  <2>1. stored'[o] = stored[o] /\ ~Storing(c, o)
    BY <1>3, <1>6 DEF Storing, DriverTypeOK
  <2>2. \A d \in Cpus : Storing(d, o)' => pc'[d] = pc[d] /\ arg'[d] = arg[d]
    BY <1>3, <1>4 DEF DriverTypeOK
  <2>3. QED
    BY <1>1, <1>4, <2>1, <2>2 DEF SlotIntact
<1>7. QED
  BY <1>5, <1>6

LEMMA StagedStep ==
    ASSUME DriverTypeOK, LocksHeld, OneCallPerOffset, CountCoversStage,
           StagedCopyIsLatest, AnyDriverStep
    PROVE  StagedCopyIsLatest'
<1>1. ASSUME NEW c \in Cpus, Kernel(c) PROVE StagedCopyIsLatest'
  <2> SUFFICES ASSUME ~raced, NEW o \in Offsets, checkList'[o] # None
               PROVE  SlotIntact(o)'
    BY <1>1 DEF Kernel, StoreBegin, StoreUnmapped, LoadBegin, stageVars,
                StagedCopyIsLatest, StageIntact
  <2>1. SlotIntact(o) /\ checkList'[o] = checkList[o] /\ slot' = slot
    BY <1>1 DEF Kernel, StoreBegin, StoreUnmapped, LoadBegin, stageVars,
                StagedCopyIsLatest, StageIntact
  <2>2. ASSUME NEW p \in Offsets, StoreUnmapped(c, p) PROVE SlotIntact(o)'
    <3>1. pc' = pc /\ arg' = arg /\ stored'[o] \in {stored[o], 0}
      BY <2>2 DEF StoreUnmapped, callVars, DriverTypeOK
    <3>2. QED
      BY <2>1, <3>1 DEF SlotIntact, Storing
  <2>3. ASSUME NEW p \in Offsets, StoreBegin(c, p) PROVE SlotIntact(o)'
    <3>1. /\ pc[c] = "idle" /\ pc'[c] = "lock" /\ arg'[c].off = p /\ stored' = stored
          /\ \A d \in Cpus : d # c => pc'[d] = pc[d] /\ arg'[d] = arg[d]
      BY <2>3 DEF StoreBegin, Goto, DriverTypeOK
    <3>2. CASE p = o
      <4>1. Storing(c, o)'
        BY <3>1, <3>2 DEF Storing, StorePcs
      <4>2. \A d \in Cpus : pc'[d] \in {"count", "add", "poll"} => ~Storing(d, o)'
        BY <2>3, <3>1, <3>2 DEF StoreBegin, Busy, Storing
      <4>3. QED
        BY <4>1, <4>2 DEF SlotIntact
    <3>3. CASE p # o
      <4>1. \A d \in Cpus : Storing(d, o)' <=> Storing(d, o)
        BY <3>1, <3>3 DEF Storing, StorePcs
      <4>2. QED
        BY <2>1, <3>1, <4>1 DEF SlotIntact
    <3>4. QED
      BY <3>2, <3>3
  <2>4. ASSUME NEW p \in Offsets, LoadBegin(c, p) PROVE SlotIntact(o)'
    <3>1. /\ pc[c] = "idle" /\ pc'[c] = "load" /\ stored' = stored
          /\ \A d \in Cpus : d # c => pc'[d] = pc[d] /\ arg'[d] = arg[d]
      BY <2>4 DEF LoadBegin, Goto, swapVars, DriverTypeOK
    <3>2. \A d \in Cpus : Storing(d, o)' <=> Storing(d, o)
      BY <3>1 DEF Storing, StorePcs
    <3>3. QED
      BY <2>1, <3>1, <3>2 DEF SlotIntact
  <2>5. QED
    BY <1>1, <2>2, <2>3, <2>4 DEF Kernel
<1>2. ASSUME NEW c \in Cpus,
             \/ EnterWrite(c) \/ OpenDone(c) \/ CheckBatch(c) \/ Reserve(c) \/ Post(c)
             \/ CountLoad(c) \/ CountStore(c) \/ LoadStep(c)
      PROVE  StagedCopyIsLatest'
  BY <1>2, QuietStep
     DEF EnterWrite, OpenDone, CheckBatch, Reserve, Post, CountLoad, CountStore, LoadStep,
         StageHit, StageMiss, ReadHangs, RdmaRead, stageVars, swapVars, Goto, StorePcs, DriverTypeOK
<1>3. ASSUME NEW c \in Cpus, RpcStep(c) PROVE StagedCopyIsLatest'
  BY <1>3, QuietStep
     DEF RpcStep, OpenSkip, OpenCall, CommitCall, OpenReturn, CommitReturn, stageVars,
         swapVars, Goto, StorePcs, DriverTypeOK
<1>4. ASSUME NEW c \in Cpus, OpenFailed(c) \/ SendFails(c) PROVE StagedCopyIsLatest'
  <2>1. /\ pc[c] \in StorePcs /\ UNCHANGED <<slot, raced, checkList>>
        /\ \E ok \in BOOLEAN : (ok => pc[c] = "poll") /\ StoreResult(c, ok)
    BY <1>4 DEF OpenFailed, SendFails, PostFails, PollSend, stageVars, StorePcs
  <2>2. QED
    BY <2>1, ResultStep
<1>5. ASSUME NEW c \in Cpus, ResetCount(c) PROVE StagedCopyIsLatest'
  <2>1. CASE err[c]
    BY <1>5, <2>1, ResultStep DEF ResetCount, StorePcs
  <2>2. CASE ~err[c]
    BY <1>5, <2>2, QuietStep DEF ResetCount, swapVars, Goto, StorePcs, DriverTypeOK
  <2>3. QED
    BY <2>1, <2>2
<1>6. ASSUME NEW c \in Cpus, LoadReturns(c) PROVE StagedCopyIsLatest'
  <2> SUFFICES ASSUME ~raced, NEW o \in Offsets, checkList'[o] # None
               PROVE  SlotIntact(o)'
    BY <1>6 DEF LoadReturns, LoadDone, ReadFails, stageVars, StagedCopyIsLatest, StageIntact
  <2>1. SlotIntact(o) /\ checkList'[o] = checkList[o] /\ slot' = slot /\ stored' = stored
    BY <1>6 DEF LoadReturns, LoadDone, ReadFails, stageVars, swapVars, StagedCopyIsLatest,
                StageIntact
  <2>2. /\ pc[c] \notin StorePcs /\ pc'[c] = "idle"
        /\ \A d \in Cpus : d # c => pc'[d] = pc[d] /\ arg'[d] = arg[d]
    BY <1>6 DEF LoadReturns, LoadDone, ReadFails, Return, Goto, StorePcs, DriverTypeOK
  <2>3. \A d \in Cpus : Storing(d, o)' <=> Storing(d, o)
    BY <2>2 DEF Storing, StorePcs
  <2>4. QED
    BY <2>1, <2>2, <2>3 DEF SlotIntact
<1>7. ASSUME NEW c \in Cpus, ClearStage(c) PROVE StagedCopyIsLatest'
  BY <1>7 DEF ClearStage, StagedCopyIsLatest, StageIntact
<1>8. ASSUME NEW c \in Cpus, StageFull(c) PROVE StagedCopyIsLatest'
  <2> SUFFICES ASSUME ~raced, NEW o \in Offsets, checkList'[o] # None
               PROVE  SlotIntact(o)'
    BY <1>8 DEF StageFull, StagedCopyIsLatest, StageIntact
  <2>1. SlotIntact(o) /\ checkList'[o] = checkList[o] /\ arg[c].off # o
    BY <1>8 DEF StageFull, StagedCopyIsLatest, StageIntact, DriverTypeOK
  <2>2. \A d \in Cpus : Storing(d, o)' <=> Storing(d, o)
    BY <1>8, <2>1 DEF StageFull, Storing, Goto, StorePcs, DriverTypeOK
  <2>3. QED
    BY <1>8, <2>1, <2>2 DEF StageFull, SlotIntact, Storing, Goto, DriverTypeOK, swapVars
<1>9. ASSUME NEW c \in Cpus, StageStore(c) PROVE StagedCopyIsLatest'
  <2> SUFFICES ASSUME ~raced', NEW o \in Offsets, checkList'[o] # None
               PROVE  SlotIntact(o)'
    BY DEF StagedCopyIsLatest, StageIntact
  <2>1. /\ pc[c] = "stage" /\ ~raced /\ xa = None /\ count < DRIVER_BATCH /\ count \in Nat
        /\ slot' = [slot EXCEPT ![index] = arg[c]]
        /\ checkList' = [checkList EXCEPT ![arg[c].off] = index]
        /\ pc' = [pc EXCEPT ![c] = "count"] /\ UNCHANGED <<arg, stored>>
    BY <1>9, DriverBatchAssumption
       DEF StageStore, TakeSlot, stage_buffer_full, swapVars, Goto, DriverTypeOK
  <2>2. \A d \in Cpus : Storing(d, o)' <=> Storing(d, o)
    BY <2>1 DEF Storing, StorePcs, DriverTypeOK
  <2>3. index \in Slots
    BY DEF DriverTypeOK
  <2>4. CASE arg[c].off = o
    <3>1. slot'[checkList'[o]] = arg[c]
      BY <2>1, <2>3, <2>4 DEF DriverTypeOK
    <3>2. Storing(c, o)
      BY <2>1, <2>4 DEF Storing, StorePcs
    <3>3. \A d \in Cpus : Storing(d, o) => d = c
      BY <2>1, <2>4 DEF OneCallPerOffset, Storing, StorePcs
    <3>4. QED
      BY <2>1, <2>2, <3>1, <3>2, <3>3 DEF SlotIntact
  <2>5. CASE arg[c].off # o
    <3>1. checkList'[o] = checkList[o] /\ checkList[o] \in Slots
      BY <2>1, <2>5 DEF DriverTypeOK
    <3>2. Age(checkList[o]) <= count
      BY <2>1, <3>1 DEF CountCoversStage
    <3>3. checkList[o] # index
      BY <2>1, <2>3, <3>1, <3>2, AgeFacts, DriverBatchAssumption
    <3>4. slot'[checkList'[o]] = slot[checkList[o]]
      BY <2>1, <3>1, <3>3 DEF DriverTypeOK
    <3>5. SlotIntact(o) /\ ~Storing(c, o)
      BY <2>1, <2>5, <3>1 DEF StagedCopyIsLatest, StageIntact, Storing
    <3>6. \A d \in Cpus : Storing(d, o) => pc'[d] = pc[d]
      BY <2>1, <3>5 DEF DriverTypeOK
    <3>7. stored' = stored /\ arg' = arg
      BY <2>1
    <3>8. QED
      BY <2>2, <3>4, <3>5, <3>6, <3>7 DEF SlotIntact
  <2>6. QED
    BY <2>4, <2>5
<1>10. ASSUME NEW c \in Cpus, StageUnlocks(c) \/ StageRetakes(c) PROVE StagedCopyIsLatest'
  BY <1>10 DEF StageUnlocks, StageRetakes, CountCoversStage, StagedCopyIsLatest
<1>11. ASSUME UNCHANGED driverVars PROVE StagedCopyIsLatest'
  BY <1>11, QuietStep DEF driverVars, stageVars, callVars, swapVars
<1>12. QED
  BY <1>1, <1>2, <1>3, <1>4, <1>5, <1>6, <1>7, <1>8, <1>9, <1>10, <1>11
     DEF AnyDriverStep, DriverStep

----------------------------------------------------------------------------
(* The inductive invariant, and what follows from it. *)

LEMMA InvInit == DriverInit => DriverInv
<1> SUFFICES ASSUME DriverInit PROVE DriverInv
  OBVIOUS
<1>1. LocksHeld
  BY CpusAssumption DEF DriverInit, LocksHeld, SpinPcs, XaPcs
<1>2. RoomInBatch
  BY DriverBatchAssumption DEF DriverInit, RoomInBatch, BatchBound
<1>3. CountCoversStage /\ StagedCopyIsLatest
  BY DEF DriverInit, CountCoversStage, StagedCopyIsLatest, StageIntact
<1>4. OneCallPerOffset
  BY DEF DriverInit, OneCallPerOffset
<1>5. QED
  BY <1>1, <1>2, <1>3, <1>4, TypeInit DEF DriverInv

LEMMA InvStep == DriverInv /\ AnyDriverStep => DriverInv'
BY TypeStep, LocksStep, RoomStep, OneCallStep, CountStep, StagedStep DEF DriverInv

\* The driver's inductive invariant.
THEOREM DriverInvariant == DriverSpec => []DriverInv
<1>1. DriverInv /\ [DriverNext]_driverVars => DriverInv'
  BY InvStep, StepCases DEF DriverInv
<1>2. QED
  BY <1>1, InvInit, PTL DEF DriverSpec

\* Every variable of the driver keeps its type.
THEOREM DriverTypes == DriverSpec => []DriverTypeOK
<1>1. DriverInv => DriverTypeOK
  BY DEF DriverInv
<1>2. QED
  BY <1>1, DriverInvariant, PTL

\* maruswap_multicast_write never lets ctrl.batch past CONFIG_BATCH, however many
\* CPUs store at once and whatever the servers answer.
THEOREM BatchIsBounded == DriverSpec => []BatchBound
<1>1. DriverInv => BatchBound
  BY DEF DriverInv, RoomInBatch
<1>2. QED
  BY <1>1, DriverInvariant, PTL

\* Outside the race of a store with the end of a commit, a staged copy is never
\* overwritten by another offset's page and never older than the last store: a
\* load that hits the stage returns the page frontswap expects.
THEOREM StageServesLatest == DriverSpec => []StagedCopyIsLatest
<1>1. DriverInv => StagedCopyIsLatest
  BY DEF DriverInv
<1>2. QED
  BY <1>1, DriverInvariant, PTL

----------------------------------------------------------------------------
(* The batch and the ring: between two commits every page counted in the   *)
(* batch takes one slot, unless a store of the batch before comes late.    *)

StagingPcs == {"post", "stage", "retake", "count", "add"}
Staging == {c \in Cpus : pc[c] \in StagingPcs}

RingCovered ==
    late = 0 =>
      /\ \A c \in Cpus : pc[c] = "add" => tmp[c] = count
      /\ \A c \in Cpus : pc[c] = "reset" => Staging = {}
      /\ (\A c \in Cpus : pc[c] # "reset") => count + Cardinality(Staging) <= batch

LEMMA StagingFinite ==
    /\ IsFiniteSet(Staging) /\ Cardinality(Staging) \in Nat
    /\ Cardinality(Staging) = 0 <=> Staging = {}
<1>1. IsFiniteSet(Staging)
  BY CpusAssumption, FS_Subset DEF Staging
<1>2. QED
  BY <1>1, FS_CardinalityType, FS_EmptySet

\* No store begins to be staged, and none is counted.
LEMMA RingStays ==
    ASSUME DriverTypeOK, RingCovered, late' = late, count' = count, batch' = batch,
           \A d \in Cpus : /\ pc'[d] \in StagingPcs => pc[d] \in StagingPcs
                           /\ pc'[d] = "reset" <=> pc[d] = "reset"
                           /\ pc'[d] = "add" => pc[d] = "add" /\ tmp'[d] = tmp[d]
    PROVE  RingCovered'
<1>1. Staging' \subseteq Staging
  BY DEF Staging
<1>2. Cardinality(Staging') <= Cardinality(Staging)
  BY <1>1, StagingFinite, FS_Subset
<1>3. count \in Nat /\ batch \in Nat /\ Cardinality(Staging) \in Nat /\ Cardinality(Staging') \in Nat
  <2>1. IsFiniteSet(Staging')
    BY <1>1, StagingFinite, FS_Subset
  <2>2. QED
    BY <2>1, StagingFinite, FS_CardinalityType DEF DriverTypeOK
<1>4. ASSUME late = 0 PROVE \A c \in Cpus : pc'[c] = "add" => tmp'[c] = count
  BY <1>4 DEF RingCovered
<1>5. ASSUME late = 0 PROVE \A c \in Cpus : pc'[c] = "reset" => Staging' = {}
  BY <1>1, <1>5 DEF RingCovered
<1>6. ASSUME late = 0, \A c \in Cpus : pc'[c] # "reset" PROVE count + Cardinality(Staging') <= batch
  <2>1. count + Cardinality(Staging) <= batch
    BY <1>6 DEF RingCovered
  <2>2. QED
    BY <1>2, <1>3, <2>1
<1>7. QED
  BY <1>4, <1>5, <1>6 DEF RingCovered

LEMMA RingInit == DriverInit => RingCovered
<1> SUFFICES ASSUME DriverInit PROVE RingCovered
  OBVIOUS
<1>1. \A c \in Cpus : pc[c] = "idle"
  BY DEF DriverInit
<1>2. Staging = {}
  BY <1>1 DEF Staging, StagingPcs
<1>3. Cardinality(Staging) = 0
  BY <1>2, FS_EmptySet
<1>4. QED
  BY <1>1, <1>2, <1>3 DEF RingCovered, DriverInit

LEMMA RingStep == DriverTypeOK /\ LocksHeld /\ RingCovered /\ AnyDriverStep => RingCovered'
<1> SUFFICES ASSUME DriverTypeOK, LocksHeld, RingCovered, AnyDriverStep PROVE RingCovered'
  OBVIOUS
<1> USE DEF Goto
<1>1. ASSUME NEW c \in Cpus,
             \/ Kernel(c) \/ EnterWrite(c) \/ OpenDone(c) \/ CheckBatch(c) \/ Post(c)
             \/ StageFull(c) \/ StageStore(c) \/ StageUnlocks(c) \/ StageRetakes(c) \/ LoadStep(c)
      PROVE  RingCovered'
  BY <1>1, RingStays
     DEF Kernel, StoreBegin, StoreUnmapped, LoadBegin, EnterWrite, OpenDone, CheckBatch,
         Post, StageFull, StageStore, StageUnlocks, StageRetakes, TakeSlot, LoadStep, StageHit,
         StageMiss, ReadHangs, RdmaRead, callVars, stageVars, lockVars, DriverTypeOK, StagingPcs
<1>2. ASSUME NEW c \in Cpus, RpcStep(c) PROVE RingCovered'
  BY <1>2, RingStays DEF RpcStep, OpenSkip, OpenCall, CommitCall, OpenReturn, CommitReturn,
                         stageVars, lockVars, DriverTypeOK, StagingPcs
<1>3. ASSUME NEW c \in Cpus, OpenFailed(c) \/ SendFails(c) \/ LoadReturns(c) PROVE RingCovered'
  <2>1. /\ pc[c] # "reset" /\ pc' = [pc EXCEPT ![c] = "idle"] /\ tmp' = [tmp EXCEPT ![c] = 0]
        /\ late' = late /\ count' = count /\ batch' = batch
    BY <1>3 DEF OpenFailed, SendFails, PostFails, PollSend, StoreResult, LoadReturns,
       ReadFails, LoadDone, Return, stageVars, lockVars
  <2>2. QED
    BY <2>1, RingStays DEF DriverTypeOK, StagingPcs
<1>4. ASSUME NEW c \in Cpus, ClearStage(c) PROVE RingCovered'
  <2> DEFINE behind == {d \in Cpus : pc[d] \in {"post", "stage", "retake"}}
  <2>1. late' = Cardinality(behind) /\ pc' = [pc EXCEPT ![c] = "reset"] /\ xa = None
    BY <1>4 DEF ClearStage
  <2>2. \A d \in Cpus : pc[d] \notin {"count", "add"}
    BY <2>1, CpusAssumption DEF LocksHeld, XaPcs
  <2>3. ASSUME late' = 0 PROVE Staging' = {}
    <3>1. IsFiniteSet(behind)
      BY CpusAssumption, FS_Subset
    <3>2. behind = {}
      BY <2>1, <2>3, <3>1, FS_EmptySet
    <3>3. \A d \in Cpus : pc'[d] \notin StagingPcs
      BY <2>1, <2>2, <3>2 DEF StagingPcs, DriverTypeOK
    <3>4. QED
      BY <3>3 DEF Staging
  <2>4. \A d \in Cpus : pc'[d] # "add"
    BY <2>1, <2>2 DEF DriverTypeOK
  <2>5. pc'[c] = "reset"
    BY <2>1 DEF DriverTypeOK
  <2>6. QED
    BY <2>3, <2>4, <2>5 DEF RingCovered
<1>5. ASSUME NEW c \in Cpus, ResetCount(c) PROVE RingCovered'
  <2>1. /\ pc[c] = "reset" /\ count' = 0 /\ batch' = batch /\ late' = late
        /\ pc'[c] \in {"reserve", "idle"} /\ \A d \in Cpus : d # c => pc'[d] = pc[d]
    BY <1>5 DEF ResetCount, StoreResult, Return, DriverTypeOK
  <2>2. \A d \in Cpus : pc'[d] # "reset"
    <3>1. \A d \in Cpus : d # c => pc[d] # "reset"
      BY <2>1 DEF LocksHeld, SpinPcs
    <3>2. QED
      BY <2>1, <3>1
  <2>3. ASSUME late = 0
        PROVE  Staging' = {} /\ \A d \in Cpus : pc'[d] # "add"
    <3>1. Staging = {}
      BY <2>1, <2>3 DEF RingCovered
    <3>2. \A d \in Cpus : pc'[d] \notin StagingPcs
      BY <2>1, <3>1 DEF Staging, StagingPcs, DriverTypeOK
    <3>3. QED
      BY <3>2 DEF Staging, StagingPcs
  <2>4. late = 0 => count' + Cardinality(Staging') <= batch'
    <3>1. late = 0 => Cardinality(Staging') = 0
      BY <2>3, FS_EmptySet
    <3>2. batch \in Nat
      BY DEF DriverTypeOK
    <3>3. QED
      BY <2>1, <3>1, <3>2
  <2>5. QED
    BY <2>1, <2>2, <2>3, <2>4 DEF RingCovered
<1>6. ASSUME NEW c \in Cpus, Reserve(c) PROVE RingCovered'
  <2>1. /\ pc[c] = "reserve" /\ count' = count /\ batch' = batch + 1 /\ late' = late /\ tmp' = tmp
        /\ pc' = [pc EXCEPT ![c] = "post"]
    BY <1>6 DEF Reserve, stageVars
  <2>2. \A d \in Cpus : pc[d] # "reset" /\ pc'[d] # "reset"
    BY <2>1 DEF LocksHeld, SpinPcs, DriverTypeOK
  <2>3. Staging' = Staging \cup {c} /\ c \notin Staging
    BY <2>1 DEF Staging, StagingPcs, DriverTypeOK
  <2>4. Cardinality(Staging') = Cardinality(Staging) + 1
    BY <2>3, StagingFinite, FS_AddElement
  <2>5. ASSUME late = 0 PROVE count' + Cardinality(Staging') <= batch'
    <3>1. count + Cardinality(Staging) <= batch
      BY <2>2, <2>5 DEF RingCovered
    <3>2. QED
      BY <2>1, <2>4, <3>1, StagingFinite DEF DriverTypeOK
  <2>6. late = 0 => \A d \in Cpus : pc'[d] = "add" => tmp'[d] = count'
    BY <2>1 DEF RingCovered, DriverTypeOK
  <2>7. QED
    BY <2>1, <2>2, <2>5, <2>6 DEF RingCovered
<1>7. ASSUME NEW c \in Cpus, CountLoad(c) PROVE RingCovered'
  <2>1. /\ pc[c] = "count" /\ count' = count /\ batch' = batch /\ late' = late
        /\ tmp' = [tmp EXCEPT ![c] = count] /\ pc' = [pc EXCEPT ![c] = "add"]
    BY <1>7 DEF CountLoad, stageVars, lockVars
  <2>2. Staging' = Staging
    BY <2>1 DEF Staging, StagingPcs, DriverTypeOK
  <2>3. \A d \in Cpus : pc'[d] = "reset" <=> pc[d] = "reset"
    BY <2>1 DEF DriverTypeOK
  <2>4. late = 0 => \A d \in Cpus : pc'[d] = "add" => tmp'[d] = count'
    BY <2>1 DEF RingCovered, DriverTypeOK
  <2>5. QED
    BY <2>1, <2>2, <2>3, <2>4 DEF RingCovered
<1>8. ASSUME NEW c \in Cpus, CountStore(c) PROVE RingCovered'
  <2>1. /\ pc[c] = "add" /\ count' = tmp[c] + 1 /\ batch' = batch /\ late' = late
        /\ pc' = [pc EXCEPT ![c] = "poll"]
    BY <1>8 DEF CountStore, lockVars
  <2>2. \A d \in Cpus : pc'[d] # "add"
    BY <2>1 DEF LocksHeld, XaPcs, DriverTypeOK
  <2>3. c \in Staging /\ Staging' = Staging \ {c}
    BY <2>1 DEF Staging, StagingPcs, DriverTypeOK
  <2>4. Cardinality(Staging') = Cardinality(Staging) - 1
    BY <2>3, StagingFinite, FS_RemoveElement
  <2>5. ASSUME late = 0
        PROVE  /\ \A d \in Cpus : pc'[d] # "reset"
               /\ count' + Cardinality(Staging') <= batch'
    <3>1. \A d \in Cpus : pc[d] # "reset"
      BY <2>3, <2>5 DEF RingCovered
    <3>2. count + Cardinality(Staging) <= batch /\ tmp[c] = count
      BY <2>1, <2>5, <3>1 DEF RingCovered
    <3>3. count' + Cardinality(Staging') <= batch'
      BY <2>1, <2>4, <3>2, StagingFinite DEF DriverTypeOK
    <3>4. QED
      BY <2>1, <3>1, <3>3 DEF DriverTypeOK
  <2>6. QED
    BY <2>1, <2>2, <2>5 DEF RingCovered
<1>9. ASSUME UNCHANGED driverVars PROVE RingCovered'
  BY <1>9, RingStays DEF driverVars, stageVars, lockVars, callVars
<1>10. QED
  BY <1>1, <1>2, <1>3, <1>4, <1>5, <1>6, <1>7, <1>8, <1>9 DEF AnyDriverStep, DriverStep

LEMMA RingRefusesNone == DriverInv /\ RingCovered => StageRefusesNone
<1> SUFFICES ASSUME DriverInv, RingCovered, late = 0, NEW c \in Cpus, pc[c] = "stage"
             PROVE  ~stage_buffer_full
  BY DEF StageRefusesNone
<1>1. c \in Staging
  BY DEF Staging, StagingPcs
<1>2. Cardinality(Staging) >= 1
  BY <1>1, StagingFinite
<1>3. count + Cardinality(Staging) <= batch
  BY <1>1 DEF RingCovered
<1>4. count \in Nat /\ batch \in Nat /\ batch <= DRIVER_BATCH
  BY DEF DriverInv, DriverTypeOK, RoomInBatch, BatchBound
<1>5. count < DRIVER_BATCH
  BY <1>2, <1>3, <1>4, StagingFinite, DriverBatchAssumption
<1>6. QED
  BY <1>4, <1>5, DriverBatchAssumption DEF stage_buffer_full

\* A store is refused a slot only when one of the batch before was still on its
\* way to the stage as that batch was cleared: ctrl.batch and stage_buffer.count
\* never disagree otherwise, though no lock covers both.
THEOREM StageHasRoom == DriverSpec => []StageRefusesNone
<1>1. DriverInv /\ RingCovered /\ [DriverNext]_driverVars => DriverInv' /\ RingCovered'
  BY InvStep, RingStep, StepCases DEF DriverInv
<1>2. QED
  BY <1>1, InvInit, RingInit, RingRefusesNone, PTL DEF DriverSpec
----------------------------------------------------------------------------
(* The driver implements the frontswap backend of SwapStore.tla, whatever  *)
(* the servers answer: every step of a call is a step of the abstract      *)
(* store, or changes nothing a caller can see.                             *)


\* Only a load that has its page has one, and a load reads a server only when its
\* offset is not staged.
LoadsConform ==
    \A c \in Cpus : /\ pc[c] # "loaded" => got[c] = None
                    /\ pc[c] = "read" => checkList[arg[c].off] = None

LEMMA LoadsInit == DriverInit => LoadsConform
BY DEF DriverInit, LoadsConform

LEMMA LoadsStep ==
    DriverInv /\ LoadsConform /\ AnyDriverStep => LoadsConform'
<1> SUFFICES ASSUME DriverInv, LoadsConform, AnyDriverStep
             PROVE  LoadsConform'
  OBVIOUS
<1> USE DEF LoadsConform, Goto
<1>0. DriverTypeOK /\ OneCallPerOffset
  BY DEF DriverInv
<1>1. ASSUME NEW c \in Cpus, Kernel(c) PROVE LoadsConform'
  BY <1>0, <1>1 DEF Kernel, StoreBegin, StoreUnmapped, LoadBegin, DriverTypeOK, stageVars, callVars
<1>2. ASSUME NEW c \in Cpus,
             \/ EnterWrite(c) \/ OpenDone(c) \/ CheckBatch(c) \/ Reserve(c) \/ Post(c)
             \/ CountLoad(c) \/ CountStore(c)
      PROVE  LoadsConform'
  BY <1>0, <1>2 DEF EnterWrite, OpenDone, CheckBatch, Reserve, Post, CountLoad, CountStore,
     DriverTypeOK, stageVars
<1>3. ASSUME NEW c \in Cpus, RpcStep(c) PROVE LoadsConform'
  BY <1>0, <1>3 DEF RpcStep, OpenSkip, OpenCall, CommitCall, OpenReturn, CommitReturn,
     DriverTypeOK, stageVars
<1>4. ASSUME NEW c \in Cpus, OpenFailed(c) \/ SendFails(c) \/ LoadReturns(c) PROVE LoadsConform'
  <2>1. Return(c) /\ UNCHANGED checkList
    BY <1>4 DEF OpenFailed, SendFails, PostFails, PollSend, LoadReturns, ReadFails, LoadDone,
       StoreResult, stageVars
  <2>2. QED
    BY <1>0, <2>1 DEF Return, DriverTypeOK
<1>5. ASSUME NEW c \in Cpus, ResetCount(c) PROVE LoadsConform'
  <2>1. UNCHANGED checkList /\ (Return(c) \/ (pc' = [pc EXCEPT ![c] = "reserve"] /\ UNCHANGED <<arg, got>>))
    BY <1>5 DEF ResetCount, StoreResult
  <2>2. pc[c] = "reset"
    BY <1>5 DEF ResetCount
  <2>3. QED
    BY <1>0, <2>1, <2>2 DEF Return, DriverTypeOK
<1>6. ASSUME NEW c \in Cpus, ClearStage(c) PROVE LoadsConform'
  <2>1. \A d \in Cpus : pc[d] = "read" => arg[d] # None
    BY <1>0 DEF DriverTypeOK
  <2>2. \A d \in Cpus : pc[d] = "read" => arg[d].off \in Offsets
    BY <1>0, <2>1 DEF DriverTypeOK, Content, Page
  <2>3. \A d \in Cpus : pc'[d] = "read" => pc[d] = "read"
    BY <1>0, <1>6 DEF ClearStage, DriverTypeOK
  <2>4. \A o \in Offsets : checkList'[o] = None
    BY <1>6 DEF ClearStage, stage_buffer_clear
  <2>5. \A d \in Cpus : pc'[d] # "loaded" => got'[d] = None
    BY <1>0, <1>6 DEF ClearStage, DriverTypeOK
  <2>6. QED
    BY <1>6, <2>2, <2>3, <2>4, <2>5 DEF ClearStage
<1>7. ASSUME NEW c \in Cpus, StageFull(c) \/ StageStore(c) \/ StageRetakes(c) PROVE LoadsConform'
  <2>1. /\ pc[c] \in {"stage", "retake"} /\ got' = got /\ arg' = arg
        /\ pc' \in {[pc EXCEPT ![c] = "poll"], [pc EXCEPT ![c] = "count"]}
        /\ \E i \in Slots \cup {None} : checkList' = [checkList EXCEPT ![arg[c].off] = i]
    BY <1>0, <1>7 DEF StageFull, StageStore, StageRetakes, TakeSlot, DriverTypeOK
  <2>2. \A d \in Cpus : pc'[d] = "read" => d # c /\ pc[d] = "read"
    BY <1>0, <2>1 DEF DriverTypeOK
  <2>3. \A d \in Cpus : pc'[d] = "read" => arg[d].off # arg[c].off
    BY <1>0, <2>1, <2>2 DEF OneCallPerOffset
  <2>4. QED
    BY <1>0, <2>1, <2>2, <2>3 DEF DriverTypeOK
<1>8. ASSUME NEW c \in Cpus, StageUnlocks(c) PROVE LoadsConform'
  BY <1>0, <1>8 DEF StageUnlocks, TakeSlot, DriverTypeOK
<1>9. ASSUME NEW c \in Cpus, LoadStep(c) PROVE LoadsConform'
  BY <1>0, <1>9 DEF LoadStep, StageHit, StageMiss, ReadHangs, RdmaRead, DriverTypeOK, stageVars
<1>10. ASSUME UNCHANGED driverVars PROVE LoadsConform'
  BY <1>10 DEF driverVars, stageVars, callVars
<1>11. QED
  BY <1>1, <1>2, <1>3, <1>4, <1>5, <1>6, <1>7, <1>8, <1>9, <1>10 DEF AnyDriverStep, DriverStep

\* A load asks for the last store of its offset, which no store changes meanwhile.
LoadsAskForLast ==
    \A c \in Cpus : pc[c] \in LoadPcs => arg[c].ver = stored[arg[c].off]

\* A step that stores nothing and begins no load leaves the loads as they are.
LEMMA AskingStep ==
    ASSUME LoadsAskForLast, UNCHANGED stored,
           \A d \in Cpus : pc'[d] \in LoadPcs => pc[d] \in LoadPcs /\ arg'[d] = arg[d]
    PROVE  LoadsAskForLast'
BY DEF LoadsAskForLast

\* A store that returns changes what is stored at an offset no load is on.
LEMMA AskingResult ==
    ASSUME DriverTypeOK, OneCallPerOffset, LoadsAskForLast,
           NEW c \in Cpus, pc[c] \in StorePcs, NEW ok \in BOOLEAN, StoreResult(c, ok)
    PROVE  LoadsAskForLast'
<1> SUFFICES ASSUME NEW d \in Cpus, pc'[d] \in LoadPcs
             PROVE  arg'[d].ver = stored'[arg'[d].off]
  BY DEF LoadsAskForLast
<1>1. d # c /\ pc'[d] = pc[d] /\ arg'[d] = arg[d]
  BY DEF StoreResult, Return, Goto, LoadPcs, DriverTypeOK
<1>2. pc[c] # "idle" /\ pc[d] # "idle"
  BY <1>1 DEF StorePcs, LoadPcs
<1>3. arg[d].off # arg[c].off
  BY <1>1, <1>2 DEF OneCallPerOffset
<1>4. QED
  BY <1>1, <1>3 DEF StoreResult, LoadsAskForLast, DriverTypeOK

LEMMA AskStep ==
    DriverInv /\ LoadsAskForLast /\ AnyDriverStep => LoadsAskForLast'
<1> SUFFICES ASSUME DriverInv, LoadsAskForLast, AnyDriverStep
             PROVE  LoadsAskForLast'
  OBVIOUS
<1>0. DriverTypeOK /\ OneCallPerOffset
  BY DEF DriverInv
<1>1. ASSUME NEW c \in Cpus, Kernel(c) PROVE LoadsAskForLast'
  <2>1. ASSUME NEW o \in Offsets, StoreBegin(c, o) PROVE LoadsAskForLast'
    BY <1>0, <2>1, AskingStep DEF StoreBegin, Goto, LoadPcs, DriverTypeOK
  <2>2. ASSUME NEW o \in Offsets, StoreUnmapped(c, o) PROVE LoadsAskForLast'
    <3>1. \A d \in Cpus : pc[d] \in LoadPcs => arg[d].off # o
      BY <2>2 DEF StoreUnmapped, Busy, LoadPcs
    <3>2. QED
      BY <1>0, <2>2, <3>1 DEF StoreUnmapped, callVars, LoadsAskForLast, DriverTypeOK
  <2>3. ASSUME NEW o \in Offsets, LoadBegin(c, o) PROVE LoadsAskForLast'
    BY <1>0, <2>3 DEF LoadBegin, Goto, swapVars, LoadsAskForLast, DriverTypeOK
  <2>4. QED
    BY <1>1, <2>1, <2>2, <2>3 DEF Kernel
<1>2. ASSUME NEW c \in Cpus, OpenFailed(c) \/ SendFails(c) PROVE LoadsAskForLast'
  <2>1. pc[c] \in StorePcs /\ \E ok \in BOOLEAN : StoreResult(c, ok)
    BY <1>2 DEF OpenFailed, SendFails, PostFails, PollSend, StorePcs
  <2>2. QED
    BY <1>0, <2>1, AskingResult
<1>3. ASSUME NEW c \in Cpus, ResetCount(c) PROVE LoadsAskForLast'
  <2>1. CASE err[c]
    BY <1>0, <1>3, <2>1, AskingResult DEF ResetCount, StorePcs
  <2>2. CASE ~err[c]
    BY <1>0, <1>3, <2>2, AskingStep DEF ResetCount, Goto, swapVars, LoadPcs, DriverTypeOK
  <2>3. QED
    BY <2>1, <2>2
<1>4. ASSUME NEW c \in Cpus, RpcStep(c) PROVE LoadsAskForLast'
  BY <1>0, <1>4, AskingStep
     DEF RpcStep, OpenSkip, OpenCall, CommitCall, OpenReturn, CommitReturn, Goto, swapVars,
         LoadPcs, DriverTypeOK
<1>5. ASSUME NEW c \in Cpus, LoadReturns(c) PROVE LoadsAskForLast'
  BY <1>0, <1>5, AskingStep
     DEF LoadReturns, LoadDone, ReadFails, Return, Goto, swapVars, LoadPcs, DriverTypeOK
<1>6. ASSUME NEW c \in Cpus,
             \/ EnterWrite(c) \/ OpenDone(c) \/ CheckBatch(c) \/ ClearStage(c) \/ Reserve(c)
             \/ Post(c) \/ StageFull(c) \/ StageStore(c) \/ StageUnlocks(c) \/ StageRetakes(c)
             \/ CountLoad(c) \/ CountStore(c) \/ LoadStep(c)
      PROVE  LoadsAskForLast'
  <2>1. /\ stored' = stored /\ arg' = arg
        /\ \A d \in Cpus : pc'[d] \in LoadPcs => pc[d] \in LoadPcs
    BY <1>0, <1>6
       DEF EnterWrite, OpenDone, CheckBatch, ClearStage, Reserve, Post, StageFull, StageStore,
           StageUnlocks, StageRetakes, TakeSlot, CountLoad, CountStore, LoadStep, StageHit,
           StageMiss, ReadHangs, RdmaRead, Goto, swapVars, LoadPcs, DriverTypeOK
  <2>2. QED
    BY <2>1, AskingStep
<1>7. ASSUME UNCHANGED driverVars PROVE LoadsAskForLast'
  BY <1>7, AskingStep DEF driverVars, callVars, swapVars
<1>8. QED
  BY <1>1, <1>2, <1>3, <1>4, <1>5, <1>6, <1>7 DEF AnyDriverStep, DriverStep

----------------------------------------------------------------------------
(* How the steps of the driver change what a caller sees. *)

LEMMA StagedIsOffsets == Staged' \in SUBSET Offsets
BY DEF Staged

\* A step within a call is seen as nothing, or as a change of what is staged.
LEMMA InnerStep ==
    ASSUME UNCHANGED <<arg, got, stored, stores>>,
           \A d \in Cpus : /\ pc'[d] \in StorePcs <=> pc[d] \in StorePcs
                           /\ pc'[d] = "idle" <=> pc[d] = "idle"
    PROVE  [StagedStore!StoreNext]_(StagedStore!storeVars)
<1>1. SwapCalls' = SwapCalls
  BY DEF SwapCalls, SwapCall
<1>2. StagedStore!Vouch
  BY <1>1, StagedIsOffsets DEF StagedStore!Vouch
<1>3. QED
  BY <1>2 DEF StagedStore!StoreNext

\* No call under way is on an offset that is not busy.
LEMMA FreeWhenNotBusy ==
    ASSUME NEW o \in Offsets, ~Busy(o)
    PROVE  StagedStore!Free(o)
BY NoneAssumption DEF Busy, StagedStore!Free, SwapCalls, SwapCall

LEMMA BeginStep ==
    ASSUME DriverInv, LoadsConform, NEW c \in Cpus, Kernel(c)
    PROVE  StagedStore!StoreNext
<1>0. DriverTypeOK
  BY DEF DriverInv
<1>1. SwapCalls[c] = None \/ pc[c] # "idle"
  BY DEF SwapCalls, SwapCall
<1>2. PICK o \in Offsets : StoreBegin(c, o) \/ StoreUnmapped(c, o) \/ LoadBegin(c, o)
  BY DEF Kernel
<1>3. pc[c] = "idle" /\ got[c] = None /\ StagedStore!Free(o)
  BY <1>2, FreeWhenNotBusy DEF StoreBegin, StoreUnmapped, LoadBegin, LoadsConform
<1>4. SwapCalls \in [Cpus -> {SwapCall(d) : d \in Cpus}] /\ SwapCalls[c] = None
  BY <1>1, <1>3 DEF SwapCalls
<1>5. CASE StoreBegin(c, o)
  <2>1. /\ pc' = [pc EXCEPT ![c] = "lock"] /\ got' = got /\ stored' = stored
        /\ arg' = [arg EXCEPT ![c] = [off |-> o, ver |-> stores + 1]]
        /\ stores < MaxStores /\ stores' = stores + 1 /\ checkList' = checkList /\ raced' = raced
    BY <1>5 DEF StoreBegin, Goto, stageVars
  <2>2. SwapCalls' = [SwapCalls EXCEPT ![c] =
                        [op |-> "store", page |-> [off |-> o, ver |-> stores + 1], got |-> None]]
    BY <1>0, <1>3, <2>1 DEF SwapCalls, SwapCall, StorePcs, DriverTypeOK
  <2>3. StagedStore!StoreBegins(c, o)
    BY <1>3, <1>4, <2>1, <2>2 DEF StagedStore!StoreBegins, StagedStore!NewCall, Staged
  <2>4. QED
    BY <2>3 DEF StagedStore!StoreNext
<1>6. CASE StoreUnmapped(c, o)
  <2>1. SwapCalls' = SwapCalls /\ Staged' = Staged
    BY <1>6 DEF StoreUnmapped, callVars, stageVars, SwapCalls, SwapCall, Staged
  <2>2. StagedStore!StoreRefused(o)
    BY <1>3, <1>6, <2>1 DEF StoreUnmapped, StagedStore!StoreRefused
  <2>3. QED
    BY <2>2 DEF StagedStore!StoreNext
<1>7. CASE LoadBegin(c, o)
  <2>1. /\ pc' = [pc EXCEPT ![c] = "load"] /\ got' = got /\ stored' = stored
        /\ arg' = [arg EXCEPT ![c] = [off |-> o, ver |-> stored[o]]]
        /\ stored[o] # 0 /\ stores' = stores /\ checkList' = checkList /\ raced' = raced
    BY <1>7 DEF LoadBegin, Goto, stageVars, swapVars
  <2>2. SwapCalls' = [SwapCalls EXCEPT ![c] =
                        [op |-> "load", page |-> [off |-> o, ver |-> stored[o]], got |-> None]]
    BY <1>0, <1>3, <2>1 DEF SwapCalls, SwapCall, StorePcs, DriverTypeOK
  <2>3. StagedStore!LoadBegins(c, o)
    BY <1>3, <1>4, <2>1, <2>2 DEF StagedStore!LoadBegins, StagedStore!NewCall, Staged
  <2>4. QED
    BY <2>3 DEF StagedStore!StoreNext
<1>8. QED
  BY <1>2, <1>5, <1>6, <1>7

\* A call that returns is no call any more.
LEMMA ReturnedCall ==
    ASSUME DriverTypeOK, NEW c \in Cpus, Return(c)
    PROVE  SwapCalls' = [SwapCalls EXCEPT ![c] = None]
BY DEF Return, Goto, SwapCalls, SwapCall, DriverTypeOK

\* What a caller sees of a CPU within a call is a call.
LEMMA CallOfCpu ==
    ASSUME DriverTypeOK, NEW c \in Cpus, pc[c] # "idle"
    PROVE  /\ SwapCalls[c] # None /\ SwapCalls[c].page = arg[c]
           /\ SwapCalls[c].op = (IF pc[c] \in StorePcs THEN "store" ELSE "load")
           /\ SwapCalls[c].got = got[c]
           /\ arg[c] \in Page
<1>1. arg[c] \in Page /\ got[c] \in Content
  BY DEF DriverTypeOK, Content
<1>2. PICK op \in {"store", "load"} : op = IF pc[c] \in StorePcs THEN "store" ELSE "load"
  OBVIOUS
<1>3. SwapCalls[c] = [op |-> op, page |-> arg[c], got |-> got[c]]
  BY <1>2 DEF SwapCalls, SwapCall
<1>4. SwapCalls[c] \in FrontswapCall
  BY <1>1, <1>3 DEF FrontswapCall
<1>5. QED
  BY <1>1, <1>2, <1>3, <1>4, NoCallAssumption

LEMMA StoreReturns ==
    ASSUME DriverTypeOK, NEW c \in Cpus, pc[c] \in StorePcs, NEW ok \in BOOLEAN,
           StoreResult(c, ok), UNCHANGED <<checkList, raced>>
    PROVE  StagedStore!StoreNext
<1>1. SwapCalls[c] # None /\ SwapCalls[c].op = "store" /\ SwapCalls[c].page = arg[c]
  BY CallOfCpu DEF StorePcs
<1>2. SwapCalls' = [SwapCalls EXCEPT ![c] = None]
  BY ReturnedCall DEF StoreResult
<1>3. UNCHANGED stores /\ Staged' = Staged
  BY DEF StoreResult, Staged
<1>4. \E v \in {0, arg[c].ver} : stored' = [stored EXCEPT ![arg[c].off] = v]
  BY DEF StoreResult
<1>5. StagedStore!StoreEnds(c)
  BY <1>1, <1>2, <1>3, <1>4 DEF StagedStore!StoreEnds
<1>6. QED
  BY <1>5 DEF StagedStore!StoreNext

\* A load that ends, with its page or not.
LEMMA LoadEnding ==
    ASSUME DriverTypeOK, NEW c \in Cpus, LoadReturns(c)
    PROVE  StagedStore!StoreNext
<1>1. pc[c] \in {"loaded", "read"} /\ Return(c)
      /\ UNCHANGED <<checkList, raced, stored, stores>>
  BY DEF LoadReturns, LoadDone, ReadFails, stageVars, swapVars
<1>2. SwapCalls[c] # None /\ SwapCalls[c].op = "load"
  BY <1>1, CallOfCpu DEF StorePcs
<1>3. SwapCalls' = [SwapCalls EXCEPT ![c] = None] /\ Staged' = Staged
  BY <1>1, ReturnedCall DEF Staged
<1>4. StagedStore!LoadEnds(c)
  BY <1>1, <1>2, <1>3 DEF StagedStore!LoadEnds
<1>5. QED
  BY <1>4 DEF StagedStore!StoreNext

\* What a caller sees of a load that gets its page.
LEMMA GotCall ==
    ASSUME DriverTypeOK, NEW c \in Cpus, NEW d \in Content,
           pc[c] \in {"load", "read"}, got' = [got EXCEPT ![c] = d], Goto(c, "loaded"), UNCHANGED arg
    PROVE  /\ SwapCalls[c] # None /\ SwapCalls[c].op = "load" /\ SwapCalls[c].page = arg[c]
           /\ SwapCalls' = [SwapCalls EXCEPT ![c].got = d]
<1>0. DriverTypeOK
  OBVIOUS
<1>1. pc[c] # "idle" /\ pc[c] \notin StorePcs /\ pc'[c] = "loaded"
  BY <1>0 DEF Goto, DriverTypeOK, StorePcs
<1>2. /\ SwapCalls[c] # None /\ SwapCalls[c].op = "load" /\ SwapCalls[c].page = arg[c]
      /\ SwapCalls[c] = [op |-> "load", page |-> arg[c], got |-> got[c]]
  BY <1>0, <1>1, CallOfCpu DEF SwapCalls, SwapCall
<1>3. SwapCalls' = [SwapCalls EXCEPT ![c].got = d]
  <2>1. SwapCalls'[c] = [op |-> "load", page |-> arg[c], got |-> d]
    BY <1>0, <1>1 DEF SwapCalls, SwapCall, StorePcs, DriverTypeOK
  <2>2. \A e \in Cpus : e # c => SwapCalls'[e] = SwapCalls[e]
    BY <1>0 DEF SwapCalls, SwapCall, Goto, DriverTypeOK
  <2>3. SwapCalls' = [SwapCalls EXCEPT ![c] = [op |-> "load", page |-> arg[c], got |-> d]]
    BY <2>1, <2>2 DEF SwapCalls
  <2>4. QED
    BY <1>2, <2>3
<1>4. QED
  BY <1>2, <1>3

\* A load gets a page: the staged copy is the last store's, and what a server
\* returns is asked for only when the offset is not staged.
LEMMA LoadGetting ==
    ASSUME DriverTypeOK, NEW c \in Cpus, NEW d \in Content,
           pc[c] \in {"load", "read"}, got' = [got EXCEPT ![c] = d], Goto(c, "loaded"),
           UNCHANGED <<checkList, raced, arg, stored, stores>>,
           arg[c].off \in Staged => d = arg[c]
    PROVE  StagedStore!StoreNext
<1>1. d \in IF arg[c].off \in Staged THEN {arg[c]} ELSE Content
  OBVIOUS
<1>2. /\ SwapCalls[c] # None /\ SwapCalls[c].op = "load" /\ SwapCalls[c].page = arg[c]
      /\ SwapCalls' = [SwapCalls EXCEPT ![c].got = d]
  BY GotCall
<1>3. StagedStore!LoadGets(c)
  BY <1>1, <1>2 DEF StagedStore!LoadGets, StagedStore!Content, StagedStore!Page,
     Content, Page, Staged
<1>4. QED
  BY <1>3 DEF StagedStore!StoreNext

\* What a load finds staged is what it asks for.
LEMMA StagedPageIsAsked ==
    ASSUME DriverInv, LoadsAskForLast, NEW c \in Cpus, StageHit(c)
    PROVE  /\ slot[checkList[arg[c].off]] \in Content
           /\ arg[c].off \in Staged => slot[checkList[arg[c].off]] = arg[c]
<1>0. DriverTypeOK /\ StagedCopyIsLatest /\ OneCallPerOffset
  BY DEF DriverInv
<1>1. pc[c] = "load" /\ checkList[arg[c].off] # None
  BY DEF StageHit
<1>2. arg[c] \in Page /\ arg[c].ver = stored[arg[c].off]
  BY <1>0, <1>1, CallOfCpu DEF LoadsAskForLast, LoadPcs
<1>3. arg[c].off \in Offsets /\ stored[arg[c].off] # 0
      /\ arg[c] = [off |-> arg[c].off, ver |-> arg[c].ver]
  BY <1>2, MaxStoresAssumption DEF Page
<1>4. slot[checkList[arg[c].off]] \in Content
  BY <1>0, <1>1, <1>3 DEF DriverTypeOK
<1>5. ~ \E d \in Cpus : Storing(d, arg[c].off)
  BY <1>0, <1>1 DEF OneCallPerOffset, Storing, StorePcs
<1>6. arg[c].off \in Staged => slot[checkList[arg[c].off]] = arg[c]
  BY <1>0, <1>2, <1>3, <1>5 DEF Staged, StagedCopyIsLatest, StageIntact, SlotIntact
<1>7. QED
  BY <1>4, <1>6

LEMMA LoadingStep ==
    ASSUME DriverInv, LoadsConform, LoadsAskForLast, NEW c \in Cpus, LoadStep(c)
    PROVE  [StagedStore!StoreNext]_(StagedStore!storeVars)
<1>0. DriverTypeOK
  BY DEF DriverInv
<1>1. CASE StageMiss(c) \/ ReadHangs(c)
  BY <1>0, <1>1, InnerStep DEF StageMiss, ReadHangs, Goto, swapVars, StorePcs, DriverTypeOK
<1>2. CASE StageHit(c)
  <2>1. /\ pc[c] = "load" /\ got' = [got EXCEPT ![c] = slot[checkList[arg[c].off]]]
        /\ Goto(c, "loaded") /\ UNCHANGED <<checkList, raced, arg, stored, stores>>
    BY <1>2 DEF StageHit, stageVars, swapVars
  <2>2. QED
    BY <1>0, <1>2, <2>1, StagedPageIsAsked, LoadGetting
<1>3. ASSUME NEW s \in Servers, NEW d \in Content, RdmaRead(c, s, d)
      PROVE  StagedStore!StoreNext
  <2>1. /\ pc[c] = "read" /\ got' = [got EXCEPT ![c] = d] /\ Goto(c, "loaded")
        /\ UNCHANGED <<checkList, raced, arg, stored, stores>>
    BY <1>3 DEF RdmaRead, stageVars, swapVars
  <2>2. arg[c].off \notin Staged
    BY <2>1 DEF LoadsConform, Staged
  <2>3. QED
    BY <1>0, <2>1, <2>2, LoadGetting
<1>4. QED
  BY <1>1, <1>2, <1>3 DEF LoadStep

LEMMA StoreStep ==
    ASSUME DriverInv, LoadsConform, LoadsAskForLast, AnyDriverStep
    PROVE  [StagedStore!StoreNext]_(StagedStore!storeVars)
<1>0. DriverTypeOK
  BY DEF DriverInv
<1>1. ASSUME NEW c \in Cpus, Kernel(c) PROVE StagedStore!StoreNext
  BY <1>1, BeginStep
<1>2. ASSUME NEW c \in Cpus, OpenFailed(c) \/ SendFails(c) PROVE StagedStore!StoreNext
  <2>1. /\ pc[c] \in StorePcs /\ UNCHANGED <<checkList, raced>>
        /\ \E ok \in BOOLEAN : StoreResult(c, ok)
    BY <1>2 DEF OpenFailed, SendFails, PostFails, PollSend, stageVars, StorePcs
  <2>2. QED
    BY <1>0, <2>1, StoreReturns
<1>3. ASSUME NEW c \in Cpus, ResetCount(c)
      PROVE  [StagedStore!StoreNext]_(StagedStore!storeVars)
  <2>1. CASE err[c]
    BY <1>0, <1>3, <2>1, StoreReturns DEF ResetCount, StorePcs
  <2>2. CASE ~err[c]
    BY <1>0, <1>3, <2>2, InnerStep DEF ResetCount, Goto, swapVars, StorePcs, DriverTypeOK
  <2>3. QED
    BY <2>1, <2>2
<1>4. ASSUME NEW c \in Cpus, RpcStep(c)
      PROVE  [StagedStore!StoreNext]_(StagedStore!storeVars)
  BY <1>0, <1>4, InnerStep
     DEF RpcStep, OpenSkip, OpenCall, CommitCall, OpenReturn, CommitReturn, Goto, swapVars,
         StorePcs, DriverTypeOK
<1>5. ASSUME NEW c \in Cpus, LoadReturns(c) PROVE StagedStore!StoreNext
  BY <1>0, <1>5, LoadEnding
<1>6. ASSUME NEW c \in Cpus,
             \/ EnterWrite(c) \/ OpenDone(c) \/ CheckBatch(c) \/ ClearStage(c) \/ Reserve(c)
             \/ Post(c) \/ StageFull(c) \/ StageStore(c) \/ StageUnlocks(c) \/ StageRetakes(c)
             \/ CountLoad(c) \/ CountStore(c)
      PROVE  [StagedStore!StoreNext]_(StagedStore!storeVars)
  <2>1. /\ UNCHANGED <<arg, got, stored, stores>>
        /\ \A d \in Cpus : /\ pc'[d] \in StorePcs <=> pc[d] \in StorePcs
                           /\ pc'[d] = "idle" <=> pc[d] = "idle"
    BY <1>0, <1>6
       DEF EnterWrite, OpenDone, CheckBatch, ClearStage, Reserve, Post, StageFull, StageStore,
           StageUnlocks, StageRetakes, TakeSlot, CountLoad, CountStore, Goto, swapVars,
           StorePcs, DriverTypeOK
  <2>2. QED
    BY <2>1, InnerStep
<1>7. ASSUME NEW c \in Cpus, LoadStep(c)
      PROVE  [StagedStore!StoreNext]_(StagedStore!storeVars)
  BY <1>7, LoadingStep
<1>8. ASSUME UNCHANGED driverVars PROVE UNCHANGED StagedStore!storeVars
  BY <1>8 DEF driverVars, stageVars, callVars, swapVars, StagedStore!storeVars, SwapCalls,
     SwapCall, Staged
<1>9. QED
  BY <1>1, <1>2, <1>3, <1>4, <1>5, <1>6, <1>7, <1>8 DEF AnyDriverStep, DriverStep

LEMMA StoreInits == DriverInit => StagedStore!StoreInit
<1> SUFFICES ASSUME DriverInit PROVE StagedStore!StoreInit
  OBVIOUS
<1>1. SwapCalls = [c \in Cpus |-> None]
  BY DEF DriverInit, SwapCalls, SwapCall
<1>2. QED
  BY <1>1 DEF DriverInit, StagedStore!StoreInit, Staged

\* Whatever the servers answer and whatever fails, the driver is a frontswap
\* backend (maruswap_multicast_write and maruswap_rdma_read under the calls of
\* drive/maruswap.c): it answers for the offsets it has staged.
THEOREM DriverRefinesStore == DriverSpec => DriverImplementsStore
<1>1. DriverInit => LoadsConform /\ LoadsAskForLast
  BY LoadsInit DEF DriverInit, LoadsAskForLast, LoadPcs
<1>2. DriverInv /\ [DriverNext]_driverVars => AnyDriverStep
  BY StepCases DEF DriverInv
<1>3. QED
  BY <1>1, <1>2, StoreInits, StoreStep, LoadsStep, AskStep, DriverInvariant, PTL
     DEF DriverSpec, DriverImplementsStore, StagedStore!StoreSpec
=============================================================================
