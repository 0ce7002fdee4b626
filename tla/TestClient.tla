----------------------------- MODULE TestClient -----------------------------
(***************************************************************************)
(* The clients a far memory server meets.  One is any program that sends   *)
(* pages and calls in any order.  The other is the test the repository     *)
(* runs against its servers, client/main.c with test_rpc_open of           *)
(* lib/test.c: it opens the blocks, multicasts pages at random offsets,    *)
(* asks for a commit after every CONFIG_BATCH of them, and reads each page *)
(* of the batch back by RDMA READ.  lib/rpc.c and lib/ib.c are its calls.  *)
(***************************************************************************)
EXTENDS FarServer

CONSTANTS
    Main,           \* the server the test calls and reads
    BlockOrder,     \* the blocks in the order the test opens them
    AnyStores       \* bound: the pages any other program sends

ASSUME MainAssumption == Main \in Servers
ASSUME BlockOrderAssumption == BlockOrder \in Seq(Blocks) /\ BlockOrder # <<>>
ASSUME OneBatchAssumption == SERVER_BATCH <= MaxStores  \* the test sends whole batches

VARIABLES
    client,     \* the program that runs: "any" or "test"
    step,       \* where test_rpc_open is
    opened,     \* list: the number of blocks whose address is known
    offsetlist, \* the offsets of the batch, slot by slot
    sent,       \* batch: pages sent
    ia,         \* the next page to read back
    net,        \* pages multicast and not delivered
    dropped     \* history: a page was lost

testVars == <<client, step, opened, offsetlist, sent, ia, net, dropped>>
testSystemVars == <<serverVars, testVars>>

Steps == {"open", "opening", "send", "sending", "commit", "committing", "check"}
Ends == {"passed", "mismatch", "aborted"}

SlotOf(n) == n % SERVER_BATCH

\* The random offsets have 22 bits: their 16 blocks are among the 25 opened.
TestOffsets == {o \in Offsets : BlockOf[o] \in Elems(BlockOrder)}

----------------------------------------------------------------------------
(* test_rpc_open. *)

\* ib_rpc posts the request and polls for the reply that carries its binder, then
\* for the completion of the request, so one call at a time is open.
OpenBlock ==
    /\ step = "open"
    /\ Call(Main, [op |-> "open", block |-> BlockOrder[opened + 1], count |-> 0])
    /\ step' = "opening"
    /\ UNCHANGED <<client, opened, offsetlist, sent, ia, net, dropped>>

OpenedBlock ==
    /\ step = "opening" /\ TakeReply(Main)
    /\ opened' = opened + 1
    /\ step' = IF opened' = Len(BlockOrder) THEN "send" ELSE "open"
    /\ UNCHANGED <<client, offsetlist, sent, ia, net, dropped>>

\* A page at a random offset; __ib_multi_send posts it to the group ...
SendPage(o) ==
    /\ step = "send"
    /\ offsetlist' = [offsetlist EXCEPT ![SlotOf(sent)] = o]
    /\ sent' = sent + 1
    /\ net' = [s \in Servers |-> Append(net[s], [off |-> o, ver |-> sent + 1])]
    /\ step' = "sending"
    /\ UNCHANGED <<serverVars, client, opened, ia, dropped>>

\* ... and polls for its completion.  A failed one ends the test.
SentPage(ok) ==
    /\ step = "sending"
    /\ step' = CASE ~ok                  -> "aborted"
                 [] SlotOf(sent) = 0     -> "commit"
                 [] OTHER                -> "send"
    /\ UNCHANGED <<serverVars, client, opened, offsetlist, sent, ia, net, dropped>>

CommitBatch ==
    /\ step = "commit"
    /\ Call(Main, [op |-> "commit", block |-> None, count |-> 0])
    /\ step' = "committing"
    /\ UNCHANGED <<client, opened, offsetlist, sent, ia, net, dropped>>

CommittedBatch ==
    /\ step = "committing" /\ TakeReply(Main)
    /\ step' = "check"
    /\ UNCHANGED <<client, opened, offsetlist, sent, ia, net, dropped>>

\* The number a page holds is its offset: a copy of any age reads the same.
ReadsBack(o) == mem[Main][o] # None /\ mem[Main][o].off = o

\* The bounded test is over.
LastBatch == sent + SERVER_BATCH > MaxStores

\* The pages of the batch are read back one by one, from the address the open of
\* their block returned; the first that differs ends the test.
CheckPage(ok) ==
    /\ step = "check"
    /\ IF ok /\ ReadsBack(offsetlist[SlotOf(ia)])
       THEN /\ ia' = ia + 1
            /\ step' = CASE ia' < sent -> "check" [] LastBatch -> "passed" [] OTHER -> "send"
       ELSE /\ step' = IF ok THEN "mismatch" ELSE "aborted"
            /\ UNCHANGED ia
    /\ UNCHANGED <<serverVars, client, opened, offsetlist, sent, net, dropped>>

TestStep ==
    \/ OpenBlock \/ OpenedBlock
    \/ \E o \in TestOffsets : SendPage(o)
    \/ \E ok \in BOOLEAN : SentPage(ok) \/ CheckPage(ok)
    \/ CommitBatch \/ CommittedBatch

----------------------------------------------------------------------------
(* The network, and the server's threads. *)

Deliver(s) ==
    /\ net[s] # <<>>
    /\ Receive(s, Head(net[s]))
    /\ net' = [net EXCEPT ![s] = Tail(@)]
    /\ UNCHANGED <<client, step, opened, offsetlist, sent, ia, dropped>>

\* A datagram is lost, in the network or for want of a posted buffer.
Drop(s) ==
    /\ net[s] # <<>>
    /\ net' = [net EXCEPT ![s] = Tail(@)]
    /\ dropped' = TRUE
    /\ UNCHANGED <<serverVars, client, step, opened, offsetlist, sent, ia>>

MulticastThreadRuns(s) == MulticastThread(s) /\ UNCHANGED testVars

RdmaThreadRuns(s) == RdmaThread(s) /\ UNCHANGED testVars

----------------------------------------------------------------------------
(* The specification. *)

TestInit ==
    /\ FarInit
    /\ client \in {"any", "test"}
    /\ step = "open" /\ opened = 0 /\ sent = 0 /\ ia = 0
    /\ offsetlist = [i \in 0 .. SERVER_BATCH - 1 |-> None]
    /\ net = [s \in Servers |-> <<>>] /\ dropped = FALSE

ClientRuns ==
    \/ client = "test" /\ TestStep
    \/ client = "any" /\ UNCHANGED testVars
       /\ \E s \in Servers : ClientStep(s) /\ Cardinality(delivered'[s]) <= AnyStores

TestNext ==
    \/ ClientRuns
    \/ \E s \in Servers :
         Deliver(s) \/ Drop(s) \/ MulticastThreadRuns(s) \/ RdmaThreadRuns(s)

TestSpec == TestInit /\ [][TestNext]_testSystemVars

\* The test goes on as long as it can; the threads poll for ever; the network
\* delivers or drops.
TestFairSpec ==
    /\ TestSpec
    /\ WF_testSystemVars(client = "test" /\ TestStep)
    /\ \A s \in Servers :
         /\ WF_testSystemVars(Deliver(s) \/ Drop(s))
         /\ WF_testSystemVars(MulticastThreadRuns(s))
         /\ WF_testSystemVars(RdmaThreadRuns(s))

----------------------------------------------------------------------------
(* Properties. *)

\* Every variable holds a value of its type.
TestTypeOK ==
    /\ FarTypeOK
    /\ client \in {"any", "test"} /\ step \in Steps \cup Ends
    /\ opened \in 0 .. Len(BlockOrder)
    /\ offsetlist \in [0 .. SERVER_BATCH - 1 -> Offsets \cup {None}]
    /\ sent \in 0 .. MaxStores /\ ia \in 0 .. sent
    /\ net \in [Servers -> Seq(Page)] /\ dropped \in BOOLEAN

\* Every page read back after a commit is the page that was sent (lib/test.c:255).
ReadBackMatches == step # "mismatch"

\* So it is, whatever is lost, unless a commit was answered on an empty
\* commit_list (__process_rdma_rpc_commit).
ReadBackMatchesUnlessEarly == ~early[Main] => ReadBackMatches

\* The test ends: every batch it sends is committed, however the server's threads
\* interleave, unless a page is lost (ib_rpc polls for ever).
TestEnds == client = "test" ~> step \in Ends \/ dropped
=============================================================================
