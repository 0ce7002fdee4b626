-------------------------------- MODULE Rpc --------------------------------
(***************************************************************************)
(* The driver's remote procedure call, __ib_rpc of drive/sib.c, and the    *)
(* answer lib/handler.c gives.  A call takes one of 256 binders, writes it *)
(* into the low byte of the request's immediate value, and polls until a   *)
(* reply has marked that binder; the server echoes the immediate value.    *)
(* ctrl.spinlock is held: one call at a time, to either server.            *)
(***************************************************************************)
EXTENDS Header, Sequences, FiniteSets

CONSTANTS
    Servers,    \* the far memory servers
    Offsets,    \* the page offsets blocks are opened for
    Binders,    \* bound: the binders get_random comes up with
    MaxCalls,   \* bound: the number of calls
    Faults,     \* what may fail: "post", "send", "recv"
    None        \* no reply, an rkey of 0

ASSUME RpcAssumption ==
    /\ Offsets \subseteq 0 .. MAX_MEMBLOCK * BlockPages - 1
    /\ Binders \subseteq Binder /\ MaxCalls \in Nat /\ None \notin Int

VARIABLES
    flags,      \* binders[].flags: 0 free, 1 taken, 2 answered
    private,    \* binders[].private, while answered: the block the reply is about
    info,       \* rdma_info: per server and block, the memory block the rkey is of
    pc,         \* where __ib_rpc is
    call,       \* its server, opcode and offset
    binder,     \* its binder
    requests,   \* per server, immediate values on their way
    replies,    \* per server, replies on their way: immediate value and block
    broken,     \* per server, the queue pair is in the error state
    calls,      \* number of calls begun
    failures    \* history: calls that returned an error

wireVars == <<requests, replies, broken>>
vars == <<flags, private, info, pc, call, binder, wireVars, calls, failures>>

\* The entries of binders and rdma_info that can come up.
Blocks == {get_num_memblock(o) : o \in Offsets}
Reachable == Binders \cup {OrBytes(b, o % 256) : b \in Binders, o \in Offsets}

----------------------------------------------------------------------------
(* The driver. *)

Begin(s, opcode, o) ==
    /\ pc = "idle" /\ calls < MaxCalls
    /\ calls' = calls + 1
    /\ call' = [srv |-> s, opcode |-> opcode, offset |-> o]
    /\ pc' = "binder"
    /\ UNCHANGED <<flags, private, info, binder, wireVars, failures>>

\* ib_rpc_open_unlocked: unless the block's rkey is known.
BeginOpen(s, o) ==
    /\ info[s][get_num_memblock(o)] = None
    /\ Begin(s, open_opcode(o), o)

\* ib_rpc_commit_unlocked
BeginCommit(s) == Begin(s, commit_opcode, None)

\* __get_binder tries random binders until one is free.
GetBinder(b) ==
    /\ pc = "binder" /\ flags[b] = 0
    /\ flags' = [flags EXCEPT ![b] = 1]
    /\ binder' = b
    /\ pc' = "post"
    /\ UNCHANGED <<private, info, call, wireVars, calls, failures>>

PostRequest ==
    /\ pc = "post"
    /\ requests' = IF broken[call.srv] THEN requests
                   ELSE [requests EXCEPT ![call.srv] =
                           Append(@, imm_data(call.opcode, binder))]
    /\ pc' = "send"
    /\ UNCHANGED <<flags, private, info, call, binder, replies, broken, calls, failures>>

SendCompletes ==
    /\ pc = "send" /\ ~broken[call.srv]
    /\ pc' = "wait"
    /\ UNCHANGED <<flags, private, info, call, binder, wireVars, calls, failures>>

\* The three error returns; none of them calls __put_binder.
Fail ==
    /\ failures' = failures + 1
    /\ pc' = "idle" /\ call' = None /\ binder' = None
    /\ UNCHANGED <<flags, private, info, requests, replies, calls>>

PostFails ==
    /\ pc = "post" /\ "post" \in Faults
    /\ Fail
    /\ UNCHANGED broken

SendFails ==
    /\ pc = "send" /\ ("send" \in Faults \/ broken[call.srv])
    /\ Fail
    /\ broken' = [broken EXCEPT ![call.srv] = TRUE]

RecvFails ==
    /\ pc = "wait" /\ flags[binder] # 2 /\ "recv" \in Faults
    /\ Fail
    /\ broken' = [broken EXCEPT ![call.srv] = TRUE]

\* A reply marks the binder it names, whoever that binder belongs to.
PollReply ==
    /\ pc = "wait" /\ flags[binder] # 2 /\ replies[call.srv] # <<>>
    /\ LET r == Head(replies[call.srv])
           bi == reply_binder(r.imm)
       IN /\ private' = [private EXCEPT ![bi] = r.block]
          /\ flags' = [flags EXCEPT ![bi] = 2]
    /\ replies' = [replies EXCEPT ![call.srv] = Tail(@)]
    /\ UNCHANGED <<info, pc, call, binder, requests, broken, calls, failures>>

\* __put_binder
put_binder_skipped(b) == flags                          \* mutant
put_binder(b) == [flags EXCEPT ![b] = 0]

\* The reply is copied out, and the binder freed.
Return ==
    /\ pc = "wait" /\ flags[binder] = 2
    /\ info' = IF call.offset = None THEN info
               ELSE [info EXCEPT ![call.srv][get_num_memblock(call.offset)] =
                       private[binder]]
    /\ flags' = put_binder(binder)
    /\ private' = [private EXCEPT ![binder] = None]
    /\ pc' = "idle" /\ call' = None /\ binder' = None
    /\ UNCHANGED <<wireVars, calls, failures>>

----------------------------------------------------------------------------
(* The server: the reply carries the immediate value of the request. *)

Serve(s) ==
    /\ requests[s] # <<>>
    /\ LET h == Head(requests[s])
           d == interpret_header(h)
           block == IF d.opcode = OPEN THEN d.nr_buffer ELSE None
       IN replies' = [replies EXCEPT ![s] = Append(@, [imm |-> h, block |-> block])]
    /\ requests' = [requests EXCEPT ![s] = Tail(@)]
    /\ UNCHANGED <<flags, private, info, pc, call, binder, broken, calls, failures>>

----------------------------------------------------------------------------
(* The specification. *)

Init ==
    /\ flags = [b \in Reachable |-> 0] /\ private = [b \in Reachable |-> None]
    /\ info = [s \in Servers |-> [m \in Blocks |-> None]]
    /\ pc = "idle" /\ call = None /\ binder = None
    /\ requests = [s \in Servers |-> <<>>] /\ replies = [s \in Servers |-> <<>>]
    /\ broken = [s \in Servers |-> FALSE]
    /\ calls = 0 /\ failures = 0

CallStep ==
    \/ \E b \in Binders : GetBinder(b)
    \/ PostRequest \/ PostFails \/ SendCompletes \/ SendFails
    \/ PollReply \/ RecvFails \/ Return

\* The bounded workload is over.
Done == calls = MaxCalls /\ pc = "idle" /\ UNCHANGED vars

Next ==
    \/ \E s \in Servers : BeginCommit(s) \/ (\E o \in Offsets : BeginOpen(s, o)) \/ Serve(s)
    \/ CallStep
    \/ Done

Spec == Init /\ [][Next]_vars

\* The steps of a call in which nothing fails, or what is broken already does.
Progress ==
    \/ \E b \in Binders : GetBinder(b)
    \/ PostRequest \/ SendCompletes \/ PollReply \/ Return
    \/ pc = "send" /\ broken[call.srv] /\ SendFails

\* __ib_rpc and the server poll without end; nothing obliges a step to fail.
FairSpec == Spec /\ WF_vars(Progress) /\ \A s \in Servers : WF_vars(Serve(s))

----------------------------------------------------------------------------
(* Properties. *)

\* Every variable holds a value of its type.
RpcTypeOK ==
    /\ flags \in [Reachable -> 0 .. 2] /\ private \in [Reachable -> Blocks \cup {None}]
    /\ info \in [Servers -> [Blocks -> Blocks \cup {None}]]
    /\ pc \in {"idle", "binder", "post", "send", "wait"}
    /\ call \in [srv : Servers, opcode : Nat, offset : Offsets \cup {None}] \cup {None}
    /\ binder \in Binders \cup {None}
    /\ requests \in [Servers -> Seq(Nat)]
    /\ replies \in [Servers -> Seq([imm : Nat, block : Blocks \cup {None}])]
    /\ broken \in [Servers -> BOOLEAN] /\ calls \in 0 .. MaxCalls /\ failures \in Nat

\* The rkey the driver keeps for a block is of that block: a call takes no other
\* call's reply, and both ends find the same block in the header.
InfoNamesBlock ==
    \A s \in Servers, m \in Blocks : info[s][m] \in {m, None}

\* A binder that is not free belongs to the call in progress or was left behind by
\* one that failed: a call that succeeds gives its binder back (__put_binder).
BindersAccounted ==
    Cardinality({b \in Reachable : flags[b] # 0})
      = failures + (IF pc \in {"post", "send", "wait"} THEN 1 ELSE 0)

\* A call returns, with ctrl.spinlock held all the while, unless the calls that
\* failed have used up the binders.
CallsReturn ==
    pc # "idle" ~> (pc = "idle" \/ failures >= Cardinality(Binders))

\* The low byte of a header is the binder, as handler.c:11-19 lays it out: a reply
\* names the call that waits for it.
ReplyCarriesBinder ==
    pc = "wait" =>
        \A i \in DOMAIN replies[call.srv] : reply_binder(replies[call.srv][i].imm) = binder
=============================================================================
