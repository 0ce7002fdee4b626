------------------------------ MODULE SwapStore ------------------------------
(***************************************************************************)
(* What frontswap asks of a backend (drive/maruswap.c:                     *)
(* maruswap_frontswap_store and maruswap_frontswap_load over any of the    *)
(* drivers): stores and loads overlap, one at a time on an offset; a store *)
(* succeeds or leaves frontswap without the page; a load of an offset the  *)
(* backend vouches for returns what its last store wrote.                  *)
(***************************************************************************)
EXTENDS SwapPages

CONSTANT Cpus

VARIABLES
    begun,      \* number of stores begun
    last,       \* per offset, the store frontswap would load; 0: none
    call,       \* the call each CPU is in, or None
    vouched     \* offsets whose load must return the last store

storeVars == <<begun, last, call, vouched>>

Free(o) == \A c \in Cpus : call[c] # None => call[c].page.off # o

NewCall(c, op, o, v) ==
    /\ call[c] = None /\ Free(o)
    /\ call' = [call EXCEPT ![c] = [op |-> op, page |-> [off |-> o, ver |-> v], got |-> None]]

StoreBegins(c, o) ==
    /\ begun < MaxStores /\ begun' = begun + 1
    /\ NewCall(c, "store", o, begun + 1)
    /\ UNCHANGED <<last, vouched>>

\* The page cannot be mapped: the store fails at once.
StoreRefused(o) ==
    /\ begun < MaxStores /\ begun' = begun + 1
    /\ Free(o)
    /\ last' = [last EXCEPT ![o] = 0]
    /\ UNCHANGED <<call, vouched>>

\* frontswap keeps the page on success and forgets the offset on failure.
StoreEnds(c) ==
    /\ call[c] # None /\ call[c].op = "store"
    /\ \E v \in {0, call[c].page.ver} : last' = [last EXCEPT ![call[c].page.off] = v]
    /\ call' = [call EXCEPT ![c] = None]
    /\ UNCHANGED <<begun, vouched>>

LoadBegins(c, o) ==
    /\ last[o] # 0
    /\ NewCall(c, "load", o, last[o])
    /\ UNCHANGED <<begun, last, vouched>>

LoadGets(c) ==
    /\ call[c] # None /\ call[c].op = "load"
    /\ \E d \in IF call[c].page.off \in vouched THEN {call[c].page} ELSE Content :
          call' = [call EXCEPT ![c].got = d]
    /\ UNCHANGED <<begun, last, vouched>>

LoadEnds(c) ==
    /\ call[c] # None /\ call[c].op = "load"
    /\ call' = [call EXCEPT ![c] = None]
    /\ UNCHANGED <<begun, last, vouched>>

\* The backend may take an offset on, or give it up, between the steps of calls.
Vouch == vouched' \in SUBSET Offsets /\ UNCHANGED <<begun, last, call>>

StoreInit ==
    /\ begun = 0
    /\ last = [o \in Offsets |-> 0]
    /\ call = [c \in Cpus |-> None]
    /\ vouched \in SUBSET Offsets

StoreNext ==
    \/ \E c \in Cpus, o \in Offsets : StoreBegins(c, o) \/ LoadBegins(c, o)
    \/ \E o \in Offsets : StoreRefused(o)
    \/ \E c \in Cpus : StoreEnds(c) \/ LoadEnds(c)
    \/ \E c \in Cpus : LoadGets(c)
    \/ Vouch

StoreSpec == StoreInit /\ [][StoreNext]_storeVars
=============================================================================
