----------------------------- MODULE SwapPages -----------------------------
(***************************************************************************)
(* The vocabulary the driver, the far memory servers and their composition *)
(* share: which servers exist, which swap offsets the kernel uses, and how *)
(* an offset falls into a 1 GiB memory block (drive/ib.h                   *)
(* get_num_memblock, lib/rpc.c interpret_header).                          *)
(***************************************************************************)
EXTENDS Integers

CONSTANTS
    Servers,    \* the far memory servers in ctrl.rdma_ctrl_list
    Offsets,    \* the page offsets frontswap stores to
    Blocks,     \* memory blocks of 2^18 pages
    BlockOf,    \* the block an offset lies in
    MaxStores,  \* bound: the number of stores the kernel issues
    None        \* a null pointer, a free lock, a page never written

ASSUME BlockOfAssumption == BlockOf \in [Offsets -> Blocks]
ASSUME MaxStoresAssumption == MaxStores \in Nat
ASSUME NoneAssumption == None \notin Int /\ None \notin [off : Offsets, ver : 1 .. MaxStores]

(***************************************************************************)
(* What a page buffer holds: the offset it was stored at, and which store  *)
(* wrote it (stores are numbered from 1 in the order they begin).          *)
(***************************************************************************)
Page == [off : Offsets, ver : 1 .. MaxStores]
Content == Page \cup {None}

\* A call of frontswap, and what a load has put in its page.
FrontswapCall == [op : {"store", "load"}, page : Page, got : Content]

ASSUME NoCallAssumption == None \notin FrontswapCall

\* Content d is store v of an offset, or a later store of it.
AtLeast(d, v) == d # None /\ d.ver >= v
=============================================================================
