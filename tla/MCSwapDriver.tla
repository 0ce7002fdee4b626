---------------------------- MODULE MCSwapDriver ----------------------------
(* Small instances of SwapDriver for TLC. *)
EXTENDS SwapDriver, TLC

CONSTANTS main, sub, o1, o2, o3, b1, cpu1, cpu2

MCBlockOf == [o \in Offsets |-> b1]
MCAliveOrder == <<sub, main>>
Symmetry == Permutations(Offsets) \cup Permutations(Cpus)
=============================================================================
