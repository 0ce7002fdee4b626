----------------------------- MODULE MCMaruswap -----------------------------
(* Small instances of Maruswap for TLC. *)
EXTENDS Maruswap, TLC

CONSTANTS main, sub, o1, o2, o3, b1, cpu1, cpu2

MCBlockOf == [o \in Offsets |-> b1]
BothAlive == <<sub, main>>
OnlyMain == <<main>>
OffsetSymmetry == Permutations(Offsets)
Symmetry == OffsetSymmetry \cup Permutations(Cpus)
=============================================================================
