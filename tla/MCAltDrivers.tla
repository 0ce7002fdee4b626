---------------------------- MODULE MCAltDrivers ----------------------------
(* Small instances of AltDrivers for TLC. *)
EXTENDS AltDrivers, TLC

CONSTANTS main, sub, o1, o2, o3, b1, cpu1, cpu2

MCBlockOf == [o \in Offsets |-> b1]
SubThenMain == <<sub, main>>
\* ib with one server to commit to, cib with both to write to.
MCAliveOrders == [ib |-> <<main>>, cib |-> <<sub, main>>]
Symmetry == Permutations(Offsets) \cup Permutations(Cpus)
=============================================================================
