---------------------------- MODULE MCPortLeases ----------------------------
(* A small instance of PortLeases for TLC. *)
EXTENDS PortLeases, TLC

CONSTANTS r1, r2, r3, n1, n2

ThreeRuns == {r1, r2, r3}
TwoNodes == {n1, n2}
TwoBlocks == <<20100, 20110>>
Symmetry == Permutations(Runs) \cup Permutations(Nodes)
=============================================================================
