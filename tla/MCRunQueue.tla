----------------------------- MODULE MCRunQueue -----------------------------
(* Small instances of RunQueue for TLC. *)
EXTENDS RunQueue

CONSTANTS a, b, i1, i2, d1

OneProject   == {a}
TwoProjects  == {a, b}
TwoItems     == {i1, i2}
OneDirect    == {d1}
OneMcp       == {i2}
None         == {}
LimitOne     == [p \in Projects |-> 1]
Strict       == [p \in Projects |-> TRUE]
Mixed        == [p \in Projects |-> p = a]

=============================================================================
