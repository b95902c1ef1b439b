-------------------------- MODULE MCProbeScheduler --------------------------
(***************************************************************************)
(* A large and a small cell that compete for the slots.                    *)
(***************************************************************************)
EXTENDS ProbeScheduler, TLC

CONSTANTS large, small, a, b, w1, w2, r1, r2

\* Registered sets of targets: any of the large cell, one of the small one.
OnlyA == [k \in Components |-> IF k = a THEN r1 ELSE NoTarget]
Changing == [c \in Cells |-> IF c = large THEN Targets ELSE {OnlyA}]

\* The jitter of a target sets its checks apart.
Short == [k \in Components |-> IF k = a THEN 1 ELSE 2]

Symmetry == Permutations({w1, w2}) \union Permutations({r1, r2})
=============================================================================
