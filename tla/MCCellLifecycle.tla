-------------------------- MODULE MCCellLifecycle --------------------------
(***************************************************************************)
(* Bounded instances of the lifecycle of one name: task names, and the     *)
(* context every task has selected.                                        *)
(***************************************************************************)
EXTENDS CellLifecycle

CONSTANTS up, preview, closer, sweeper, here, there

\* Everybody works on the same cluster.
OneContext == [t \in Tasks |-> here]

\* The user of up has selected another context.
TwoContexts == [t \in Tasks |-> IF t \in Ups THEN there ELSE here]
=============================================================================
