--------------------------- MODULE MCCellActions ---------------------------
(***************************************************************************)
(* Bounded instances of one operation: a submission and a retry of it.     *)
(***************************************************************************)
EXTENDS CellActions

CONSTANTS submission, retry

MCClients == {submission, retry}

=============================================================================
