--------------------------- MODULE MCCellReconcile ---------------------------
(***************************************************************************)
(* A bounded cell for TLC: two components, a revision r2 that restarts lnd *)
(* and removes mint, and edits in both directions.                         *)
(***************************************************************************)
EXTENDS CellReconcile, TLC

CONSTANTS lnd, mint, r1, r2, v1, v2

MCComponents == {lnd, mint}
OneComponent == {lnd}
MCRevisions  == {r1, r2}
MCRollouts   == {v1, v2}

MCConfig ==
    [r \in MCRevisions |->
        [c \in Components |->
            IF c = lnd THEN (IF r = r1 THEN v1 ELSE v2)
            ELSE IF r = r1 THEN v1 ELSE Absent]]

MCUnsupported == {}
MCRequests == {}

\* The tasks run the same code; no property names one of them.
TaskSymmetry == Permutations(Workers)

\* One fresh request key per accepted edit, named by its generation.
MCKeys == 2..MaxGeneration
=============================================================================
