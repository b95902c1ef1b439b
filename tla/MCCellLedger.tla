---------------------------- MODULE MCCellLedger ----------------------------
(***************************************************************************)
(* A bounded journal for TLC: two components, three revisions that restart *)
(* one component and remove and restore the other, two incarnations.       *)
(***************************************************************************)
EXTENDS CellLedger, TLC

CONSTANTS lnd, mint, r1, r2, r3, v1, v2

MCComponents == {lnd, mint}
MCRevisions  == {r1, r2, r3}
MCRollouts   == {v1, v2}

\* r1 -> r2 removes mint, r1 -> r3 restarts mint, lnd is restarted in r2.
MCConfig ==
    [r \in MCRevisions |->
        [c \in MCComponents |->
            IF c = lnd THEN (IF r = r2 THEN v2 ELSE v1)
            ELSE IF r = r1 THEN v1 ELSE IF r = r3 THEN v2 ELSE Absent]]

\* A component that comes back in r3 has another storage identity.
MCUnsupported == {<<r3, r1>>}

\* Keys are only compared for equality, and every property treats them alike.
KeySymmetry == Permutations(Keys)

MCRequests ==
    {[id |-> 1, kind |-> "component_action", components |-> {mint}, run |-> 1],
     [id |-> 1, kind |-> "component_action", components |-> {lnd}, run |-> 2],
     [id |-> 2, kind |-> "component_logs", components |-> {mint}, run |-> 1]}
=============================================================================
