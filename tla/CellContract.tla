--------------------------- MODULE CellContract ---------------------------
(***************************************************************************)
(* What the journal, its clients and the controller promise together about *)
(* one cell, with no task, pass or cache in it: edits are numbered, the    *)
(* resource follows the numbers upwards while it is open, the newest edit  *)
(* settles only after it was delivered, and the data of a component goes   *)
(* only with the cell or because an accepted edit gave it up.              *)
(***************************************************************************)
EXTENDS Naturals

CONSTANTS Components

VARIABLES
    desired,     \* number of the newest accepted edit
    delivered,   \* number on the resource
    settled,     \* number of the newest edit that is known to be applied
    closed,      \* a close was requested: no edit is accepted any more
    phase,       \* the resource: none, open, deleting or gone
    given,       \* components whose data some accepted edit gave up
    data         \* components that have data in the cluster

edits        == <<desired, closed, given>>
resource     == <<delivered, phase>>
contractVars == <<edits, resource, settled, data>>

Init ==
    /\ desired = 1 /\ delivered = 1 /\ settled = 1
    /\ closed = FALSE
    /\ phase = "none"
    /\ given = {} /\ data = {}

Accept(S) ==
    /\ ~closed
    /\ desired' = desired + 1
    /\ given' = given \union S
    /\ UNCHANGED <<closed, resource, settled, data>>

Close ==
    /\ closed' = TRUE
    /\ UNCHANGED <<desired, given, resource, settled, data>>

Create ==
    /\ phase = "none"
    /\ phase' = "open"
    /\ UNCHANGED <<edits, delivered, settled, data>>

Deliver(g) ==
    /\ phase = "open"
    /\ delivered' = g
    /\ UNCHANGED <<edits, phase, settled, data>>

Settle ==
    /\ delivered = desired
    /\ settled' = desired
    /\ UNCHANGED <<edits, resource, data>>

Provision(c) ==
    /\ phase # "none"
    /\ data' = data \union {c}
    /\ UNCHANGED <<edits, resource, settled>>

Erase(c) ==
    /\ c \in given
    /\ data' = data \ {c}
    /\ UNCHANGED <<edits, resource, settled>>

Delete ==
    /\ phase = "open"
    /\ phase' = "deleting"
    /\ UNCHANGED <<edits, delivered, settled, data>>

Teardown ==
    /\ phase = "deleting"
    /\ phase' = "gone"
    /\ data' = {}
    /\ UNCHANGED <<edits, delivered, settled>>

Next ==
    \/ \E S \in SUBSET Components : Accept(S)
    \/ Close
    \/ Create
    \/ \E g \in delivered..desired : Deliver(g)
    \/ Settle
    \/ \E c \in Components : Provision(c) \/ Erase(c)
    \/ Delete
    \/ Teardown

Spec == Init /\ [][Next]_contractVars
=============================================================================
