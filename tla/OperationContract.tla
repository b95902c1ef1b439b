------------------------- MODULE OperationContract -------------------------
(***************************************************************************)
(* What the caller of an operation is promised, with no action, Job or     *)
(* retry in it: the work begins at most once, an outcome is final, and the *)
(* outcomes that say something of the work say it truly and for good.      *)
(***************************************************************************)
VARIABLES
    work,      \* unbegun, running, stopping (its Job is deleted) or over
    outcome    \* "open", or what the caller was told

contractVars == <<work, outcome>>

Outcomes ==
    {"Succeeded", "Failed", "NotStarted", "Cancelled", "Missing", "Unsubmitted"}

\* When an outcome may be told.  Failed, Missing and Unsubmitted say nothing
\* of the work: it may be running still, or begin yet.
Holds(o) ==
    /\ o = "NotStarted" => work = "unbegun"
    /\ o = "Cancelled" => work \in {"unbegun", "over"}
    /\ o = "Succeeded" => work \in {"stopping", "over"}

Init ==
    /\ work = "unbegun"
    /\ outcome = "open"

Begin ==
    /\ work = "unbegun"
    /\ outcome \notin {"NotStarted", "Cancelled", "Succeeded"}
    /\ work' = "running"
    /\ UNCHANGED outcome

End ==
    /\ work \in {"running", "stopping"}
    /\ work' = "over"
    /\ UNCHANGED outcome

\* A finished Job can still be deleted.
Stop ==
    /\ work \in {"running", "over"}
    /\ outcome # "Cancelled"
    /\ work' = "stopping"
    /\ UNCHANGED outcome

Tell(o) ==
    /\ outcome = "open"
    /\ Holds(o)
    /\ outcome' = o
    /\ UNCHANGED work

Next ==
    \/ Begin
    \/ End
    \/ Stop
    \/ \E o \in Outcomes : Tell(o)

Spec == Init /\ [][Next]_contractVars
=============================================================================
