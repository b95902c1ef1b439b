------------------------- MODULE ComponentLeases -------------------------
(***************************************************************************)
(* What the journal of a cell promises its operations, with no journal in  *)
(* it: an operation leases the components its request names, an edit       *)
(* changes no leased component, and a component that an edit disturbs      *)
(* cannot be leased until the edit has settled.                            *)
(***************************************************************************)
CONSTANTS Components, Holders, Rollouts, Absent

VARIABLES
    desired,     \* desired[c]: the rollout of c, or Absent
    leases,      \* [holder, component] records of unfinished operations
    unsettled    \* components disturbed by an edit that has not settled

leaseVars == <<desired, leases, unsettled>>

Configurations == [Components -> Rollouts \union {Absent}]

Disturbed(d) == {c \in Components : desired[c] # Absent /\ d[c] # desired[c]}

Leased == {l.component : l \in leases}

Init ==
    /\ desired \in Configurations
    /\ leases = {}
    /\ unsettled = {}

Lease(h, S) ==
    /\ S \intersect unsettled = {}
    /\ leases' = leases \union {[holder |-> h, component |-> c] : c \in S}
    /\ UNCHANGED <<desired, unsettled>>

Release(h) ==
    /\ leases' = {l \in leases : l.holder # h}
    /\ UNCHANGED <<desired, unsettled>>

Edit(d) ==
    /\ Disturbed(d) \intersect Leased = {}
    /\ desired' = d
    /\ unsettled' = unsettled \union Disturbed(d)
    /\ UNCHANGED leases

Settle ==
    /\ unsettled' = {}
    /\ UNCHANGED <<desired, leases>>

\* A new incarnation under the same name starts with no lease.
Reset(d) ==
    /\ desired' = d
    /\ leases' = {}
    /\ unsettled' = {}

Next ==
    \/ \E h \in Holders, S \in SUBSET Components : Lease(h, S)
    \/ \E h \in Holders : Release(h)
    \/ \E d \in Configurations : Edit(d)
    \/ Settle
    \/ \E d \in Configurations : Reset(d)

Spec == Init /\ [][Next]_leaseVars
=============================================================================
