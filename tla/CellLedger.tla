---------------------------- MODULE CellLedger ----------------------------
(***************************************************************************)
(* The durable journal of one cell name: the SQLite tables of              *)
(* proofstorm-store that hold the desired revision, the accepted edits,    *)
(* the retained data, the admitted operations and the request receipts.    *)
(*                                                                         *)
(* Several processes (CLI, MCP server, GUI observer) open the same file.   *)
(* An IMMEDIATE transaction, or one locked statement, is one action here;  *)
(* any of them may be interleaved by any process.  A refused or replayed   *)
(* request leaves every table unchanged and is a stuttering step.          *)
(***************************************************************************)
EXTENDS Naturals, FiniteSets

CONSTANTS
    Components,      \* component ids of the published cells
    Revisions,       \* digests of the published, immutable revisions
    Rollouts,        \* rollout digests a revision lock gives a component
    Absent,          \* "the revision has no such component"
    Config,          \* Config[r][c]: rollout digest of c in revision r
    Unsupported,     \* <<base, target>> whose plan lists unsupported changes
    Keys,            \* (principal, request key) pairs: the idempotency key space
    Requests,        \* operation envelopes that clients submit
    MaxGeneration,   \* bound on accepted edits of an incarnation
    MaxIncarnation   \* bound on materializations of the name

Kinds == {"component_logs", "component_action"}

ASSUME ConfigAssumption ==
    /\ Absent \notin Rollouts
    /\ Config \in [Revisions -> [Components -> Rollouts \union {Absent}]]
    /\ Unsupported \subseteq Revisions \X Revisions

ASSUME RequestAssumption ==
    \A q \in Requests :
        /\ q.kind \in Kinds
        /\ q.components \subseteq Components
        /\ q.run \in Nat

ASSUME BoundAssumption ==
    /\ MaxGeneration \in Nat \ {0}
    /\ MaxIncarnation \in Nat \ {0}

VARIABLES
    live,               \* an instances row exists for the name
    incarnation,        \* instance_key of the current (or last) incarnation
    revision,           \* instances.revision_digest: the desired revision
    generation,         \* cell_update_state.generation
    applied,            \* cell_update_state.applied_generation
    closing,            \* cell_update_state.closing
    updates,            \* cell_updates rows
    retained,           \* retained_components rows
    operations,         \* actions joined with operation_revisions
    updateReceipts,     \* idempotency rows of operation 'cell.update'
    operationReceipts   \* idempotency rows of operation 'cell.operation.create'

instanceVars  == <<live, incarnation, revision>>
stateVars     == <<generation, applied, closing>>
editVars      == <<updates, retained, updateReceipts>>
operationVars == <<operations, operationReceipts>>
ledgerVars    == <<live, incarnation, revision, generation, applied, closing,
                   updates, retained, operations, updateReceipts,
                   operationReceipts>>

-----------------------------------------------------------------------------
(* Plans: a deterministic comparison of two immutable revisions.           *)

Plans ==
    [instance_key        : 1..MaxIncarnation,
     base                : Revisions,
     target              : Revisions,
     expected_generation : 1..MaxGeneration,
     delete_data         : BOOLEAN,
     delete_retained     : SUBSET Components]

Deployed(r) == {c \in Components : Config[r][c] # Absent}

Added(p)     == Deployed(p.target) \ Deployed(p.base)
Removed(p)   == Deployed(p.base) \ Deployed(p.target)
Restarted(p) == {c \in Deployed(p.base) \intersect Deployed(p.target) :
                    Config[p.base][c] # Config[p.target][c]}

DeletedData(p) ==
    p.delete_retained \union (IF p.delete_data THEN Removed(p) ELSE {})

\* Faulty variant: only removals count as a disturbance of a component.
AffectedRemovalsOnly(p) == Removed(p)
Affected(p) == Restarted(p) \union Removed(p)

IsNoop(p) == p.base = p.target /\ DeletedData(p) = {}

-----------------------------------------------------------------------------
(* Reads of the tables.                                                    *)

Pending  == "pending"
Running  == "running"
Terminal == {"succeeded", "failed", "cancelled"}
ActivePhases == {Pending, Running}
Phases   == ActivePhases \union Terminal

Active(o) == o.phase \in ActivePhases

PendingPlans(after) == {u.plan : u \in {v \in updates : v.generation > after}}

PendingDeletedData(after) ==
    UNION {DeletedData(p) : p \in PendingPlans(after)}

PendingAffected(after) == UNION {Affected(p) : p \in PendingPlans(after)}

\* Faulty variant: only operations that already run hold a component.
BlockingRunningOnly(p) ==
    {o \in operations : o.phase = Running
                        /\ o.request.components \intersect Affected(p) # {}}
BlockingOperations(p) ==
    {o \in operations : Active(o)
                        /\ o.request.components \intersect Affected(p) # {}}

\* Faulty variant: every submission of a request is executed again.
FreshKeyAlways(k) == TRUE
FreshKey(k) == /\ \A r \in updateReceipts : r.key # k
               /\ \A r \in operationReceipts : r.key # k

-----------------------------------------------------------------------------
Init ==
    /\ live = FALSE
    /\ incarnation = 0
    /\ revision \in Revisions
    /\ generation = 1
    /\ applied = 1
    /\ closing = FALSE
    /\ updates = {}
    /\ retained = {}
    /\ operations = {}
    /\ updateReceipts = {}
    /\ operationReceipts = {}

(* Store::materialize for an absent instance.  The random instance key is  *)
(* a fresh number.  Publication and creation plans are outside this module.*)
Materialize(r) ==
    /\ ~live
    /\ ~closing
    /\ incarnation < MaxIncarnation
    /\ live' = TRUE
    /\ incarnation' = incarnation + 1
    /\ revision' = r
    /\ UNCHANGED <<stateVars, editVars, operationVars>>

(* Store::accept_update.  The fences of the transaction, one per operator. *)
\* Faulty variant: the plan is matched to the name, not to the incarnation.
AnyIncarnation(p) == live
SameIncarnation(p) == live /\ incarnation = p.instance_key

DesiredUnchanged(p) ==
    generation = p.expected_generation /\ revision = p.base

\* Faulty variants of the retained-data rules: an id with retained data is
\* added again; current data is scheduled for deletion.
RetentionWithoutAdded(p) ==
    /\ p.delete_retained \subseteq retained
    /\ p.delete_retained \intersect Deployed(p.target) = {}
RetentionAllows(p) ==
    /\ p.delete_retained \subseteq retained
    /\ p.delete_retained \intersect Deployed(p.target) = {}
    /\ Added(p) \intersect retained = {}

RecordUpdateReceipt(k, p) ==
    updateReceipts' = updateReceipts \union {[key |-> k, plan |-> p]}

AcceptNoop(k, p) ==
    /\ <<p.base, p.target>> \notin Unsupported
    /\ SameIncarnation(p)
    /\ FreshKey(k)
    /\ ~closing
    /\ DesiredUnchanged(p)
    /\ IsNoop(p)
    /\ RecordUpdateReceipt(k, p)
    /\ UNCHANGED <<instanceVars, stateVars, updates, retained, operationVars>>

AcceptChange(k, p) ==
    /\ <<p.base, p.target>> \notin Unsupported
    /\ SameIncarnation(p)
    /\ FreshKey(k)
    /\ ~closing
    /\ DesiredUnchanged(p)
    /\ ~IsNoop(p)
    /\ BlockingOperations(p) = {}
    /\ RetentionAllows(p)
    /\ generation < MaxGeneration
    /\ generation' = generation + 1
    /\ revision' = p.target
    /\ updates' = updates \union
         {[generation |-> generation + 1, key |-> k, plan |-> p]}
    /\ retained' = retained \union Removed(p)
    /\ RecordUpdateReceipt(k, p)
    /\ UNCHANGED <<live, incarnation, applied, closing, operationVars>>

(* Store::mark_update_applied: a caller reports that generation g was      *)
(* observed ready.  Reports of another generation are ignored.             *)
ReportsDesired(g) == generation = g

MarkUpdateApplied(g) ==
    /\ live
    /\ ReportsDesired(g)
    /\ applied' = IF applied > g THEN applied ELSE g
    /\ retained' = retained \ PendingDeletedData(applied)
    /\ UNCHANGED <<instanceVars, generation, closing, updates, updateReceipts,
                   operationVars>>

(* Store::begin_instance_close: the latch of a close request.              *)
BeginInstanceClose ==
    /\ live
    /\ closing' = TRUE
    /\ UNCHANGED <<instanceVars, generation, applied, editVars, operationVars>>

(* Store::purge_cell: every row of the incarnation in one transaction.     *)
PurgeCell ==
    /\ live
    /\ live' = FALSE
    /\ generation' = 1
    /\ applied' = 1
    /\ closing' = FALSE
    /\ updates' = {}
    /\ retained' = {}
    /\ operations' = {}
    /\ updateReceipts' = {}
    /\ operationReceipts' = {}
    /\ UNCHANGED <<incarnation, revision>>

-----------------------------------------------------------------------------
(* Operations.  The envelope's run belongs to one incarnation, because the *)
(* run id of implicit work is derived from the instance key and a purge    *)
(* deletes every run of the cell.                                          *)

\* Faulty variant: admission checks only the newest pending edit.
SettledLatestOnly(q) ==
    \/ q.kind = "component_logs"
    \/ \A u \in updates : u.generation = generation /\ generation > applied
            => q.components \intersect Affected(u.plan) = {}
ComponentsSettled(q) ==
    \/ q.kind = "component_logs"
    \/ \A p \in PendingPlans(applied) :
            q.components \intersect Affected(p) = {}

AdmissionOpen(q) == live /\ q.run = incarnation /\ ~closing

RecordOperationReceipt(k, q) ==
    operationReceipts' =
        operationReceipts \union {[key |-> k, request |-> q]}

(* The admission transaction of Store::create_operation_inner.             *)
AdmitOperation(k, q) ==
    /\ FreshKey(k)
    /\ \A o \in operations : o.request.id # q.id
    /\ AdmissionOpen(q)
    /\ ComponentsSettled(q)
    /\ operations' = operations \union
         {[request |-> q, phase |-> Pending, revision |-> revision]}
    /\ RecordOperationReceipt(k, q)
    /\ UNCHANGED <<instanceVars, stateVars, editVars>>

(* The same operation submitted under another request key.                 *)
JoinOperation(k, q) ==
    /\ live
    /\ FreshKey(k)
    /\ \E o \in operations : o.request = q
    /\ RecordOperationReceipt(k, q)
    /\ UNCHANGED <<instanceVars, stateVars, editVars, operations>>

Rephase(o, phase) ==
    operations' = (operations \ {o}) \union {[o EXCEPT !.phase = phase]}

(* Store::update_operation_phase: pending to running, otherwise ignored.   *)
StartOperation(o) ==
    /\ o.phase = Pending
    /\ Rephase(o, Running)
    /\ UNCHANGED <<instanceVars, stateVars, editVars, operationReceipts>>

\* Faulty variant: the last reported result wins.
AcceptsLastResult(o) == TRUE
AcceptsResult(o) == Active(o)

(* Store::record_operation_result: the first terminal result is kept.      *)
RecordOperationResult(o, phase) ==
    /\ AcceptsResult(o)
    /\ Rephase(o, phase)
    /\ UNCHANGED <<instanceVars, stateVars, editVars, operationReceipts>>

-----------------------------------------------------------------------------
Next ==
    \/ \E r \in Revisions : Materialize(r)
    \/ \E k \in Keys, p \in Plans : AcceptNoop(k, p)
    \/ \E k \in Keys, p \in Plans : AcceptChange(k, p)
    \/ \E g \in 1..MaxGeneration : MarkUpdateApplied(g)
    \/ BeginInstanceClose
    \/ PurgeCell
    \/ \E k \in Keys, q \in Requests : AdmitOperation(k, q)
    \/ \E k \in Keys, q \in Requests : JoinOperation(k, q)
    \/ \E o \in operations : StartOperation(o)
    \/ \E o \in operations, phase \in Terminal : RecordOperationResult(o, phase)

Spec == Init /\ [][Next]_ledgerVars
-----------------------------------------------------------------------------
(* Properties.                                                             *)

Updates == [generation : Nat, key : Keys, plan : Plans]

OperationRows == [request : Requests, phase : Phases, revision : Revisions]

\* Every table holds rows of its shape.
TypeOK ==
    /\ live \in BOOLEAN
    /\ incarnation \in 0..MaxIncarnation
    /\ revision \in Revisions
    /\ generation \in 1..MaxGeneration
    /\ applied \in 1..generation
    /\ closing \in BOOLEAN
    /\ updates \subseteq Updates
    /\ retained \subseteq Components
    /\ operations \subseteq OperationRows
    /\ updateReceipts \subseteq [key : Keys, plan : Plans]
    /\ operationReceipts \subseteq [key : Keys, request : Requests]

\* The two halves of the operation/edit exclusion meet: no unfinished
\* operation, other than a log read, names a component that an accepted but
\* unapplied edit restarts or removes, whichever of the two transactions
\* (accept_update, create_operation_inner) came first.
NoOperationUnderPendingEdit ==
    \A o \in operations :
        Active(o) /\ o.request.kind # "component_logs"
            => o.request.components \intersect PendingAffected(applied) = {}

\* An unfinished operation runs against the revision captured at admission
\* (operation_revisions).  However many edits were accepted since, each
\* component it names still has in the desired revision the rollout it had
\* in the captured one: the runtime never replaces it under the operation.
PinnedComponentsStable ==
    \A o \in operations :
        Active(o) => \A c \in o.request.components \intersect Deployed(o.revision) :
                        Config[revision][c] = Config[o.revision][c]

\* A component id whose removed data is retained is never part of the
\* desired revision, so a new component cannot start on a removed one's data.
RetainedNeverDeployed ==
    live => retained \intersect Deployed(revision) = {}

\* No sequence of accepted edits leaves a deletion pending for the data of a
\* component that the desired revision contains.
DeletionSparesDeployed ==
    live => PendingDeletedData(applied) \intersect Deployed(revision) = {}

\* The accepted edits of an incarnation form one gapless chain: each was
\* planned against exactly the generation and revision its predecessor left,
\* and the desired revision is the target of the last.
EditChain ==
    /\ \A u \in updates :
        /\ u.plan.expected_generation + 1 = u.generation
        /\ u.generation > 2 => \E v \in updates :
                                 /\ v.generation + 1 = u.generation
                                 /\ v.plan.target = u.plan.base
    /\ live /\ generation > 1 => \E u \in updates :
                                    /\ u.generation = generation
                                    /\ u.plan.target = revision

\* A request key is spent once: it names one accepted edit or one operation,
\* never both and never two, and an accepted edit keeps its receipt.
EachKeySpentOnce ==
    /\ \A u, v \in updates : u.key = v.key \/ u.generation = v.generation => u = v
    /\ \A u \in updates : [key |-> u.key, plan |-> u.plan] \in updateReceipts
    /\ \A r, s \in updateReceipts : r.key = s.key => r = s
    /\ \A r, s \in operationReceipts : r.key = s.key => r = s
    /\ \A r \in updateReceipts, s \in operationReceipts : r.key # s.key

\* After a purge and a new materialization of the name, no delayed request
\* of the old incarnation gets a row in the new one.
OneIncarnationOnly ==
    /\ \A u \in updates : u.plan.instance_key = incarnation
    /\ \A o \in operations : o.request.run = incarnation
    /\ ~live => updates = {} /\ retained = {} /\ operations = {}

\* The first terminal result of an operation is its result: a late cancel,
\* success or failure report never replaces it while the cell exists.
FirstResultWins ==
    [][\A o \in operations : ~Active(o) /\ live' => o \in operations']_ledgerVars

\* Once the close latch is set it stays set, no edit is accepted and no
\* operation is added until the incarnation is purged.
ClosingAdmitsNothing ==
    [][closing /\ live' =>
        /\ closing'
        /\ generation' = generation /\ revision' = revision
        /\ {o.request : o \in operations'} = {o.request : o \in operations}]_ledgerVars

LeaseSet ==
    UNION {{[holder |-> o.request.id, component |-> c] : c \in o.request.components} :
           o \in {x \in operations : Active(x) /\ x.request.kind # "component_logs"}}

\* The journal implements the component leases of its operations: admission
\* takes the leases, the terminal result returns them, accept_update is the
\* edit and mark_update_applied settles it.
Leases == INSTANCE ComponentLeases WITH
    Holders   <- {q.id : q \in Requests},
    desired   <- Config[revision],
    unsettled <- PendingAffected(applied),
    leases    <- LeaseSet

LeasesHold == Leases!Spec
=============================================================================
