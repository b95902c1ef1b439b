------------------------- MODULE CellLedgerProofs -------------------------
(***************************************************************************)
(* Proofs about the journal of CellLedger, for every set of components,    *)
(* revisions, keys and requests, and every bound.                          *)
(***************************************************************************)
EXTENDS CellLedger, TLAPS

(* The sets that plans are made of stay within the components.             *)
LEMMA PlanSets ==
    ASSUME NEW p \in Plans
    PROVE  /\ Added(p) \subseteq Components
           /\ Removed(p) \subseteq Components
           /\ Affected(p) \subseteq Components
           /\ DeletedData(p) \subseteq Components
           /\ Deployed(p.target) \subseteq Components
    BY DEF Plans, Added, Removed, Restarted, Affected, DeletedData, Deployed

-----------------------------------------------------------------------------
(* Every statement and transaction of the store keeps the rows in shape.   *)
LEMMA TypeStep ==
    TypeOK /\ [Next]_ledgerVars => TypeOK'
<1> SUFFICES ASSUME TypeOK, [Next]_ledgerVars PROVE TypeOK'
  OBVIOUS
<1> USE DEF TypeOK, instanceVars, stateVars, editVars, operationVars
<1>1. ASSUME NEW r \in Revisions, Materialize(r) PROVE TypeOK'
  BY <1>1, BoundAssumption DEF Materialize
<1>2. ASSUME NEW k \in Keys, NEW p \in Plans, AcceptNoop(k, p) PROVE TypeOK'
  BY <1>2 DEF AcceptNoop, RecordUpdateReceipt
<1>3. ASSUME NEW k \in Keys, NEW p \in Plans, AcceptChange(k, p) PROVE TypeOK'
  <2>1. /\ generation' \in 1..MaxGeneration
        /\ applied' \in 1..generation'
    BY <1>3, BoundAssumption DEF AcceptChange
  <2>2. revision' \in Revisions
    BY <1>3 DEF AcceptChange, Plans
  <2>3. updates' \subseteq Updates
    BY <1>3 DEF AcceptChange, Updates
  <2>4. retained' \subseteq Components
    BY <1>3, PlanSets DEF AcceptChange
  <2>5. updateReceipts' \subseteq [key : Keys, plan : Plans]
    BY <1>3 DEF AcceptChange, RecordUpdateReceipt
  <2>6. QED
    BY <1>3, <2>1, <2>2, <2>3, <2>4, <2>5 DEF AcceptChange
<1>4. ASSUME NEW g \in 1..MaxGeneration, MarkUpdateApplied(g) PROVE TypeOK'
  BY <1>4, BoundAssumption DEF MarkUpdateApplied, ReportsDesired
<1>5. ASSUME BeginInstanceClose PROVE TypeOK'
  BY <1>5 DEF BeginInstanceClose
<1>6. ASSUME PurgeCell PROVE TypeOK'
  <2>1. /\ live' \in BOOLEAN
        /\ closing' \in BOOLEAN
    BY <1>6 DEF PurgeCell
  <2>2. /\ generation' \in 1..MaxGeneration
        /\ applied' \in 1..generation'
    BY <1>6, BoundAssumption DEF PurgeCell
  <2>3. QED
    BY <1>6, <2>1, <2>2 DEF PurgeCell
<1>7. ASSUME NEW k \in Keys, NEW q \in Requests, AdmitOperation(k, q)
      PROVE  TypeOK'
  BY <1>7 DEF AdmitOperation, RecordOperationReceipt, OperationRows, Phases,
              ActivePhases, Pending
<1>8. ASSUME NEW k \in Keys, NEW q \in Requests, JoinOperation(k, q)
      PROVE  TypeOK'
  BY <1>8 DEF JoinOperation, RecordOperationReceipt
<1>9. ASSUME NEW o \in operations, StartOperation(o) PROVE TypeOK'
  BY <1>9 DEF StartOperation, Rephase, OperationRows, Phases, ActivePhases, Running
<1>10. ASSUME NEW o \in operations, NEW phase \in Terminal,
              RecordOperationResult(o, phase)
       PROVE  TypeOK'
  BY <1>10 DEF RecordOperationResult, Rephase, OperationRows, Phases
<1>11. CASE UNCHANGED ledgerVars
  BY <1>11 DEF ledgerVars
<1>12. QED
  BY <1>1, <1>2, <1>3, <1>4, <1>5, <1>6, <1>7, <1>8, <1>9, <1>10, <1>11 DEF Next

(* Type correctness: every statement and transaction of the store keeps the*)
(* rows of its tables in their shape, and the applied generation between 1 *)
(* and the desired one.                                                    *)
THEOREM TypeCorrect == Spec => []TypeOK
<1>1. ASSUME Init PROVE TypeOK
  <2>1. /\ live \in BOOLEAN
        /\ closing \in BOOLEAN
        /\ revision \in Revisions
    BY <1>1 DEF Init
  <2>2. /\ incarnation \in 0..MaxIncarnation
        /\ generation \in 1..MaxGeneration
        /\ applied \in 1..generation
    BY <1>1, BoundAssumption DEF Init
  <2>3. QED
    BY <1>1, <2>1, <2>2 DEF Init, TypeOK
<1>2. QED
  BY <1>1, TypeStep, PTL DEF Spec

-----------------------------------------------------------------------------
(* The rows that a purged or never materialized name leaves: none.         *)
Dormant ==
    ~live => /\ generation = 1 /\ applied = 1 /\ closing = FALSE
             /\ updates = {} /\ retained = {} /\ operations = {}
             /\ updateReceipts = {} /\ operationReceipts = {}

(* An accepted edit carries a generation that was once the newest.         *)
UpdatesInRange == \A u \in updates : u.generation \in 2..generation

LEMMA DormantStep ==
    Dormant /\ [Next]_ledgerVars => Dormant'
<1> SUFFICES ASSUME Dormant, [Next]_ledgerVars PROVE Dormant'
  OBVIOUS
<1> USE DEF Dormant, instanceVars, stateVars, editVars, operationVars
<1>1. ASSUME NEW r \in Revisions, Materialize(r) PROVE Dormant'
  BY <1>1 DEF Materialize
<1>2. ASSUME NEW k \in Keys, NEW p \in Plans,
             AcceptNoop(k, p) \/ AcceptChange(k, p)
      PROVE  Dormant'
  BY <1>2 DEF AcceptNoop, AcceptChange, SameIncarnation
<1>3. ASSUME NEW g \in 1..MaxGeneration, MarkUpdateApplied(g) PROVE Dormant'
  BY <1>3 DEF MarkUpdateApplied
<1>4. ASSUME BeginInstanceClose PROVE Dormant'
  BY <1>4 DEF BeginInstanceClose
<1>5. ASSUME PurgeCell PROVE Dormant'
  BY <1>5 DEF PurgeCell
<1>6. ASSUME NEW k \in Keys, NEW q \in Requests,
             AdmitOperation(k, q) \/ JoinOperation(k, q)
      PROVE  Dormant'
  BY <1>6 DEF AdmitOperation, JoinOperation, AdmissionOpen
<1>7. ASSUME NEW o \in operations, StartOperation(o) PROVE Dormant'
  BY <1>7 DEF StartOperation
<1>8. ASSUME NEW o \in operations, NEW phase \in Terminal,
             RecordOperationResult(o, phase)
      PROVE  Dormant'
  BY <1>8 DEF RecordOperationResult
<1>9. CASE UNCHANGED ledgerVars
  BY <1>9 DEF ledgerVars
<1>10. QED
  BY <1>1, <1>2, <1>3, <1>4, <1>5, <1>6, <1>7, <1>8, <1>9 DEF Next

LEMMA DormantHolds == Spec => []Dormant
<1>1. Init => Dormant
  BY DEF Init, Dormant
<1>2. QED
  BY <1>1, DormantStep, PTL DEF Spec

LEMMA UpdatesInRangeStep ==
    TypeOK /\ UpdatesInRange /\ [Next]_ledgerVars => UpdatesInRange'
<1> SUFFICES ASSUME TypeOK, UpdatesInRange, [Next]_ledgerVars
             PROVE  UpdatesInRange'
  OBVIOUS
<1>1. ASSUME NEW k \in Keys, NEW p \in Plans, AcceptChange(k, p)
      PROVE  UpdatesInRange'
  BY <1>1 DEF AcceptChange, UpdatesInRange, TypeOK
<1>2. ASSUME PurgeCell PROVE UpdatesInRange'
  BY <1>2 DEF PurgeCell, UpdatesInRange
<1>3. ASSUME UNCHANGED <<updates, generation>> PROVE UpdatesInRange'
  BY <1>3 DEF UpdatesInRange
<1>4. QED
  BY <1>1, <1>2, <1>3
     DEF Next, ledgerVars, instanceVars, stateVars, editVars, operationVars,
         Materialize, AcceptNoop, MarkUpdateApplied, BeginInstanceClose,
         AdmitOperation, JoinOperation, StartOperation, RecordOperationResult

LEMMA UpdatesInRangeHolds == Spec => []UpdatesInRange
<1>1. Init => UpdatesInRange
  BY DEF Init, UpdatesInRange
<1>2. QED
  BY <1>1, UpdatesInRangeStep, TypeCorrect, PTL DEF Spec
-----------------------------------------------------------------------------
(* What each step does to the pending edits.                               *)
LEMMA PendingAfterAccept ==
    ASSUME NEW k, NEW p, AcceptChange(k, p),
           TypeOK
    PROVE  /\ PendingAffected(applied)' = PendingAffected(applied) \union Affected(p)
           /\ PendingDeletedData(applied)'
                = PendingDeletedData(applied) \union DeletedData(p)
<1>1. PendingPlans(applied)' = PendingPlans(applied) \union {p}
  <2> DEFINE new == [generation |-> generation + 1, key |-> k, plan |-> p]
  <2>1. /\ updates' = updates \union {new}
        /\ applied' = applied
    BY DEF AcceptChange
  <2>2. generation + 1 > applied
    BY DEF TypeOK
  <2>3. /\ new.generation > applied
        /\ new.plan = p
    BY <2>2
  <2> HIDE DEF new
  <2>4. QED
    BY <2>1, <2>3 DEF PendingPlans
<1>2. QED
  BY <1>1 DEF PendingAffected, PendingDeletedData

LEMMA PendingAfterMark ==
    ASSUME NEW g, MarkUpdateApplied(g), TypeOK, UpdatesInRange
    PROVE  /\ PendingAffected(applied)' = {}
           /\ PendingDeletedData(applied)' = {}
<1>1. PendingPlans(applied)' = {}
  BY DEF MarkUpdateApplied, ReportsDesired, PendingPlans, TypeOK, UpdatesInRange
<1>2. QED
  BY <1>1 DEF PendingAffected, PendingDeletedData

LEMMA PendingUnchanged ==
    ASSUME UNCHANGED <<updates, applied>>
    PROVE  /\ PendingAffected(applied)' = PendingAffected(applied)
           /\ PendingDeletedData(applied)' = PendingDeletedData(applied)
    BY DEF PendingAffected, PendingDeletedData, PendingPlans

-----------------------------------------------------------------------------
(* accept_update and the admission transaction exclude each other on every *)
(* component: an unfinished operation never names a component that an      *)
(* unapplied edit disturbs.                                                *)
THEOREM EditsExcludeOperations == Spec => []NoOperationUnderPendingEdit
<1>1. Init => NoOperationUnderPendingEdit
  BY DEF Init, NoOperationUnderPendingEdit
<1>2. TypeOK /\ UpdatesInRange /\ NoOperationUnderPendingEdit /\ [Next]_ledgerVars
        => NoOperationUnderPendingEdit'
  <2> SUFFICES ASSUME TypeOK, UpdatesInRange, NoOperationUnderPendingEdit,
                      [Next]_ledgerVars
               PROVE  NoOperationUnderPendingEdit'
    OBVIOUS
  <2> USE DEF NoOperationUnderPendingEdit, instanceVars, stateVars, editVars,
              operationVars
  <2>1. ASSUME NEW k \in Keys, NEW p \in Plans, AcceptChange(k, p)
        PROVE  NoOperationUnderPendingEdit'
    <3>1. \A o \in operations : Active(o)
             => o.request.components \intersect Affected(p) = {}
      BY <2>1 DEF AcceptChange, BlockingOperations
    <3>2. QED
      BY <2>1, <3>1, PendingAfterAccept DEF AcceptChange, Active
  <2>2. ASSUME NEW g \in 1..MaxGeneration, MarkUpdateApplied(g)
        PROVE  NoOperationUnderPendingEdit'
    BY <2>2, PendingAfterMark
  <2>3. ASSUME PurgeCell PROVE NoOperationUnderPendingEdit'
    BY <2>3 DEF PurgeCell
  <2>4. ASSUME NEW k \in Keys, NEW q \in Requests, AdmitOperation(k, q)
        PROVE  NoOperationUnderPendingEdit'
    <3>1. q.kind # "component_logs"
            => q.components \intersect PendingAffected(applied) = {}
      BY <2>4 DEF AdmitOperation, ComponentsSettled, PendingAffected
    <3>2. PendingAffected(applied)' = PendingAffected(applied)
      BY <2>4, PendingUnchanged DEF AdmitOperation
    <3>3. QED
      BY <2>4, <3>1, <3>2 DEF AdmitOperation, Active
  <2>5. ASSUME NEW o \in operations, NEW phase \in Phases,
               Active(o), Rephase(o, phase), UNCHANGED <<updates, applied>>
        PROVE  NoOperationUnderPendingEdit'
    <3>1. PendingAffected(applied)' = PendingAffected(applied)
      BY <2>5, PendingUnchanged
    <3>2. [o EXCEPT !.phase = phase].request = o.request
      BY DEF TypeOK, OperationRows
    <3>3. QED
      BY <2>5, <3>1, <3>2 DEF Rephase, Active
  <2>6. ASSUME UNCHANGED <<updates, applied, operations>>
        PROVE  NoOperationUnderPendingEdit'
    BY <2>6, PendingUnchanged DEF Active
  <2>7. QED
    BY <2>1, <2>2, <2>3, <2>4, <2>5, <2>6
       DEF Next, ledgerVars, Materialize, AcceptNoop, BeginInstanceClose,
           JoinOperation, StartOperation, RecordOperationResult, AcceptsResult,
           Active, ActivePhases, Phases, Pending, Running
<1>3. QED
  BY <1>1, <1>2, TypeCorrect, UpdatesInRangeHolds, PTL DEF Spec

(* No accepted edit changes, under an unfinished operation, a component the*)
(* operation names: its captured revision stays true for what it touches.  *)
THEOREM OperationsKeepTheirRevision == Spec => []PinnedComponentsStable
<1>1. Init => PinnedComponentsStable
  BY DEF Init, PinnedComponentsStable
<1>2. TypeOK /\ Dormant /\ PinnedComponentsStable /\ [Next]_ledgerVars
        => PinnedComponentsStable'
  <2> SUFFICES ASSUME TypeOK, Dormant, PinnedComponentsStable, [Next]_ledgerVars
               PROVE  PinnedComponentsStable'
    OBVIOUS
  <2> USE DEF PinnedComponentsStable, instanceVars, stateVars, editVars,
              operationVars
  <2>1. ASSUME NEW k \in Keys, NEW p \in Plans, AcceptChange(k, p)
        PROVE  PinnedComponentsStable'
    <3> SUFFICES ASSUME NEW o \in operations, Active(o),
                        NEW c \in o.request.components \intersect Deployed(o.revision)
                 PROVE  Config[p.target][c] = Config[o.revision][c]
      BY <2>1 DEF AcceptChange, Active
    <3>1. Config[p.base][c] = Config[o.revision][c]
      BY <2>1 DEF AcceptChange, DesiredUnchanged
    <3>2. c \in Deployed(p.base)
      BY <3>1 DEF Deployed
    <3>3. c \notin Affected(p)
      BY <2>1 DEF AcceptChange, BlockingOperations
    <3>4. QED
      BY <3>1, <3>2, <3>3 DEF Affected, Restarted, Removed
  <2>2. ASSUME NEW r \in Revisions, Materialize(r) PROVE PinnedComponentsStable'
    BY <2>2 DEF Materialize, Dormant
  <2>3. ASSUME PurgeCell PROVE PinnedComponentsStable'
    BY <2>3 DEF PurgeCell
  <2>4. ASSUME NEW k \in Keys, NEW q \in Requests, AdmitOperation(k, q)
        PROVE  PinnedComponentsStable'
    BY <2>4 DEF AdmitOperation, Active
  <2>5. ASSUME NEW o \in operations, NEW phase \in Phases,
               Active(o), Rephase(o, phase), UNCHANGED revision
        PROVE  PinnedComponentsStable'
    <3>1. /\ [o EXCEPT !.phase = phase].request = o.request
          /\ [o EXCEPT !.phase = phase].revision = o.revision
      BY DEF TypeOK, OperationRows
    <3>2. QED
      BY <2>5, <3>1 DEF Rephase, Active
  <2>6. ASSUME UNCHANGED <<revision, operations>> PROVE PinnedComponentsStable'
    BY <2>6 DEF Active
  <2>7. QED
    BY <2>1, <2>2, <2>3, <2>4, <2>5, <2>6
       DEF Next, ledgerVars, AcceptNoop, MarkUpdateApplied, BeginInstanceClose,
           JoinOperation, StartOperation, RecordOperationResult, AcceptsResult,
           Active, ActivePhases, Phases, Pending, Running
<1>3. QED
  BY <1>1, <1>2, TypeCorrect, DormantHolds, PTL DEF Spec

-----------------------------------------------------------------------------
(* Data scheduled for deletion is recorded as retained until its deletion  *)
(* has been applied: the fact that keeps deletions away from current data. *)
DeletionsRetained == PendingDeletedData(applied) \subseteq retained

RetentionInv ==
    /\ RetainedNeverDeployed
    /\ DeletionsRetained

LEMMA RetentionStep ==
    TypeOK /\ Dormant /\ UpdatesInRange /\ RetentionInv /\ [Next]_ledgerVars
        => RetentionInv'
<1> SUFFICES ASSUME TypeOK, Dormant, UpdatesInRange, RetentionInv,
                    [Next]_ledgerVars
             PROVE  RetentionInv'
  OBVIOUS
<1> USE DEF RetentionInv, RetainedNeverDeployed, DeletionsRetained,
            instanceVars, stateVars, editVars, operationVars
<1>1. ASSUME NEW k \in Keys, NEW p \in Plans, AcceptChange(k, p)
      PROVE  RetentionInv'
  <2>1. live /\ revision = p.base
    BY <1>1 DEF AcceptChange, SameIncarnation, DesiredUnchanged
  <2>2. retained' \intersect Deployed(p.target) = {}
    BY <1>1, <2>1 DEF AcceptChange, RetentionAllows, Added, Removed
  <2>3. DeletedData(p) \subseteq retained'
    BY <1>1 DEF AcceptChange, RetentionAllows, DeletedData
  <2>4. QED
    BY <1>1, <2>2, <2>3, PendingAfterAccept DEF AcceptChange
<1>2. ASSUME NEW g \in 1..MaxGeneration, MarkUpdateApplied(g)
      PROVE  RetentionInv'
  <2>1. RetainedNeverDeployed'
    BY <1>2 DEF MarkUpdateApplied
  <2>2. DeletionsRetained'
    BY <1>2, PendingAfterMark
  <2>3. QED
    BY <2>1, <2>2
<1>3. ASSUME NEW r \in Revisions, Materialize(r) PROVE RetentionInv'
  <2>1. retained = {} /\ retained' = {}
    BY <1>3 DEF Materialize, Dormant
  <2>2. PendingDeletedData(applied)' = PendingDeletedData(applied)
    BY <1>3, PendingUnchanged DEF Materialize
  <2>3. QED
    BY <2>1, <2>2
<1>4. ASSUME PurgeCell PROVE RetentionInv'
  BY <1>4 DEF PurgeCell, PendingDeletedData, PendingPlans
<1>5. ASSUME UNCHANGED <<live, revision, applied, updates, retained>>
      PROVE  RetentionInv'
  BY <1>5, PendingUnchanged
<1>6. QED
  BY <1>1, <1>2, <1>3, <1>4, <1>5
     DEF Next, ledgerVars, AcceptNoop, BeginInstanceClose, AdmitOperation,
         JoinOperation, StartOperation, RecordOperationResult

LEMMA RetentionInvHolds == Spec => []RetentionInv
<1>1. Init => RetentionInv
  BY DEF Init, RetentionInv, RetainedNeverDeployed, DeletionsRetained,
         PendingDeletedData, PendingPlans
<1>2. QED
  BY <1>1, RetentionStep, TypeCorrect, DormantHolds, UpdatesInRangeHolds, PTL DEF Spec

(* A component id with retained data is never in the desired revision.     *)
THEOREM RetainedStaysOut == Spec => []RetainedNeverDeployed
  BY RetentionInvHolds, PTL DEF RetentionInv

(* A pending deletion never names a component of the desired revision.     *)
THEOREM DeletionsSpareCurrentData == Spec => []DeletionSparesDeployed
<1>1. RetentionInv => DeletionSparesDeployed
  BY DEF RetentionInv, RetainedNeverDeployed, DeletionsRetained,
         DeletionSparesDeployed
<1>2. QED
  BY <1>1, RetentionInvHolds, PTL

-----------------------------------------------------------------------------
(* The accepted edits of an incarnation are one gapless chain that ends in *)
(* the desired revision.                                                   *)
THEOREM EditsFormAChain == Spec => []EditChain
<1>1. Init => EditChain
  BY DEF Init, EditChain
<1>2. TypeOK /\ Dormant /\ UpdatesInRange /\ EditChain /\ [Next]_ledgerVars
        => EditChain'
  <2> SUFFICES ASSUME TypeOK, Dormant, UpdatesInRange, EditChain,
                      [Next]_ledgerVars
               PROVE  EditChain'
    OBVIOUS
  <2> USE DEF instanceVars, stateVars, editVars, operationVars
  <2>1. ASSUME NEW k \in Keys, NEW p \in Plans, AcceptChange(k, p)
        PROVE  EditChain'
    <3> DEFINE new == [generation |-> generation + 1, key |-> k, plan |-> p]
    <3>1. /\ live
          /\ revision = p.base
          /\ generation = p.expected_generation
          /\ generation' = generation + 1
          /\ revision' = p.target
          /\ updates' = updates \union {new}
      BY <2>1 DEF AcceptChange, SameIncarnation, DesiredUnchanged
    <3>2. /\ new.generation = generation + 1
          /\ new.plan = p
      OBVIOUS
    <3>3. generation \in Nat
      BY DEF TypeOK
    <3> HIDE DEF new
    <3>4. new.generation > 2 => \E v \in updates' :
                                  /\ v.generation + 1 = new.generation
                                  /\ v.plan.target = new.plan.base
      BY <3>1, <3>2, <3>3 DEF EditChain
    <3>5. \A u \in updates : u.generation > 2 => \E v \in updates' :
                                /\ v.generation + 1 = u.generation
                                /\ v.plan.target = u.plan.base
      BY <3>1 DEF EditChain
    <3>6. /\ \A u \in updates' : u.plan.expected_generation + 1 = u.generation
          /\ \E u \in updates' : u.generation = generation' /\ u.plan.target = revision'
      BY <3>1, <3>2 DEF EditChain
    <3>7. QED
      BY <3>1, <3>4, <3>5, <3>6 DEF EditChain
  <2>2. ASSUME NEW r \in Revisions, Materialize(r) PROVE EditChain'
    BY <2>2 DEF Materialize, Dormant, EditChain
  <2>3. ASSUME PurgeCell PROVE EditChain'
    BY <2>3 DEF PurgeCell, EditChain
  <2>4. ASSUME UNCHANGED <<live, revision, generation, updates>> PROVE EditChain'
    BY <2>4 DEF EditChain
  <2>5. QED
    BY <2>1, <2>2, <2>3, <2>4
       DEF Next, ledgerVars, AcceptNoop, MarkUpdateApplied, BeginInstanceClose,
           AdmitOperation, JoinOperation, StartOperation, RecordOperationResult
<1>3. QED
  BY <1>1, <1>2, TypeCorrect, DormantHolds, UpdatesInRangeHolds, PTL DEF Spec

-----------------------------------------------------------------------------
(* A request key is spent on at most one accepted edit or operation, which *)
(* is what makes the retry of a request whose answer was lost harmless.    *)
THEOREM KeysAreSpentOnce == Spec => []EachKeySpentOnce
<1>1. Init => EachKeySpentOnce
  BY DEF Init, EachKeySpentOnce
<1>2. TypeOK /\ UpdatesInRange /\ EachKeySpentOnce /\ [Next]_ledgerVars
        => EachKeySpentOnce'
  <2> SUFFICES ASSUME TypeOK, UpdatesInRange, EachKeySpentOnce, [Next]_ledgerVars
               PROVE  EachKeySpentOnce'
    OBVIOUS
  <2> USE DEF instanceVars, stateVars, editVars, operationVars
  <2>1. ASSUME NEW k \in Keys, NEW p \in Plans, AcceptNoop(k, p)
        PROVE  EachKeySpentOnce'
    BY <2>1 DEF AcceptNoop, FreshKey, RecordUpdateReceipt, EachKeySpentOnce
  <2>2. ASSUME NEW k \in Keys, NEW p \in Plans, AcceptChange(k, p)
        PROVE  EachKeySpentOnce'
    <3> DEFINE new == [generation |-> generation + 1, key |-> k, plan |-> p]
               receipt == [key |-> k, plan |-> p]
    <3>1. /\ updates' = updates \union {new}
          /\ updateReceipts' = updateReceipts \union {receipt}
          /\ operationReceipts' = operationReceipts
          /\ FreshKey(k)
      BY <2>2 DEF AcceptChange, RecordUpdateReceipt
    <3>2. /\ new.key = k /\ new.plan = p
          /\ receipt.key = k /\ receipt.plan = p
      OBVIOUS
    <3>3. \A u \in updates : u.generation # new.generation
      BY DEF UpdatesInRange, TypeOK
    <3>4. \A u \in updates : u.key # k
      <4>1. ASSUME NEW u \in updates, u.key = k PROVE FALSE
        <5>1. [key |-> u.key, plan |-> u.plan] \in updateReceipts
          BY DEF EachKeySpentOnce
        <5>2. [key |-> u.key, plan |-> u.plan].key = k
          BY <4>1
        <5>3. QED
          BY <3>1, <5>1, <5>2 DEF FreshKey
      <4>2. QED
        BY <4>1
    <3>5. [key |-> new.key, plan |-> new.plan] = receipt
      OBVIOUS
    <3> HIDE DEF new, receipt
    <3>6. \A u, v \in updates' :
             u.key = v.key \/ u.generation = v.generation => u = v
      BY <3>1, <3>2, <3>3, <3>4 DEF EachKeySpentOnce
    <3>7. \A u \in updates' : [key |-> u.key, plan |-> u.plan] \in updateReceipts'
      BY <3>1, <3>5 DEF EachKeySpentOnce
    <3>8. /\ \A r, s \in updateReceipts' : r.key = s.key => r = s
          /\ \A r \in updateReceipts', s \in operationReceipts' : r.key # s.key
      BY <3>1, <3>2 DEF EachKeySpentOnce, FreshKey
    <3>9. QED
      BY <3>1, <3>6, <3>7, <3>8 DEF EachKeySpentOnce
  <2>3. ASSUME NEW k \in Keys, NEW q \in Requests, FreshKey(k),
               RecordOperationReceipt(k, q), UNCHANGED <<updates, updateReceipts>>
        PROVE  EachKeySpentOnce'
    BY <2>3 DEF FreshKey, RecordOperationReceipt, EachKeySpentOnce
  <2>4. ASSUME PurgeCell PROVE EachKeySpentOnce'
    BY <2>4 DEF PurgeCell, EachKeySpentOnce
  <2>5. ASSUME UNCHANGED <<updates, updateReceipts, operationReceipts>>
        PROVE  EachKeySpentOnce'
    BY <2>5 DEF EachKeySpentOnce
  <2>6. QED
    BY <2>1, <2>2, <2>3, <2>4, <2>5
       DEF Next, ledgerVars, Materialize, MarkUpdateApplied, BeginInstanceClose,
           AdmitOperation, JoinOperation, StartOperation, RecordOperationResult
<1>3. QED
  BY <1>1, <1>2, TypeCorrect, UpdatesInRangeHolds, PTL DEF Spec

-----------------------------------------------------------------------------
(* No row of one incarnation is found in a later one of the same name.     *)
THEOREM IncarnationsAreFenced == Spec => []OneIncarnationOnly
<1>1. Init => OneIncarnationOnly
  BY DEF Init, OneIncarnationOnly
<1>2. TypeOK /\ Dormant /\ OneIncarnationOnly /\ [Next]_ledgerVars
        => OneIncarnationOnly'
  <2> SUFFICES ASSUME TypeOK, Dormant, OneIncarnationOnly, [Next]_ledgerVars
               PROVE  OneIncarnationOnly'
    OBVIOUS
  <2> USE DEF OneIncarnationOnly, instanceVars, stateVars, editVars, operationVars
  <2>1. ASSUME NEW k \in Keys, NEW p \in Plans, AcceptChange(k, p)
        PROVE  OneIncarnationOnly'
    BY <2>1 DEF AcceptChange, SameIncarnation
  <2>2. ASSUME NEW r \in Revisions, Materialize(r) PROVE OneIncarnationOnly'
    BY <2>2 DEF Materialize, Dormant
  <2>3. ASSUME PurgeCell PROVE OneIncarnationOnly'
    BY <2>3 DEF PurgeCell
  <2>4. ASSUME NEW k \in Keys, NEW q \in Requests, AdmitOperation(k, q)
        PROVE  OneIncarnationOnly'
    BY <2>4 DEF AdmitOperation, AdmissionOpen
  <2>5. ASSUME NEW o \in operations, NEW phase \in Phases,
               Rephase(o, phase), UNCHANGED <<live, incarnation, updates, retained>>
        PROVE  OneIncarnationOnly'
    <3>1. [o EXCEPT !.phase = phase].request = o.request
      BY DEF TypeOK, OperationRows
    <3>2. QED
      BY <2>5, <3>1 DEF Rephase
  <2>6. ASSUME live' = live, UNCHANGED <<incarnation, updates, operations>>,
               live \/ UNCHANGED retained
        PROVE  OneIncarnationOnly'
    BY <2>6
  <2>7. QED
    BY <2>1, <2>2, <2>3, <2>4, <2>5, <2>6
       DEF Next, ledgerVars, AcceptNoop, MarkUpdateApplied, BeginInstanceClose,
           JoinOperation, StartOperation, RecordOperationResult, AcceptsResult,
           Active, ActivePhases, Phases, Pending, Running
<1>3. QED
  BY <1>1, <1>2, TypeCorrect, DormantHolds, PTL DEF Spec

-----------------------------------------------------------------------------
(* The first terminal result recorded for an operation is never replaced.  *)
THEOREM ResultsAreFinal == Spec => FirstResultWins
<1>1. [Next]_ledgerVars
        => [\A o \in operations : ~Active(o) /\ live' => o \in operations']_ledgerVars
  <2> SUFFICES ASSUME [Next]_ledgerVars,
                      NEW o \in operations, ~Active(o), live'
               PROVE  o \in operations' \/ UNCHANGED ledgerVars
    OBVIOUS
  <2> USE DEF instanceVars, stateVars, editVars, operationVars
  <2>1. ASSUME NEW x \in operations, NEW phase \in Phases,
               Active(x), Rephase(x, phase)
        PROVE  o \in operations'
    BY <2>1 DEF Rephase
  <2>2. ASSUME operations \subseteq operations' PROVE o \in operations'
    BY <2>2
  <2>3. CASE PurgeCell
    BY <2>3 DEF PurgeCell
  <2>4. QED
    BY <2>1, <2>2, <2>3
       DEF Next, Materialize, AcceptNoop, AcceptChange, MarkUpdateApplied,
           BeginInstanceClose, AdmitOperation, JoinOperation, StartOperation,
           RecordOperationResult, AcceptsResult, Active, ActivePhases, Phases,
           Pending, Running
<1>2. QED
  BY <1>1, PTL DEF Spec, FirstResultWins

(* The close latch admits nothing and is released only by the purge.       *)
THEOREM TheLatchHolds == Spec => ClosingAdmitsNothing
<1> DEFINE Kept ==
        closing /\ live' =>
            /\ closing'
            /\ generation' = generation /\ revision' = revision
            /\ {o.request : o \in operations'} = {o.request : o \in operations}
<1>1. TypeOK /\ [Next]_ledgerVars => [Kept]_ledgerVars
  <2> SUFFICES ASSUME TypeOK, [Next]_ledgerVars, closing, live'
               PROVE  \/ UNCHANGED ledgerVars
                      \/ /\ closing'
                         /\ generation' = generation /\ revision' = revision
                         /\ {o.request : o \in operations'}
                              = {o.request : o \in operations}
    OBVIOUS
  <2> USE DEF instanceVars, stateVars, editVars, operationVars
  <2>1. ASSUME NEW x \in operations, NEW phase \in Phases, Rephase(x, phase)
        PROVE  {o.request : o \in operations'} = {o.request : o \in operations}
    <3>1. [x EXCEPT !.phase = phase].request = x.request
      BY DEF TypeOK, OperationRows
    <3>2. QED
      BY <2>1, <3>1 DEF Rephase
  <2>2. ASSUME NEW r \in Revisions, Materialize(r) PROVE FALSE
    BY <2>2 DEF Materialize
  <2>3. ASSUME NEW k \in Keys, NEW p \in Plans, AcceptNoop(k, p) \/ AcceptChange(k, p)
        PROVE  FALSE
    BY <2>3 DEF AcceptNoop, AcceptChange
  <2>4. ASSUME NEW k \in Keys, NEW q \in Requests, AdmitOperation(k, q)
        PROVE  FALSE
    BY <2>4 DEF AdmitOperation, AdmissionOpen
  <2>5. ASSUME PurgeCell PROVE FALSE
    BY <2>5 DEF PurgeCell
  <2>6. ASSUME NEW g \in 1..MaxGeneration, MarkUpdateApplied(g)
        PROVE  closing' /\ UNCHANGED <<generation, revision, operations>>
    BY <2>6 DEF MarkUpdateApplied
  <2>7. ASSUME BeginInstanceClose
        PROVE  closing' /\ UNCHANGED <<generation, revision, operations>>
    BY <2>7 DEF BeginInstanceClose
  <2>8. ASSUME NEW k \in Keys, NEW q \in Requests, JoinOperation(k, q)
        PROVE  closing' /\ UNCHANGED <<generation, revision, operations>>
    BY <2>8 DEF JoinOperation
  <2>9. ASSUME NEW o \in operations, StartOperation(o)
        PROVE  /\ closing' /\ UNCHANGED <<generation, revision>>
               /\ Rephase(o, Running) /\ Running \in Phases
    BY <2>9 DEF StartOperation, Phases, ActivePhases
  <2>10. ASSUME NEW o \in operations, NEW phase \in Terminal,
                RecordOperationResult(o, phase)
         PROVE  /\ closing' /\ UNCHANGED <<generation, revision>>
                /\ Rephase(o, phase) /\ phase \in Phases
    BY <2>10 DEF RecordOperationResult, Phases
  <2>11. QED
    BY <2>1, <2>2, <2>3, <2>4, <2>5, <2>6, <2>7, <2>8, <2>9, <2>10 DEF Next
<1>2. QED
  BY <1>1, TypeCorrect, PTL DEF Spec, ClosingAdmitsNothing

-----------------------------------------------------------------------------
(* The refinement of ComponentLeases.                                      *)

UniqueIds == \A o, x \in operations : o.request.id = x.request.id => o = x

LEMMA UniqueIdsHolds == Spec => []UniqueIds
<1>1. Init => UniqueIds
  BY DEF Init, UniqueIds
<1>2. TypeOK /\ UniqueIds /\ [Next]_ledgerVars => UniqueIds'
  <2> SUFFICES ASSUME TypeOK, UniqueIds, [Next]_ledgerVars PROVE UniqueIds'
    OBVIOUS
  <2> USE DEF UniqueIds, instanceVars, stateVars, editVars, operationVars
  <2>1. ASSUME NEW k \in Keys, NEW q \in Requests, AdmitOperation(k, q)
        PROVE  UniqueIds'
    BY <2>1 DEF AdmitOperation
  <2>2. ASSUME NEW o \in operations, NEW phase \in Phases, Rephase(o, phase)
        PROVE  UniqueIds'
    <3>1. [o EXCEPT !.phase = phase].request = o.request
      BY DEF TypeOK, OperationRows
    <3>2. \A y \in operations' : \E z \in operations :
            y.request.id = z.request.id /\ (y = z \/ z = o)
      BY <2>2, <3>1 DEF Rephase
    <3>3. \A y \in operations' : y.request.id = o.request.id
            => y = [o EXCEPT !.phase = phase]
      BY <2>2, <3>1 DEF Rephase
    <3>4. QED
      BY <2>2, <3>2, <3>3
  <2>3. ASSUME PurgeCell PROVE UniqueIds'
    BY <2>3 DEF PurgeCell
  <2>4. ASSUME UNCHANGED operations PROVE UniqueIds'
    BY <2>4
  <2>5. QED
    BY <2>1, <2>2, <2>3, <2>4
       DEF Next, ledgerVars, Materialize, AcceptNoop, AcceptChange,
           MarkUpdateApplied, BeginInstanceClose, JoinOperation, StartOperation,
           RecordOperationResult, Phases, ActivePhases, Running
<1>3. QED
  BY <1>1, <1>2, TypeCorrect, PTL DEF Spec

Leasing(o) == Active(o) /\ o.request.kind # "component_logs"

LEMMA LeaseMember ==
    \A l : l \in LeaseSet <=>
        \E o \in operations : /\ Leasing(o)
                              /\ \E c \in o.request.components :
                                    l = [holder |-> o.request.id, component |-> c]
  BY DEF LeaseSet, Leasing

LEMMA LeaseMemberNext ==
    \A l : l \in LeaseSet' <=>
        \E o \in operations' : /\ Leasing(o)
                               /\ \E c \in o.request.components :
                                     l = [holder |-> o.request.id, component |-> c]
  BY DEF LeaseSet, Leasing, Active

LEMMA LeasesUnchanged ==
    ASSUME UNCHANGED operations
    PROVE  LeaseSet' = LeaseSet
  BY DEF LeaseSet, Active

LEMMA DisturbedIsAffected ==
    ASSUME NEW p \in Plans, p.base = revision
    PROVE  Leases!Disturbed(Config[p.target]) = Affected(p)
  BY ConfigAssumption
     DEF Leases!Disturbed, Affected, Restarted, Removed, Deployed, Plans

LEMMA InitRefines == Init => Leases!Init
<1> SUFFICES ASSUME Init PROVE Leases!Init
  OBVIOUS
<1>1. Config[revision] \in Leases!Configurations
  BY ConfigAssumption DEF Init, Leases!Configurations
<1>2. LeaseSet = {}
  BY DEF Init, LeaseSet
<1>3. PendingAffected(applied) = {}
  BY DEF Init, PendingAffected, PendingPlans
<1>4. QED
  BY <1>1, <1>2, <1>3 DEF Leases!Init

LEMMA StepRefines ==
    TypeOK /\ Dormant /\ UpdatesInRange /\ UniqueIds /\ [Next]_ledgerVars
        => [Leases!Next]_Leases!leaseVars
<1> SUFFICES ASSUME TypeOK, Dormant, UpdatesInRange, UniqueIds, [Next]_ledgerVars
             PROVE  Leases!Next \/ UNCHANGED Leases!leaseVars
  OBVIOUS
<1> USE DEF instanceVars, stateVars, editVars, operationVars
<1>1. ASSUME NEW r \in Revisions, Materialize(r) PROVE Leases!Next
  <2>1. LeaseSet' = {} /\ PendingAffected(applied)' = {}
    BY <1>1 DEF Materialize, Dormant, LeaseSet, PendingAffected, PendingPlans
  <2>2. Leases!Reset(Config[r])
    BY <1>1, <2>1 DEF Materialize, Leases!Reset
  <2>3. Config[r] \in Leases!Configurations
    BY ConfigAssumption DEF Leases!Configurations
  <2>4. QED
    BY <2>2, <2>3 DEF Leases!Next
<1>2. ASSUME NEW k \in Keys, NEW p \in Plans, AcceptChange(k, p) PROVE Leases!Next
  <2>1. /\ p.base = revision
        /\ revision' = p.target
        /\ p.target \in Revisions
        /\ LeaseSet' = LeaseSet
    BY <1>2, LeasesUnchanged DEF AcceptChange, DesiredUnchanged, Plans
  <2>2. Leases!Disturbed(Config[p.target]) = Affected(p)
    BY <2>1, DisturbedIsAffected
  <2>3. Affected(p) \intersect Leases!Leased = {}
    <3> SUFFICES ASSUME NEW l \in LeaseSet, l.component \in Affected(p) PROVE FALSE
      BY DEF Leases!Leased
    <3>1. PICK o \in operations :
              /\ Leasing(o)
              /\ \E c \in o.request.components :
                    l = [holder |-> o.request.id, component |-> c]
      BY LeaseMember
    <3>2. l.component \in o.request.components
      BY <3>1
    <3>3. QED
      BY <1>2, <3>1, <3>2 DEF AcceptChange, BlockingOperations, Leasing
  <2>4. Leases!Edit(Config[p.target])
    BY <1>2, <2>1, <2>2, <2>3, PendingAfterAccept DEF Leases!Edit
  <2>5. Config[p.target] \in Leases!Configurations
    BY <2>1, ConfigAssumption DEF Leases!Configurations
  <2>6. QED
    BY <2>4, <2>5 DEF Leases!Next
<1>3. ASSUME NEW g \in 1..MaxGeneration, MarkUpdateApplied(g) PROVE Leases!Next
  <2>1. UNCHANGED <<revision, operations>>
    BY <1>3 DEF MarkUpdateApplied
  <2>2. Leases!Settle
    BY <1>3, <2>1, LeasesUnchanged, PendingAfterMark DEF Leases!Settle
  <2>3. QED
    BY <2>2 DEF Leases!Next
<1>4. ASSUME PurgeCell PROVE Leases!Next
  <2>1. LeaseSet' = {} /\ PendingAffected(applied)' = {}
    BY <1>4 DEF PurgeCell, LeaseSet, PendingAffected, PendingPlans
  <2>2. Leases!Reset(Config[revision])
    BY <1>4, <2>1 DEF PurgeCell, Leases!Reset
  <2>3. Config[revision] \in Leases!Configurations
    BY ConfigAssumption DEF TypeOK, Leases!Configurations
  <2>4. QED
    BY <2>2, <2>3 DEF Leases!Next
<1>5. ASSUME NEW k \in Keys, NEW q \in Requests, AdmitOperation(k, q)
      PROVE  Leases!Next
  <2> DEFINE S == IF q.kind = "component_logs" THEN {} ELSE q.components
             new == [request |-> q, phase |-> Pending, revision |-> revision]
  <2>1. /\ operations' = operations \union {new}
        /\ UNCHANGED <<revision, updates, applied>>
    BY <1>5 DEF AdmitOperation
  <2>2. /\ new.request = q
        /\ Leasing(new) <=> q.kind # "component_logs"
    BY DEF Leasing, Active, ActivePhases
  <2> HIDE DEF new
  <2>3. LeaseSet' = LeaseSet \union {[holder |-> q.id, component |-> c] : c \in S}
    BY <2>1, <2>2, LeaseMember, LeaseMemberNext
  <2>4. S \intersect PendingAffected(applied) = {}
    BY <1>5 DEF AdmitOperation, ComponentsSettled, PendingAffected
  <2>5. S \in SUBSET Components
    BY RequestAssumption
  <2>6. Leases!Lease(q.id, S)
    BY <2>1, <2>3, <2>4, PendingUnchanged DEF Leases!Lease
  <2>7. QED
    BY <2>5, <2>6 DEF Leases!Next
<1>6. ASSUME NEW o \in operations, StartOperation(o)
      PROVE  UNCHANGED Leases!leaseVars
  <2> DEFINE new == [o EXCEPT !.phase = Running]
  <2>1. /\ operations' = (operations \ {o}) \union {new}
        /\ UNCHANGED <<revision, updates, applied>>
    BY <1>6 DEF StartOperation, Rephase
  <2>2. /\ new.request = o.request
        /\ Leasing(new) <=> Leasing(o)
    BY <1>6 DEF TypeOK, OperationRows, Leasing, Active, ActivePhases, StartOperation
  <2> HIDE DEF new
  <2>3. \A l : l \in LeaseSet' <=> l \in LeaseSet
    BY <2>1, <2>2, LeaseMember, LeaseMemberNext
  <2>4. LeaseSet' = LeaseSet
    BY <2>3 DEF LeaseSet
  <2>5. QED
    BY <2>1, <2>4, PendingUnchanged DEF Leases!leaseVars
<1>7. ASSUME NEW o \in operations, NEW phase \in Terminal,
             RecordOperationResult(o, phase)
      PROVE  Leases!Next
  <2> DEFINE new == [o EXCEPT !.phase = phase]
  <2>1. /\ operations' = (operations \ {o}) \union {new}
        /\ UNCHANGED <<revision, updates, applied>>
    BY <1>7 DEF RecordOperationResult, Rephase
  <2>2. ~Leasing(new)
    <3>1. new.phase = phase
      BY <1>7 DEF TypeOK, OperationRows
    <3>2. phase \notin ActivePhases
      BY <1>7 DEF ActivePhases, Terminal, Pending, Running
    <3>3. QED
      BY <3>1, <3>2 DEF Leasing, Active
  <2> HIDE DEF new
  <2>3. \A l : l \in LeaseSet' <=> l \in LeaseSet /\ l.holder # o.request.id
    <3>1. ASSUME NEW l \in LeaseSet' PROVE l \in LeaseSet /\ l.holder # o.request.id
      <4>1. PICK x \in operations' :
                /\ Leasing(x)
                /\ \E c \in x.request.components :
                      l = [holder |-> x.request.id, component |-> c]
        BY LeaseMemberNext
      <4>2. x \in operations /\ x # o
        BY <2>1, <2>2, <4>1
      <4>3. l.holder = x.request.id
        BY <4>1
      <4>4. x.request.id # o.request.id
        BY <4>2 DEF UniqueIds
      <4>5. QED
        BY <4>1, <4>2, <4>3, <4>4, LeaseMember
    <3>2. ASSUME NEW l \in LeaseSet, l.holder # o.request.id PROVE l \in LeaseSet'
      <4>1. PICK x \in operations :
                /\ Leasing(x)
                /\ \E c \in x.request.components :
                      l = [holder |-> x.request.id, component |-> c]
        BY LeaseMember
      <4>2. x # o
        BY <3>2, <4>1
      <4>3. QED
        BY <2>1, <4>1, <4>2, LeaseMemberNext
    <3>3. QED
      BY <3>1, <3>2
  <2>4. Leases!Release(o.request.id)
    <3>1. LeaseSet' = {l \in LeaseSet : l.holder # o.request.id}
      BY <2>3
    <3>2. QED
      BY <2>1, <3>1, PendingUnchanged DEF Leases!Release
  <2>5. o.request.id \in {q.id : q \in Requests}
    BY DEF TypeOK, OperationRows
  <2>6. QED
    BY <2>4, <2>5 DEF Leases!Next
<1>8. ASSUME UNCHANGED <<revision, updates, applied, operations>>
      PROVE  UNCHANGED Leases!leaseVars
  BY <1>8, LeasesUnchanged, PendingUnchanged DEF Leases!leaseVars
<1>9. QED
  BY <1>1, <1>2, <1>3, <1>4, <1>5, <1>6, <1>7, <1>8
     DEF Next, ledgerVars, AcceptNoop, BeginInstanceClose, JoinOperation

(* The journal keeps the promise of ComponentLeases: every transaction is a*)
(* step of the lease contract or leaves the leases as they are.            *)
THEOREM JournalImplementsLeases == Spec => LeasesHold
  BY InitRefines, StepRefines, TypeCorrect, DormantHolds, UpdatesInRangeHolds,
     UniqueIdsHolds, PTL DEF Spec, LeasesHold, Leases!Spec
=============================================================================
