-------------------------- MODULE ReconcileProofs --------------------------
(***************************************************************************)
(* Proofs about CellReconcile, for every set of components, revisions and  *)
(* client tasks, and any number of edits and faults.                       *)
(*                                                                         *)
(* The invariant is built in layers, each inductive relative to the ones   *)
(* before it: the shapes, the journal, the order of generations, the       *)
(* deletions, and (for a controller whose cache follows the resource and   *)
(* whose passes are not refused) the namespace with its inventories.       *)
(***************************************************************************)
EXTENDS CellReconcile, CellLedgerProofs

(* The journal part: the rows are of one incarnation that stays live, and  *)
(* data to be deleted is retained, not deployed.                           *)
JournalInv ==
    /\ live /\ incarnation = 1
    /\ UpdatesInRange
    /\ RetentionInv

(* Who may be ahead of whom.  A task never knows a generation the journal  *)
(* does not have; one that may still win a replacement knows at least the  *)
(* resource's, and another pair than the resource's; one that marks found  *)
(* its generation on the resource.                                         *)
TaskInOrder(t) ==
    /\ t.read <= generation /\ t.generation <= generation
    /\ t.pc = "mark" => t.generation <= cell.spec.generation
    /\ t.fresh => /\ t.pc \in {"deletions", "replace"}
                  /\ Open(cell)
                  /\ cell.spec.generation <= t.generation
                  /\ ~(/\ cell.spec.revision = t.revision
                       /\ cell.spec.generation = t.generation)

Behind(c) ==
    /\ c.spec.generation <= cell.spec.generation
    /\ c.status.generation <= cell.spec.generation

OrderInv ==
    /\ applied <= cell.spec.generation
    /\ cell.spec.generation <= generation
    /\ \A w \in Workers : TaskInOrder(workers[w])
    /\ Behind(cell) /\ Behind(cache) /\ Behind(pass.seen)
    /\ pass.status.generation <= cell.spec.generation

(* Deletions of data on their way from the journal to the claims.          *)
Leaving == cell.phase \in {"deleting", "gone"}

DeletionInv ==
    /\ \A S \in {cell.spec.deleted, cache.spec.deleted, pass.seen.spec.deleted,
                 releasing} : S \subseteq PendingDeletedData(1)
    /\ \A w \in Workers : workers[w].deleted \subseteq PendingDeletedData(1)
    /\ cache.phase = "deleting" => Leaving
    /\ pass.pc \in {"cleanup", "teardown"} => Leaving

(* What a delivery of the newest generation asks to delete is not deployed.*)
SparesDeployed ==
    /\ cell.spec.generation = generation
         => cell.spec.deleted \intersect Deployed(revision) = {}
    /\ \A w \in Workers :
         workers[w].pc = "replace" /\ workers[w].generation = generation
           => workers[w].deleted \intersect Deployed(revision) = {}

Known == memory.spec.revision # Absent

(* Before the resource exists there is nothing.                            *)
Untouched ==
    cell.phase = "none" =>
        /\ cell.status = NoStatus
        /\ pass.pc = "idle"
        /\ ~Known
        /\ \A c \in Components : ~Remains(c)

(* A pass is the only writer of the status it knows.                       *)
PassInv ==
    /\ pass.pc \in {"inventory", "write", "report", "cleanup"} /\ Exists
         => pass.status = cell.status
    /\ pass.pc = "inventory" => pass.status = pass.seen.status
    /\ pass.pc \in {"inventory", "write", "report"} /\ pass.status.phase = "Ready"
         => pass.status = pass.seen.status
    /\ pass.pc = "write" => Wanted \subseteq pass.status.inventory
    /\ pass.pc \in {"inventory", "write"} /\ Known
         => memory.spec.revision = pass.seen.spec.revision
    /\ pass.pc = "report" => memory.spec = pass.seen.spec

(* Inventories: of a status, of the memory.                                *)
Covers(status) ==
    status.revision # Absent => Deployed(status.revision) \subseteq status.inventory

CoverInv ==
    /\ Covers(cell.status) /\ Covers(pass.status) /\ Covers(pass.seen.status)
    /\ Known => Deployed(memory.spec.revision) \subseteq memory.inventory
    /\ Exists => \A c \in Components : Remains(c) =>
                    /\ c \in cell.status.inventory
                    /\ Known => c \in memory.inventory

NamespaceInv == Untouched /\ PassInv /\ CoverInv

(* The pair of generation and metadata generation names one spec.          *)
SameAge(c) == c.spec.generation = cell.spec.generation /\ c.meta = cell.meta

VersionInv ==
    /\ cell.status.meta <= cell.meta
    /\ pass.pc # "idle" =>
         /\ pass.seen.meta <= cell.meta
         /\ pass.seen.status.meta <= pass.seen.meta
         /\ pass.seen.status.generation <= pass.seen.spec.generation
         /\ SameAge(pass.seen) => pass.seen.spec = cell.spec

(* Nothing of a removed component is left, nor data whose deletion was     *)
(* asked for.                                                              *)
Swept(spec) ==
    \A c \in Components \ Deployed(spec.revision) :
        /\ running[c] = Absent
        /\ c \in spec.deleted => c \notin volumes

Rolled(spec) ==
    \A c \in Deployed(spec.revision) : running[c] = Config[spec.revision][c]

(* The status speaks of the resource as it is, and says ready.             *)
SaysReady ==
    /\ cell.status.phase = "Ready"
    /\ cell.status.generation = cell.spec.generation
    /\ cell.status.meta = cell.meta

PrunedInv == Exists /\ Known /\ memory.pruned => Swept(memory.spec)

ReadyInv ==
    Exists /\ SaysReady =>
        /\ cell.status.revision = cell.spec.revision
        /\ Swept(cell.spec) /\ Rolled(cell.spec)

ReportInv == VersionInv /\ PrunedInv /\ ReadyInv

-----------------------------------------------------------------------------
(* Shapes.                                                                 *)
LEMMA Shapes ==
    /\ NoStatus \in Statuses
    /\ NoPass \in Passes
    /\ NoMemory \in [spec : Specs, pruned : BOOLEAN, inventory : SUBSET Components]
    /\ Idle \in Tasks
    /\ \A r \in Revisions : NewCell("none", r) \in Cells
<1>1. 1 \in 1..MaxGeneration /\ 0 \in 0..MaxGeneration
  BY BoundAssumption
<1>2. NoStatus \in Statuses
  BY <1>1 DEF NoStatus, Statuses
<1>3. \A r \in Revisions \union {Absent} : NewCell("none", r) \in Cells
  BY <1>1, <1>2 DEF NewCell, Cells, Specs
<1>4. NewCell("none", Absent).spec \in Specs
  BY <1>1 DEF NewCell, Specs
<1>5. QED
  BY <1>1, <1>2, <1>3, <1>4 DEF NoPass, Passes, NoMemory, Idle, Tasks

(* A write of the resource keeps the tasks but for their freshness.        *)
LEMMA OutdatedTasks ==
    ASSUME workers \in [Workers -> Tasks]
    PROVE  /\ Outdated(workers) \in [Workers -> Tasks]
           /\ \A w \in Workers :
                /\ Outdated(workers)[w].pc = workers[w].pc
                /\ Outdated(workers)[w].revision = workers[w].revision
                /\ Outdated(workers)[w].read = workers[w].read
                /\ Outdated(workers)[w].generation = workers[w].generation
                /\ Outdated(workers)[w].deleted = workers[w].deleted
                /\ ~Outdated(workers)[w].fresh
    BY DEF Outdated, Tasks

(* The composition's steps are steps of the journal of CellLedger, or leave*)
(* it alone.                                                               *)
LEMMA JournalStep ==
    ASSUME TypeOK, JournalInv, [ReconcileNext]_reconcileVars
    PROVE  [Next]_ledgerVars
<1>1. CASE Edit
  <2>1. PICK target \in Revisions, d \in BOOLEAN, S \in SUBSET retained :
            AcceptChange(generation + 1, PlanOf(target, d, S))
    BY <1>1 DEF Edit
  <2>2. generation + 1 \in Keys
    BY <2>1, BoundAssumption, ReconcileAssumption DEF AcceptChange, TypeOK
  <2>3. PlanOf(target, d, S) \in Plans
    BY BoundAssumption DEF PlanOf, Plans, TypeOK, JournalInv
  <2>4. QED
    BY <2>1, <2>2, <2>3 DEF Next
<1>2. CASE Close
  BY <1>2 DEF Close, Next
<1>3. ASSUME NEW w \in Workers, Mark(w) PROVE [Next]_ledgerVars
  <2>1. CASE MarkUpdateApplied(workers[w].generation)
    BY <2>1 DEF Next, MarkUpdateApplied, ReportsDesired, TypeOK
  <2>2. QED
    BY <1>3, <2>1 DEF Mark
<1>4. CASE UNCHANGED ledgerVars
  BY <1>4
<1>5. QED
  BY <1>1, <1>2, <1>3, <1>4
     DEF ReconcileNext, reconcileVars, CreateCell, DeleteCell, ClientStep, ReadInstance,
         ReadState, GetCell, ReadDeletions, Replace, Observe, Abandon, Watch,
         ControllerStep, BeginCleanup, BeginObserve, BeginApply, Enter,
         PersistInventory, WriteComponent, Prune, Report, AnnounceCleanup,
         Teardown, PassFails, Release, Refuse, Interrupt, Steady

(* No step of the composition purges or materializes the cell.             *)
LEMMA StaysLive ==
    ASSUME TypeOK, JournalInv, [ReconcileNext]_reconcileVars
    PROVE  /\ live' /\ incarnation' = 1
           /\ generation' >= generation
           /\ updates \subseteq updates'
<1>1. CASE UNCHANGED ledgerVars
  BY <1>1 DEF ledgerVars, JournalInv, TypeOK
<1>2. CASE Edit
  BY <1>2 DEF Edit, AcceptChange, JournalInv, TypeOK
<1>3. CASE Close
  BY <1>3 DEF Close, BeginInstanceClose, JournalInv, instanceVars, editVars, TypeOK
<1>4. ASSUME NEW w \in Workers, Mark(w)
      PROVE  /\ live' /\ incarnation' = 1
             /\ generation' >= generation
             /\ updates \subseteq updates'
  <2>1. CASE MarkUpdateApplied(workers[w].generation)
    BY <2>1 DEF MarkUpdateApplied, JournalInv, instanceVars, TypeOK
  <2>2. QED
    BY <1>1, <1>4, <2>1 DEF Mark
<1>5. QED
  BY <1>1, <1>2, <1>3, <1>4
     DEF ReconcileNext, reconcileVars, CreateCell, DeleteCell, ClientStep, ReadInstance,
         ReadState, GetCell, ReadDeletions, Replace, Observe, Abandon, Watch,
         ControllerStep, BeginCleanup, BeginObserve, BeginApply, Enter,
         PersistInventory, WriteComponent, Prune, Report, AnnounceCleanup,
         Teardown, PassFails, Release, Refuse, Interrupt, Steady

LEMMA JournalKept ==
    ASSUME TypeOK, JournalInv, [ReconcileNext]_reconcileVars
    PROVE  TypeOK' /\ JournalInv'
<1>1. [Next]_ledgerVars /\ live'
  BY JournalStep, StaysLive
<1>2. Dormant
  BY DEF Dormant, JournalInv
<1>3. TypeOK' /\ UpdatesInRange' /\ RetentionInv'
  BY <1>1, <1>2, TypeStep, UpdatesInRangeStep, RetentionStep DEF JournalInv
<1>4. QED
  BY <1>1, <1>3, StaysLive DEF JournalInv

LEMMA JournalInit == ReconcileInit => TypeOK /\ JournalInv
<1> SUFFICES ASSUME ReconcileInit PROVE TypeOK /\ JournalInv
  OBVIOUS
<1>1. TypeOK
  <2>1. /\ incarnation \in 0..MaxIncarnation
        /\ generation \in 1..MaxGeneration
        /\ applied \in 1..generation
    BY BoundAssumption DEF ReconcileInit
  <2>2. QED
    BY <2>1 DEF ReconcileInit, TypeOK
<1>2. PendingDeletedData(applied) = {}
  BY DEF ReconcileInit, PendingDeletedData, PendingPlans
<1>3. QED
  BY <1>1, <1>2 DEF ReconcileInit, JournalInv, UpdatesInRange, RetentionInv,
                    RetainedNeverDeployed, DeletionsRetained

-----------------------------------------------------------------------------
(* Type correctness of the composition: what the tasks and the passes keep *)
(* from their reads, and what they write, has its shape.                   *)
LEMMA ReplacementType ==
    ASSUME ReconcileTypeOK, NEW w \in Workers, workers[w].pc = "replace",
           workers[w].generation \in 1..MaxGeneration
    PROVE  /\ Replacement(w) \in Cells
           /\ Replacement(w).spec.revision # Absent
<1>1. workers[w] \in Tasks /\ cell \in Cells /\ workers[w].revision # Absent
  BY DEF ReconcileTypeOK
<1>2. [revision   |-> workers[w].revision,
       generation |-> workers[w].generation,
       deleted    |-> workers[w].deleted] \in Specs
  BY <1>1 DEF Tasks, Specs
<1> DEFINE spec == [revision   |-> workers[w].revision,
                    generation |-> workers[w].generation,
                    deleted    |-> workers[w].deleted]
           meta == IF cell.spec.revision = workers[w].revision THEN cell.meta
                   ELSE cell.meta + 1
<1>3. meta \in Nat
  BY <1>1 DEF Cells
<1>4. spec.revision = workers[w].revision
  OBVIOUS
<1>5. Replacement(w) = [cell EXCEPT !.spec = spec, !.meta = meta]
  BY DEF Replacement
<1>6. spec \in Specs
  BY <1>2
<1> HIDE DEF spec, meta
<1>7. QED
  BY <1>1, <1>3, <1>4, <1>5, <1>6 DEF Cells

LEMMA ConcludeType ==
    ASSUME NEW w \in Workers, NEW c, NEW g \in 0..MaxGeneration
    PROVE  /\ Conclude(w, c, g) \in Tasks
           /\ Conclude(w, c, g).pc \in {"idle", "mark"}
           /\ ~Conclude(w, c, g).fresh
           /\ Conclude(w, c, g).read = 0
           /\ Conclude(w, c, g).deleted = {}
           /\ Conclude(w, c, g).generation \in {0, g}
           /\ Conclude(w, c, g).pc = "mark"
                => /\ ShowsReady(c, workers[w].revision, workers[w].read)
                   /\ Conclude(w, c, g).generation = g
  BY Shapes DEF Conclude, Idle, Tasks

(* A task that came past its reads of the journal carries a generation.    *)
Dated ==
    \A w \in Workers :
        workers[w].pc \in {"get", "deletions", "replace"}
            => workers[w].generation \in 1..MaxGeneration

TypeInv == ReconcileTypeOK /\ JournalInv /\ Dated

\* A task's move.
LEMMA ToType ==
    ASSUME NEW w \in Workers, NEW state \in Tasks, To(w, state),
           workers \in [Workers -> Tasks]
    PROVE  /\ workers' \in [Workers -> Tasks]
           /\ workers'[w] = state
           /\ \A v \in Workers \ {w} : workers'[v] = workers[v]
  BY DEF To

LEMMA ClientType ==
    ASSUME TypeInv, NEW w \in Workers, ClientStep(w) \/ Abandon(w)
    PROVE  /\ cell' \in Cells /\ cell'.spec.revision # Absent
           /\ workers' \in [Workers -> Tasks]
           /\ Dated'
           /\ \A v \in Workers : workers'[v].pc \notin {"idle", "mark"}
                                   => workers'[v].revision # Absent
           /\ UNCHANGED <<controllerVars, namespaceVars>>
           /\ faults' \in Nat
<1> DEFINE Goal == /\ cell' \in Cells /\ cell'.spec.revision # Absent
                   /\ workers' \in [Workers -> Tasks]
                   /\ Dated'
                   /\ \A v \in Workers : workers'[v].pc \notin {"idle", "mark"}
                                           => workers'[v].revision # Absent
                   /\ UNCHANGED <<controllerVars, namespaceVars>>
                   /\ faults' \in Nat
<1>1. /\ workers \in [Workers -> Tasks] /\ workers[w] \in Tasks
      /\ cell \in Cells /\ cell.spec.revision # Absent /\ faults \in Nat
      /\ \A v \in Workers : workers[v].pc \notin {"idle", "mark"}
                              => workers[v].revision # Absent
      /\ Dated
  BY DEF TypeInv, ReconcileTypeOK
<1>2. /\ revision \in Revisions /\ generation \in 1..MaxGeneration
      /\ generation \in 0..MaxGeneration
      /\ Absent \notin Revisions
  BY ReconcileAssumption, BoundAssumption DEF TypeInv, ReconcileTypeOK, TypeOK
<1>3. ASSUME NEW state \in Tasks, To(w, state), UNCHANGED <<cell, controllerVars, namespaceVars>>,
             faults' \in Nat,
             state.pc \notin {"idle", "mark"} => state.revision # Absent,
             state.pc \in {"get", "deletions", "replace"}
               => state.generation \in 1..MaxGeneration
      PROVE  Goal
  BY <1>1, <1>3, ToType DEF Dated
<1>4. CASE ReadInstance(w)
  <2>1. PICK pc \in {"state", "observe"} :
            To(w, [Idle EXCEPT !.pc = pc, !.revision = revision, !.read = generation])
    BY <1>4 DEF ReadInstance
  <2> DEFINE state == [Idle EXCEPT !.pc = pc, !.revision = revision, !.read = generation]
  <2>2. state \in Tasks /\ state.pc = pc /\ state.revision = revision
    BY <1>2, Shapes DEF Idle, Tasks
  <2>3. UNCHANGED <<cell, controllerVars, namespaceVars, faults>>
    BY <1>4 DEF ReadInstance
  <2> HIDE DEF state
  <2>4. QED
    BY <1>1, <1>2, <1>3, <2>1, <2>2, <2>3 DEF state
<1>5. CASE ReadState(w)
  <2> DEFINE state == IF closing THEN Idle
                      ELSE [workers[w] EXCEPT !.pc = "get", !.generation = generation]
  <2>1. /\ state \in Tasks
        /\ state.pc # "idle" => state.pc = "get" /\ state.revision # Absent
        /\ state.pc = "get" => state.generation \in 1..MaxGeneration
    BY <1>1, <1>2, <1>5, Shapes DEF ReadState, Idle, Tasks
  <2>2. To(w, state) /\ UNCHANGED <<cell, controllerVars, namespaceVars, faults>>
    BY <1>5 DEF ReadState
  <2> HIDE DEF state
  <2>3. QED
    BY <1>1, <1>3, <2>1, <2>2
<1>6. CASE GetCell(w)
  <2> DEFINE state ==
        IF ~Open(cell) \/ Superseded(w) THEN Idle
        ELSE IF InPlace(w) THEN Conclude(w, cell, workers[w].generation)
        ELSE [workers[w] EXCEPT !.pc = "deletions", !.fresh = TRUE]
  <2>1. /\ state \in Tasks
        /\ state.pc \notin {"idle", "mark"} => state.pc = "deletions" /\ state.revision # Absent
        /\ state.pc = "deletions" => state.generation \in 1..MaxGeneration
    <3>1. workers[w].pc = "get" /\ workers[w].revision # Absent
          /\ workers[w].generation \in 1..MaxGeneration
          /\ workers[w].generation \in 0..MaxGeneration
      BY <1>1, <1>6 DEF GetCell, Dated, Tasks
    <3>2. QED
      BY <1>1, <3>1, Shapes, ConcludeType DEF Idle, Tasks
  <2>2. To(w, state) /\ UNCHANGED <<cell, controllerVars, namespaceVars, faults>>
    BY <1>6 DEF GetCell
  <2> HIDE DEF state
  <2>3. QED
    BY <1>1, <1>3, <2>1, <2>2
<1>7. CASE ReadDeletions(w)
  <2> DEFINE state == [workers[w] EXCEPT !.pc = "replace",
                                         !.deleted = PendingDeletedData(applied)]
  <2>1. PendingDeletedData(applied) \subseteq Components
    BY DEF TypeInv, JournalInv, RetentionInv, DeletionsRetained, ReconcileTypeOK, TypeOK
  <2>2. /\ state \in Tasks /\ state.revision # Absent
        /\ state.generation \in 1..MaxGeneration
    BY <1>1, <1>7, <2>1 DEF ReadDeletions, Tasks, Dated
  <2>3. To(w, state) /\ UNCHANGED <<cell, controllerVars, namespaceVars, faults>>
    BY <1>7 DEF ReadDeletions
  <2> HIDE DEF state
  <2>4. QED
    BY <1>1, <1>3, <2>2, <2>3
<1>8. CASE Replace(w)
  <2>1. CASE Wins(w)
    <3> DEFINE mine == Conclude(w, Replacement(w), workers[w].generation)
    <3>1. /\ cell' = Replacement(w)
          /\ workers' = [Outdated(workers) EXCEPT ![w] = mine]
          /\ workers[w].pc = "replace"
          /\ UNCHANGED <<controllerVars, namespaceVars, faults>>
      BY <1>8, <2>1 DEF Replace
    <3>2. workers[w].generation \in 1..MaxGeneration /\ workers[w].generation \in 0..MaxGeneration
      BY <1>1, <3>1 DEF Dated, Tasks
    <3>3. mine \in Tasks /\ mine.pc \in {"idle", "mark"}
      BY <3>2, ConcludeType
    <3>4. Replacement(w) \in Cells /\ Replacement(w).spec.revision # Absent
      BY <3>1, <3>2, ReplacementType DEF TypeInv
    <3> HIDE DEF mine
    <3>5. workers' \in [Workers -> Tasks]
      BY <1>1, <3>1, <3>3, OutdatedTasks
    <3>6. \A v \in Workers : v # w => /\ workers'[v].pc = workers[v].pc
                                      /\ workers'[v].revision = workers[v].revision
                                      /\ workers'[v].generation = workers[v].generation
      BY <1>1, <3>1, OutdatedTasks
    <3>7. workers'[w] = mine
      BY <1>1, <3>1, OutdatedTasks
    <3>8. QED
      BY <1>1, <3>1, <3>3, <3>4, <3>5, <3>6, <3>7 DEF Dated
  <2>2. CASE ~Wins(w)
    BY <1>1, <1>3, <1>8, <2>2, Shapes DEF Replace, Idle
  <2>3. QED
    BY <2>1, <2>2
<1>9. CASE Observe(w)
  <2> DEFINE state == IF Exists THEN Conclude(w, cell, workers[w].read) ELSE Idle
  <2>1. state \in Tasks /\ state.pc \in {"idle", "mark"}
    BY <1>1, Shapes, ConcludeType DEF Idle, Tasks
  <2>2. To(w, state) /\ UNCHANGED <<cell, controllerVars, namespaceVars, faults>>
    BY <1>9 DEF Observe
  <2> HIDE DEF state
  <2>3. QED
    BY <1>1, <1>3, <2>1, <2>2
<1>10. CASE Mark(w)
  BY <1>1, <1>3, <1>10, Shapes DEF Mark, Idle
<1>11. CASE Abandon(w)
  BY <1>1, <1>3, <1>11, Shapes DEF Abandon, Idle
<1>12. QED
  BY <1>4, <1>5, <1>6, <1>7, <1>8, <1>9, <1>10, <1>11 DEF ClientStep

\* What patch_status does to the resource and to the tasks.
LEMMA WriteStatusType ==
    ASSUME NEW known, NEW status \in Statuses, WriteStatus(known, status),
           workers \in [Workers -> Tasks], cell \in Cells
    PROVE  /\ cell' \in Cells /\ cell'.spec = cell.spec /\ cell'.meta = cell.meta
           /\ cell'.phase = cell.phase
           /\ workers' \in [Workers -> Tasks]
           /\ \A w \in Workers :
                /\ workers'[w].pc = workers[w].pc
                /\ workers'[w].revision = workers[w].revision
                /\ workers'[w].read = workers[w].read
                /\ workers'[w].generation = workers[w].generation
                /\ workers'[w].deleted = workers[w].deleted
                /\ workers'[w].fresh => workers[w].fresh /\ UNCHANGED cell
           /\ \/ status = known /\ UNCHANGED cell
              \/ status # known /\ cell'.status = status /\ Exists
<1>1. CASE status = known
  BY <1>1 DEF WriteStatus
<1>2. CASE status # known
  BY <1>2, OutdatedTasks DEF WriteStatus, Cells
<1>3. QED
  BY <1>1, <1>2

\* The statuses that a pass writes.
LEMMA StatusTypes ==
    ASSUME ReconcileTypeOK
    PROVE  /\ \A phase \in {"Pending", "Ready"} : StatusOf(phase) \in Statuses
           /\ pass.pc # "idle" => WithInventory(pass.seen) \in Statuses
           /\ [pass.status EXCEPT !.phase = "Closing",
                                  !.generation = pass.seen.spec.generation,
                                  !.meta = pass.seen.meta] \in Statuses
           /\ [pass.seen.status EXCEPT !.phase = "Blocked",
                                       !.revision = pass.seen.spec.revision,
                                       !.generation = pass.seen.spec.generation,
                                       !.meta = pass.seen.meta] \in Statuses
<1>1. /\ pass.seen \in Cells /\ pass.status \in Statuses
      /\ pass.seen.spec \in Specs /\ pass.seen.status \in Statuses
      /\ pass.seen.meta \in Nat
      /\ memory.inventory \in SUBSET Components
  BY DEF ReconcileTypeOK, Passes, Cells
<1>2. pass.seen.spec.generation \in 0..MaxGeneration
  BY <1>1 DEF Specs
<1>3. pass.seen.spec.revision \in Revisions \union {Absent}
  BY <1>1 DEF Specs
<1>4. Deployed(pass.seen.spec.revision) \in SUBSET Components
  BY DEF Deployed
<1>5. QED
  BY <1>1, <1>2, <1>3, <1>4 DEF StatusOf, WithInventory, Statuses

\* The part of the shapes that the controller writes.
ControllerTypeOK ==
    /\ {cell, cache} \subseteq Cells
    /\ workers \in [Workers -> Tasks]
    /\ pass \in Passes
    /\ memory \in [spec : Specs, pruned : BOOLEAN, inventory : SUBSET Components]
    /\ running \in [Components -> Rollouts \union {Absent}]
    /\ releasing \subseteq volumes /\ volumes \subseteq Components
    /\ faults \in Nat
    /\ Absent \notin {cell.spec.revision, cache.spec.revision}
    /\ pass.pc # "idle" => pass.seen.spec.revision # Absent

SameTasks ==
    \A w \in Workers : /\ workers'[w].pc = workers[w].pc
                       /\ workers'[w].revision = workers[w].revision
                       /\ workers'[w].read = workers[w].read
                       /\ workers'[w].generation = workers[w].generation
                       /\ workers'[w].deleted = workers[w].deleted
                       /\ workers'[w].fresh => workers[w].fresh /\ UNCHANGED cell

LEMMA BeginType ==
    ASSUME ReconcileTypeOK, NEW pc \in {"inventory", "report", "cleanup"}, Enter(pc),
           memory' \in {memory, NoMemory}
    PROVE  ControllerTypeOK' /\ SameTasks
<1>1. Cached \in Cells /\ Cached.spec.revision # Absent /\ Cached.status \in Statuses
  BY DEF Cached, ReconcileTypeOK, Cells
<1>2. pass' = [pc |-> pc, seen |-> Cached, status |-> Cached.status]
  BY DEF Enter
<1>3. pass' \in Passes /\ pass'.seen.spec.revision # Absent
  BY <1>1, <1>2 DEF Passes
<1>4. memory' \in [spec : Specs, pruned : BOOLEAN, inventory : SUBSET Components]
  BY Shapes DEF ReconcileTypeOK
<1>5. QED
  BY <1>3, <1>4 DEF Enter, Steady, namespaceVars, ControllerTypeOK, SameTasks,
                    ReconcileTypeOK

\* The end of a pass that leaves the namespace alone.
LEMMA EndType ==
    ASSUME ReconcileTypeOK, pass' = NoPass,
           memory' \in {memory, NoMemory}, UNCHANGED namespaceVars,
           faults' \in Nat, cell' \in Cells, cell'.spec = cell.spec,
           cache' \in {cache, cell},
           workers' \in [Workers -> Tasks]
    PROVE  ControllerTypeOK'
  BY Shapes DEF NoPass, namespaceVars, ControllerTypeOK, ReconcileTypeOK

LEMMA ControllerType ==
    ASSUME ReconcileTypeOK, ControllerStep \/ Release \/ Refuse \/ Interrupt \/ Watch
    PROVE  ControllerTypeOK' /\ SameTasks
<1>1. /\ cell \in Cells /\ workers \in [Workers -> Tasks] /\ faults \in Nat
      /\ pass \in Passes
  BY DEF ReconcileTypeOK
<1>2. CASE BeginCleanup \/ BeginObserve \/ BeginApply
  BY <1>2, BeginType DEF BeginCleanup, BeginObserve, BeginApply
<1>3. CASE PersistInventory
  <2>1. CASE ObservedSpec(pass.seen)
    <3>1. pass' = [pass EXCEPT !.pc = "write"]
      BY <1>3, <2>1 DEF PersistInventory
    <3>2. pass' \in Passes /\ pass'.seen = pass.seen
      BY <1>1, <3>1 DEF Passes
    <3>3. QED
      BY <1>3, <2>1, <3>2
         DEF PersistInventory, ControllerTypeOK, SameTasks, Steady, namespaceVars,
             ReconcileTypeOK
  <2>2. CASE ~ObservedSpec(pass.seen)
    <3>1. /\ WithInventory(pass.seen) \in Statuses
          /\ WriteStatus(pass.status, WithInventory(pass.seen))
          /\ pass' = [pass EXCEPT !.pc = "write", !.status = WithInventory(pass.seen)]
      BY <1>3, <2>2, StatusTypes DEF PersistInventory
    <3>2. pass' \in Passes /\ pass'.seen = pass.seen
      BY <1>1, <3>1 DEF Passes
    <3>3. /\ cell' \in Cells /\ cell'.spec = cell.spec
          /\ workers' \in [Workers -> Tasks]
          /\ SameTasks
      BY <1>1, <3>1, WriteStatusType DEF SameTasks
    <3>4. QED
      BY <1>3, <3>2, <3>3
         DEF PersistInventory, ControllerTypeOK, Steady, namespaceVars, ReconcileTypeOK
  <2>3. QED
    BY <2>1, <2>2
<1>4. CASE WriteComponent
  <2>1. PICK c \in Wanted :
            /\ running' = [running EXCEPT ![c] = Config[pass.seen.spec.revision][c]]
            /\ volumes' = volumes \union {c}
    BY <1>4 DEF WriteComponent
  <2>2. /\ c \in Components
        /\ pass.seen.spec.revision \in Revisions
    BY <1>4, <2>1 DEF Wanted, Deployed, WriteComponent, ReconcileTypeOK, Passes, Cells, Specs
  <2>3. running' \in [Components -> Rollouts \union {Absent}]
    BY <2>1, <2>2, ConfigAssumption DEF ReconcileTypeOK
  <2>4. QED
    BY <1>4, <2>1, <2>2, <2>3
       DEF WriteComponent, ControllerTypeOK, SameTasks, Steady, ReconcileTypeOK
<1>5. CASE Prune
  <2>1. /\ pass' = [pass EXCEPT !.pc = "report"]
        /\ \E owned \in SUBSET Components :
             /\ running' = [c \in Components |-> IF c \in owned THEN Absent ELSE running[c]]
             /\ releasing' = releasing \union {c \in owned : Doomed(c)}
             /\ memory' = [spec |-> pass.seen.spec, pruned |-> PruneComplete(owned),
                           inventory |-> InventoryAfter(owned)]
    <3>1. {c \in pass.status.inventory \ Wanted : Remains(c)} \in SUBSET Components
      BY <1>1 DEF Passes, Statuses
    <3>2. QED
      BY <1>5, <3>1 DEF Prune
  <2>2. PICK owned \in SUBSET Components :
             /\ running' = [c \in Components |-> IF c \in owned THEN Absent ELSE running[c]]
             /\ releasing' = releasing \union {c \in owned : Doomed(c)}
             /\ memory' = [spec |-> pass.seen.spec, pruned |-> PruneComplete(owned),
                           inventory |-> InventoryAfter(owned)]
    BY <2>1
  <2>3. running' \in [Components -> Rollouts \union {Absent}]
    BY <2>2 DEF ReconcileTypeOK
  <2>4. releasing' \subseteq volumes
    BY <2>2 DEF Doomed, ReconcileTypeOK
  <2>5. memory' \in [spec : Specs, pruned : BOOLEAN, inventory : SUBSET Components]
    <3>1. PruneComplete(owned) \in BOOLEAN
      BY DEF PruneComplete
    <3>2. InventoryAfter(owned) \in SUBSET Components
      BY DEF InventoryAfter, Wanted, Deployed
    <3>3. QED
      BY <1>1, <2>2, <3>1, <3>2 DEF Passes, Cells
  <2>6. pass' \in Passes /\ pass'.seen = pass.seen
    BY <1>1, <2>1 DEF Passes
  <2>7. QED
    BY <1>5, <2>3, <2>4, <2>5, <2>6
       DEF Prune, ControllerTypeOK, SameTasks, Steady, ReconcileTypeOK
<1>6. CASE Report
  <2>1. PICK phase \in {"Pending", "Ready"} : WriteStatus(pass.status, StatusOf(phase))
    BY <1>6 DEF Report
  <2>2. /\ cell' \in Cells /\ cell'.spec = cell.spec
        /\ workers' \in [Workers -> Tasks]
        /\ SameTasks
    BY <1>1, <2>1, StatusTypes, WriteStatusType DEF SameTasks
  <2>3. faults' \in Nat
    BY <1>1, <1>6 DEF Report
  <2>4. QED
    BY <1>6, <2>2, <2>3, EndType DEF Report, Steady
<1>7. CASE AnnounceCleanup
  <2>1. /\ cell' \in Cells /\ cell'.spec = cell.spec
        /\ workers' \in [Workers -> Tasks]
        /\ SameTasks
    BY <1>1, <1>7, StatusTypes, WriteStatusType DEF AnnounceCleanup, SameTasks
  <2>2. pass' \in Passes /\ pass'.seen = pass.seen
    BY <1>1, <1>7 DEF AnnounceCleanup, Passes
  <2>3. QED
    BY <1>7, <2>1, <2>2
       DEF AnnounceCleanup, ControllerTypeOK, Steady, namespaceVars, ReconcileTypeOK
<1>8. CASE Teardown
  <2>1. /\ cell' \in Cells /\ cell'.spec = cell.spec
    BY <1>1, <1>8 DEF Teardown, Cells
  <2>2. workers' \in [Workers -> Tasks] /\ SameTasks
    BY <1>1, <1>8, OutdatedTasks DEF Teardown, SameTasks
  <2>3. QED
    BY <1>8, <2>1, <2>2, Shapes
       DEF Teardown, ControllerTypeOK, Steady, NoPass, ReconcileTypeOK
<1>9. CASE PassFails
  BY <1>1, <1>9, EndType DEF PassFails, Steady, SameTasks
<1>10. CASE Release
  BY <1>10 DEF Release, ControllerTypeOK, SameTasks, Steady, ReconcileTypeOK
<1>11. CASE Refuse
  <2>1. /\ cell' \in Cells /\ cell'.spec = cell.spec
        /\ workers' \in [Workers -> Tasks]
        /\ SameTasks
    BY <1>1, <1>11, StatusTypes, WriteStatusType DEF Refuse, SameTasks
  <2>2. QED
    BY <1>1, <1>11, <2>1, EndType DEF Refuse, Steady
<1>12. CASE Interrupt
  BY <1>1, <1>12, EndType DEF Interrupt, SameTasks
<1>13. CASE Watch
  BY <1>13 DEF Watch, ControllerTypeOK, SameTasks, namespaceVars, ReconcileTypeOK
<1>14. QED
  BY <1>2, <1>3, <1>4, <1>5, <1>6, <1>7, <1>8, <1>9, <1>10, <1>11, <1>12, <1>13
     DEF ControllerStep

LEMMA TypeInvInit == ReconcileInit => TypeInv
<1> SUFFICES ASSUME ReconcileInit PROVE TypeInv
  OBVIOUS
<1>1. TypeOK /\ JournalInv
  BY JournalInit
<1>2. cell \in Cells /\ cache = cell /\ cell.spec.revision # Absent
  <2>1. cell = NewCell("none", revision) /\ revision \in Revisions /\ cache = cell
    BY DEF ReconcileInit
  <2>2. QED
    BY <2>1, Shapes, ReconcileAssumption DEF NewCell
<1>3. /\ pass \in Passes /\ pass.pc = "idle"
      /\ memory \in [spec : Specs, pruned : BOOLEAN, inventory : SUBSET Components]
      /\ workers \in [Workers -> Tasks]
      /\ \A w \in Workers : workers[w].pc = "idle"
  BY Shapes DEF ReconcileInit, NoPass, Idle
<1>4. /\ running \in [Components -> Rollouts \union {Absent}]
      /\ releasing \subseteq volumes /\ volumes \subseteq Components
      /\ faults \in Nat
  BY DEF ReconcileInit
<1>5. QED
  BY <1>1, <1>2, <1>3, <1>4 DEF TypeInv, ReconcileTypeOK, Dated

\* The steps, by who takes them.
LEMMA StepCases ==
    ASSUME [ReconcileNext]_reconcileVars
    PROVE  \/ Edit
           \/ Close
           \/ CreateCell
           \/ DeleteCell
           \/ \E w \in Workers : ClientStep(w) \/ Abandon(w)
           \/ ControllerStep \/ Release \/ Refuse \/ Interrupt \/ Watch
           \/ UNCHANGED reconcileVars
  BY DEF ReconcileNext

LEMMA TypeInvKept ==
    ASSUME TypeInv, [ReconcileNext]_reconcileVars
    PROVE  TypeInv'
<1>1. TypeOK' /\ JournalInv'
  BY JournalKept DEF TypeInv, ReconcileTypeOK
<1>2. /\ cell \in Cells /\ workers \in [Workers -> Tasks]
  BY DEF TypeInv, ReconcileTypeOK
<1>3. ASSUME UNCHANGED <<cell, workers, controllerVars, namespaceVars, faults>>
      PROVE  TypeInv'
  BY <1>1, <1>3 DEF TypeInv, ReconcileTypeOK, Dated, controllerVars, namespaceVars
<1>4. CASE Edit \/ Close \/ UNCHANGED reconcileVars
  BY <1>3, <1>4 DEF Edit, Close, reconcileVars
<1>5. CASE CreateCell \/ DeleteCell
  <2>1. /\ cell' \in Cells /\ cell'.spec = cell.spec
    <3>1. CASE CreateCell
      BY <1>2, <3>1 DEF CreateCell, Cells
    <3>2. CASE DeleteCell
      <4>1. cell' = [cell EXCEPT !.phase = "deleting", !.meta = cell.meta + 1]
        BY <3>2 DEF DeleteCell
      <4>2. cell.meta + 1 \in Nat
        BY <1>2 DEF Cells
      <4>3. QED
        BY <1>2, <4>1, <4>2 DEF Cells
    <3>3. QED
      BY <1>5, <3>1, <3>2
  <2>2. /\ workers' \in [Workers -> Tasks]
        /\ \A w \in Workers : /\ workers'[w].pc = workers[w].pc
                              /\ workers'[w].revision = workers[w].revision
                              /\ workers'[w].generation = workers[w].generation
    BY <1>2, <1>5, OutdatedTasks DEF CreateCell, DeleteCell
  <2>3. UNCHANGED <<controllerVars, namespaceVars, faults>>
    BY <1>5 DEF CreateCell, DeleteCell
  <2>4. QED
    BY <1>1, <2>1, <2>2, <2>3
       DEF TypeInv, ReconcileTypeOK, Dated, controllerVars, namespaceVars
<1>6. ASSUME NEW w \in Workers, ClientStep(w) \/ Abandon(w) PROVE TypeInv'
  <2>1. /\ cell' \in Cells /\ cell'.spec.revision # Absent
        /\ workers' \in [Workers -> Tasks]
        /\ Dated'
        /\ \A v \in Workers : workers'[v].pc \notin {"idle", "mark"}
                                => workers'[v].revision # Absent
        /\ UNCHANGED <<controllerVars, namespaceVars>>
        /\ faults' \in Nat
    BY <1>6, ClientType
  <2>2. QED
    BY <1>1, <2>1 DEF TypeInv, ReconcileTypeOK, controllerVars, namespaceVars
<1>7. CASE ControllerStep \/ Release \/ Refuse \/ Interrupt \/ Watch
  <2>1. ControllerTypeOK' /\ SameTasks
    BY <1>7, ControllerType DEF TypeInv
  <2>2. Dated' /\ \A w \in Workers : workers'[w].pc \notin {"idle", "mark"}
                                       => workers'[w].revision # Absent
    BY <2>1 DEF SameTasks, Dated, TypeInv, ReconcileTypeOK
  <2>3. QED
    BY <1>1, <2>1, <2>2 DEF TypeInv, ReconcileTypeOK, ControllerTypeOK
<1>8. QED
  BY <1>4, <1>5, <1>6, <1>7, StepCases

LEMMA TypeInvHolds == ReconcileSpec => []TypeInv
  BY TypeInvInit, TypeInvKept, PTL DEF ReconcileSpec

(* Type correctness of the journal, the tasks, the resource and the        *)
(* controller together.                                                    *)
THEOREM ReconcileTyped == ReconcileSpec => []ReconcileTypeOK
  BY TypeInvHolds, PTL DEF TypeInv

(* The composition drives the journal through the transactions of          *)
(* CellLedger alone, so what is proved of their steps holds here too.      *)
THEOREM JournalIsDriven == ReconcileSpec => [][Next]_ledgerVars
<1>1. TypeInv /\ [ReconcileNext]_reconcileVars => [Next]_ledgerVars
  BY JournalStep DEF TypeInv, ReconcileTypeOK
<1>2. QED
  BY <1>1, TypeInvHolds, PTL DEF ReconcileSpec

-----------------------------------------------------------------------------
(* The order of generations.                                               *)

\* Steps that move no generation and no task.
LEMMA OrderFrame ==
    ASSUME TypeInv, OrderInv, SameTasks,
           cell'.spec = cell.spec,
           generation' >= generation, generation' \in Nat, applied' = applied,
           \A w \in Workers : workers'[w].fresh => Open(cell)',
           Behind(cell)', Behind(cache)', Behind(pass.seen)',
           pass'.status.generation <= cell.spec.generation
    PROVE  OrderInv'
<1>1. /\ cell.spec.generation \in Nat /\ applied \in Nat /\ generation \in Nat
      /\ \A w \in Workers : workers[w].read \in Nat /\ workers[w].generation \in Nat
  BY DEF TypeInv, ReconcileTypeOK, TypeOK, Cells, Specs, Tasks
<1>2. \A w \in Workers : TaskInOrder(workers[w])'
  <2> SUFFICES ASSUME NEW w \in Workers PROVE TaskInOrder(workers[w])'
    OBVIOUS
  <2>1. TaskInOrder(workers[w])
    BY DEF OrderInv
  <2>2. QED
    BY <1>1, <2>1 DEF TaskInOrder, SameTasks
<1>3. QED
  BY <1>1, <1>2 DEF OrderInv

\* What the controller and Kubernetes do to specs and generations.
LEMMA ControllerOrder ==
    ASSUME TypeInv, OrderInv,
           ControllerStep \/ Release \/ Refuse \/ Interrupt \/ Watch
    PROVE  /\ cell'.spec = cell.spec
           /\ \A w \in Workers : workers'[w].fresh => Open(cell)'
           /\ Behind(cell)' /\ Behind(cache)' /\ Behind(pass.seen)'
           /\ pass'.status.generation <= cell.spec.generation
           /\ UNCHANGED ledgerVars
<1> DEFINE Goal == /\ cell'.spec = cell.spec
                   /\ \A w \in Workers : workers'[w].fresh => Open(cell)'
                   /\ Behind(cell)' /\ Behind(cache)' /\ Behind(pass.seen)'
                   /\ pass'.status.generation <= cell.spec.generation
                   /\ UNCHANGED ledgerVars
<1>1. /\ cell \in Cells /\ workers \in [Workers -> Tasks] /\ pass \in Passes
      /\ cell.spec.generation \in 1..MaxGeneration
      /\ \A w \in Workers : workers[w].fresh => Open(cell)
      /\ Behind(cell) /\ Behind(cache) /\ Behind(pass.seen)
      /\ pass.status.generation <= cell.spec.generation
  BY DEF TypeInv, OrderInv, ReconcileTypeOK, Cells, Specs, TaskInOrder
<1>2. /\ NoPass.status.generation <= cell.spec.generation
      /\ NoPass.seen.spec.generation <= cell.spec.generation
      /\ NoPass.seen.status.generation <= cell.spec.generation
  BY <1>1 DEF NoPass, NewCell, NoStatus
<1>3. ASSUME pass' = NoPass, UNCHANGED <<cell, ledgerVars>>, cache' \in {cache, cell},
             \A w \in Workers : workers'[w].fresh => workers[w].fresh
      PROVE  Goal
  BY <1>1, <1>2, <1>3 DEF Behind
<1>4. ASSUME NEW status \in Statuses, NEW known, WriteStatus(known, status),
             status.generation <= cell.spec.generation,
             pass' = NoPass \/ (/\ pass'.seen = pass.seen
                                /\ pass'.status \in {pass.status, status}),
             UNCHANGED <<ledgerVars, cache>>
      PROVE  Goal
  <2>1. /\ cell'.spec = cell.spec
        /\ cell'.status \in {cell.status, status}
        /\ \A w \in Workers : workers'[w].fresh => workers[w].fresh /\ UNCHANGED cell
    BY <1>1, <1>4, WriteStatusType
  <2>2. Behind(cell)' /\ Behind(cache)' /\ Behind(pass.seen)'
    BY <1>1, <1>2, <1>4, <2>1 DEF Behind
  <2>3. \A w \in Workers : workers'[w].fresh => Open(cell)'
    BY <1>1, <2>1
  <2>4. pass'.status.generation <= cell.spec.generation
    BY <1>1, <1>2, <1>4
  <2>5. QED
    BY <1>4, <2>1, <2>2, <2>3, <2>4
<1>5. ASSUME UNCHANGED <<cell, workers, ledgerVars>>,
             cache' \in {cache, cell},
             pass'.seen \in {pass.seen, cell, cache},
             pass'.status.generation <= cell.spec.generation
      PROVE  Goal
  BY <1>1, <1>5 DEF Behind
<1>6. CASE BeginCleanup \/ BeginObserve \/ BeginApply
  <2>1. PICK pc \in {"inventory", "report", "cleanup"} : Enter(pc)
    BY <1>6 DEF BeginCleanup, BeginObserve, BeginApply
  <2>2. pass' = [pc |-> pc, seen |-> Cached, status |-> Cached.status]
    BY <2>1 DEF Enter
  <2>3. pass'.seen \in {cell, cache} /\ pass'.status.generation <= cell.spec.generation
    BY <1>1, <2>2 DEF Cached, Behind
  <2>4. UNCHANGED <<cell, workers, ledgerVars, cache>>
    BY <2>1 DEF Enter, Steady
  <2>5. QED
    BY <1>5, <2>3, <2>4
<1>7. CASE PersistInventory
  <2>1. CASE ObservedSpec(pass.seen)
    <3>1. pass'.seen = pass.seen /\ pass'.status = pass.status
      BY <1>1, <1>7, <2>1 DEF PersistInventory, Passes
    <3>2. UNCHANGED <<cell, workers, ledgerVars, cache>>
      BY <1>7, <2>1 DEF PersistInventory, Steady
    <3>3. QED
      BY <1>1, <1>5, <3>1, <3>2
  <2>2. CASE ~ObservedSpec(pass.seen)
    <3>1. /\ WithInventory(pass.seen) \in Statuses
          /\ WriteStatus(pass.status, WithInventory(pass.seen))
          /\ pass' = [pass EXCEPT !.pc = "write", !.status = WithInventory(pass.seen)]
      BY <1>7, <2>2, StatusTypes DEF PersistInventory, TypeInv
    <3>2. WithInventory(pass.seen).generation = pass.seen.status.generation
      BY <1>1 DEF WithInventory, Passes, Cells, Statuses
    <3>3. pass'.seen = pass.seen /\ pass'.status = WithInventory(pass.seen)
      BY <1>1, <3>1 DEF Passes
    <3>4. UNCHANGED <<ledgerVars, cache>>
      BY <1>7 DEF PersistInventory, Steady
    <3>5. WithInventory(pass.seen).generation <= cell.spec.generation
      BY <1>1, <3>2 DEF Behind
    <3>6. QED
      BY <1>4, <3>1, <3>3, <3>4, <3>5
  <2>3. QED
    BY <2>1, <2>2
<1>8. CASE WriteComponent \/ Release
  <2>1. UNCHANGED <<cell, workers, pass, ledgerVars, cache>>
    BY <1>8 DEF WriteComponent, Release, Steady
  <2>2. QED
    BY <1>1, <1>5, <2>1
<1>9. CASE Prune
  <2>1. pass'.seen = pass.seen /\ pass'.status = pass.status
    BY <1>1, <1>9 DEF Prune, Passes
  <2>2. UNCHANGED <<cell, workers, ledgerVars, cache>>
    BY <1>9 DEF Prune, Steady
  <2>3. QED
    BY <1>1, <1>5, <2>1, <2>2
<1>10. CASE Report
  <2>1. PICK phase \in {"Pending", "Ready"} : WriteStatus(pass.status, StatusOf(phase))
    BY <1>10 DEF Report
  <2>2. StatusOf(phase) \in Statuses /\ StatusOf(phase).generation = pass.seen.spec.generation
    BY StatusTypes DEF StatusOf, TypeInv
  <2>3. StatusOf(phase).generation <= cell.spec.generation
    BY <1>1, <2>2 DEF Behind
  <2>4. pass' = NoPass /\ UNCHANGED <<ledgerVars, cache>>
    BY <1>10 DEF Report, Steady
  <2>5. QED
    BY <1>4, <2>1, <2>2, <2>3, <2>4
<1>11. CASE AnnounceCleanup
  <2> DEFINE status == [pass.status EXCEPT !.phase = "Closing",
                                           !.generation = pass.seen.spec.generation,
                                           !.meta = pass.seen.meta]
  <2>1. status \in Statuses
    BY StatusTypes DEF TypeInv
  <2>2. status.generation = pass.seen.spec.generation
    BY <1>1 DEF Passes, Statuses
  <2>3. WriteStatus(pass.status, status) /\ pass' = [pass EXCEPT !.pc = "teardown"]
        /\ UNCHANGED <<ledgerVars, cache>>
    BY <1>11 DEF AnnounceCleanup, Steady
  <2>4. pass'.seen = pass.seen /\ pass'.status = pass.status
    BY <1>1, <2>3 DEF Passes
  <2>5. status.generation <= cell.spec.generation
    BY <1>1, <2>2 DEF Behind
  <2> HIDE DEF status
  <2>6. QED
    BY <1>4, <2>1, <2>3, <2>4, <2>5
<1>12. CASE Teardown
  <2>1. /\ cell'.spec = cell.spec /\ cell'.status = cell.status
        /\ pass' = NoPass /\ UNCHANGED <<ledgerVars, cache>>
    BY <1>1, <1>12 DEF Teardown, Cells, Steady
  <2>2. \A w \in Workers : ~workers'[w].fresh
    BY <1>1, <1>12, OutdatedTasks DEF Teardown
  <2>3. QED
    BY <1>1, <1>2, <2>1, <2>2 DEF Behind
<1>13. CASE PassFails
  BY <1>3, <1>13 DEF PassFails, Steady
<1>14. CASE Refuse
  <2> DEFINE status == [pass.seen.status EXCEPT !.phase = "Blocked",
                                       !.revision = pass.seen.spec.revision,
                                       !.generation = pass.seen.spec.generation,
                                       !.meta = pass.seen.meta]
  <2>1. status \in Statuses
    BY StatusTypes DEF TypeInv
  <2>2. status.generation = pass.seen.spec.generation
    BY <1>1 DEF Passes, Cells, Statuses
  <2>3. WriteStatus(pass.seen.status, status) /\ pass' = NoPass
        /\ UNCHANGED <<ledgerVars, cache>>
    BY <1>14 DEF Refuse, Steady
  <2>4. status.generation <= cell.spec.generation
    BY <1>1, <2>2 DEF Behind
  <2> HIDE DEF status
  <2>5. QED
    BY <1>4, <2>1, <2>3, <2>4
<1>15. CASE Interrupt
  BY <1>3, <1>15 DEF Interrupt
<1>16. CASE Watch
  <2>1. UNCHANGED <<cell, workers, pass, ledgerVars>> /\ cache' = cell
    BY <1>16 DEF Watch
  <2>2. QED
    BY <1>1, <1>5, <2>1
<1>17. QED
  BY <1>6, <1>7, <1>8, <1>9, <1>10, <1>11, <1>12, <1>13, <1>14, <1>15, <1>16
     DEF ControllerStep

\* What a task's own step does.
LEMMA ClientOrder ==
    ASSUME TypeInv, OrderInv, NEW w \in Workers, ClientStep(w) \/ Abandon(w)
    PROVE  OrderInv'
<1>1. /\ cell \in Cells /\ workers \in [Workers -> Tasks] /\ workers[w] \in Tasks
      /\ cell.spec.generation \in 1..MaxGeneration
      /\ generation \in 1..MaxGeneration /\ applied \in 1..generation
      /\ \A v \in Workers : /\ workers[v].read \in Nat
                            /\ workers[v].generation \in Nat
      /\ pass \in Passes /\ cache \in Cells
      /\ generation \in 0..MaxGeneration
  BY BoundAssumption DEF TypeInv, ReconcileTypeOK, TypeOK, Cells, Specs, Tasks
<1>2. TaskInOrder(workers[w])
  BY DEF OrderInv
<1>3. TaskInOrder(Idle)
  BY <1>1 DEF TaskInOrder, Idle
<1>4. UNCHANGED controllerVars
  BY ClientType
<1>5. ASSUME NEW state \in Tasks, To(w, state), UNCHANGED <<cell, generation>>,
             applied' <= cell.spec.generation,
             TaskInOrder(state)
      PROVE  OrderInv'
  <2>1. \A v \in Workers : TaskInOrder(workers[v])'
    BY <1>1, <1>5, ToType DEF OrderInv, TaskInOrder, Open
  <2>2. Behind(cell)' /\ Behind(cache)' /\ Behind(pass.seen)'
        /\ pass'.status.generation <= cell'.spec.generation
    BY <1>4, <1>5 DEF OrderInv, Behind, controllerVars
  <2>3. QED
    BY <1>5, <2>1, <2>2 DEF OrderInv
<1>6. CASE ReadInstance(w)
  <2>1. PICK pc \in {"state", "observe"} :
            To(w, [Idle EXCEPT !.pc = pc, !.revision = revision, !.read = generation])
    BY <1>6 DEF ReadInstance
  <2> DEFINE state == [Idle EXCEPT !.pc = pc, !.revision = revision, !.read = generation]
  <2>2. state \in Tasks
    BY <1>1, Shapes DEF Tasks, TypeInv, ReconcileTypeOK, TypeOK
  <2>3. TaskInOrder(state)
    <3>1. /\ state.pc = pc /\ ~state.fresh
          /\ state.read = generation /\ state.generation = 0
      BY DEF Idle
    <3>2. QED
      BY <1>1, <2>1, <3>1 DEF TaskInOrder
  <2>4. UNCHANGED <<cell, generation, applied>>
    BY <1>6 DEF ReadInstance, ledgerVars
  <2> HIDE DEF state
  <2>5. QED
    BY <1>5, <2>1, <2>2, <2>3, <2>4 DEF state, OrderInv
<1>7. CASE ReadState(w)
  <2> DEFINE state == IF closing THEN Idle
                      ELSE [workers[w] EXCEPT !.pc = "get", !.generation = generation]
  <2>1. state \in Tasks
    BY <1>1, Shapes DEF Tasks
  <2>2. ~workers[w].fresh
    BY <1>2, <1>7 DEF ReadState, TaskInOrder
  <2>3. TaskInOrder(state)
    <3>1. CASE closing
      BY <1>3, <3>1
    <3>2. CASE ~closing
      <4>1. /\ state.pc = "get" /\ ~state.fresh
            /\ state.read = workers[w].read /\ state.generation = generation
        BY <1>1, <2>2, <3>2 DEF Tasks
      <4>2. QED
        BY <1>1, <1>2, <4>1 DEF TaskInOrder
    <3>3. QED
      BY <3>1, <3>2
  <2>4. To(w, state) /\ UNCHANGED <<cell, generation, applied>>
    BY <1>7 DEF ReadState, ledgerVars
  <2> HIDE DEF state
  <2>5. QED
    BY <1>5, <2>1, <2>3, <2>4 DEF OrderInv
<1>8. CASE GetCell(w)
  <2> DEFINE state ==
        IF ~Open(cell) \/ Superseded(w) THEN Idle
        ELSE IF InPlace(w) THEN Conclude(w, cell, workers[w].generation)
        ELSE [workers[w] EXCEPT !.pc = "deletions", !.fresh = TRUE]
  <2>1. workers[w].generation \in 0..MaxGeneration
    BY <1>1 DEF Tasks
  <2>2. state \in Tasks
    <3>1. Conclude(w, cell, workers[w].generation) \in Tasks
      BY <2>1, ConcludeType
    <3>2. [workers[w] EXCEPT !.pc = "deletions", !.fresh = TRUE] \in Tasks
      BY <1>1 DEF Tasks
    <3>3. QED
      BY <3>1, <3>2, Shapes
  <2>3. ASSUME ~Open(cell) \/ Superseded(w)
        PROVE  TaskInOrder(state)
    <3>1. state = Idle
      BY <2>3
    <3> HIDE DEF state
    <3>2. QED
      BY <1>3, <3>1
  <2>4. ASSUME Open(cell) /\ ~Superseded(w) /\ InPlace(w)
        PROVE  TaskInOrder(state)
    <3>1. state = Conclude(w, cell, workers[w].generation)
      BY <2>4
    <3> HIDE DEF state
    <3>2. /\ ~state.fresh /\ state.read = 0
          /\ state.generation \in {0, workers[w].generation}
      BY <2>1, <3>1, ConcludeType
    <3>3. /\ state.generation <= cell.spec.generation
          /\ state.generation <= generation
      BY <1>1, <1>2, <2>4, <3>2 DEF TaskInOrder, InPlace
    <3>4. QED
      BY <1>1, <3>2, <3>3 DEF TaskInOrder
  <2>5. ASSUME Open(cell) /\ ~Superseded(w) /\ ~InPlace(w)
        PROVE  TaskInOrder(state)
    <3>1. state = [workers[w] EXCEPT !.pc = "deletions", !.fresh = TRUE]
      BY <2>5
    <3>2. /\ state.pc = "deletions" /\ state.fresh
          /\ state.read = workers[w].read
          /\ state.generation = workers[w].generation
          /\ state.revision = workers[w].revision
      BY <1>1, <3>1 DEF Tasks
    <3> HIDE DEF state
    <3>3. /\ state.read <= generation /\ state.generation <= generation
      BY <1>2, <3>2 DEF TaskInOrder
    <3>4. cell.spec.generation <= state.generation
      BY <1>1, <2>5, <3>2 DEF Superseded
    <3>5. ~(/\ cell.spec.revision = state.revision
            /\ cell.spec.generation = state.generation)
      BY <2>5, <3>2 DEF InPlace
    <3>6. QED
      BY <2>5, <3>2, <3>3, <3>4, <3>5 DEF TaskInOrder
  <2>6. TaskInOrder(state)
    BY <2>3, <2>4, <2>5
  <2>7. To(w, state) /\ UNCHANGED <<cell, generation, applied>>
    BY <1>8 DEF GetCell, ledgerVars
  <2> HIDE DEF state
  <2>8. QED
    BY <1>5, <2>2, <2>6, <2>7 DEF OrderInv
<1>9. CASE ReadDeletions(w)
  <2> DEFINE state == [workers[w] EXCEPT !.pc = "replace",
                                         !.deleted = PendingDeletedData(applied)]
  <2>1. PendingDeletedData(applied) \subseteq Components
    BY DEF TypeInv, JournalInv, RetentionInv, DeletionsRetained, ReconcileTypeOK, TypeOK
  <2>2. state \in Tasks
    BY <1>1, <2>1 DEF Tasks
  <2>3. TaskInOrder(state)
    <3>1. /\ state.pc = "replace" /\ state.fresh = workers[w].fresh
          /\ state.read = workers[w].read
          /\ state.generation = workers[w].generation
          /\ state.revision = workers[w].revision
      BY <1>1 DEF Tasks
    <3> HIDE DEF state
    <3>2. QED
      BY <1>1, <1>2, <3>1 DEF TaskInOrder
  <2>4. To(w, state) /\ UNCHANGED <<cell, generation, applied>>
    BY <1>9 DEF ReadDeletions, ledgerVars
  <2> HIDE DEF state
  <2>5. QED
    BY <1>5, <2>2, <2>3, <2>4 DEF OrderInv
<1>10. CASE Replace(w)
  <2>1. CASE Wins(w)
    <3> DEFINE mine == Conclude(w, Replacement(w), workers[w].generation)
    <3>1. /\ cell' = Replacement(w)
          /\ workers' = [Outdated(workers) EXCEPT ![w] = mine]
          /\ workers[w].fresh
          /\ UNCHANGED <<generation, applied>>
      BY <1>10, <2>1 DEF Replace, Wins, ledgerVars
    <3>2. workers[w].generation \in 0..MaxGeneration
      BY <1>1 DEF Tasks
    <3>3. cell'.spec.generation = workers[w].generation
          /\ cell'.status = cell.status
      BY <1>1, <3>1 DEF Replacement, Cells
    <3>4. cell.spec.generation <= cell'.spec.generation
          /\ cell'.spec.generation <= generation
      BY <1>2, <3>1, <3>3 DEF TaskInOrder
    <3>5. cell'.spec.generation \in Nat
      BY <1>1, <3>3
    <3>6. /\ mine \in Tasks /\ ~mine.fresh /\ mine.read = 0
          /\ mine.generation \in {0, workers[w].generation}
      BY <3>2, ConcludeType
    <3> HIDE DEF mine
    <3>7. workers'[w] = mine
      BY <1>1, <3>1, OutdatedTasks
    <3>8. TaskInOrder(workers[w])'
      BY <1>1, <1>2, <3>1, <3>3, <3>6, <3>7 DEF TaskInOrder
    <3>9. ASSUME NEW v \in Workers, v # w PROVE TaskInOrder(workers[v])'
      <4>1. /\ workers'[v].pc = workers[v].pc
            /\ workers'[v].read = workers[v].read
            /\ workers'[v].generation = workers[v].generation
            /\ ~workers'[v].fresh
        BY <1>1, <3>1, <3>9, OutdatedTasks
      <4>2. TaskInOrder(workers[v])
        BY DEF OrderInv
      <4>3. QED
        BY <1>1, <3>1, <3>4, <3>5, <4>1, <4>2 DEF TaskInOrder
    <3>10. Behind(cell)' /\ Behind(cache)' /\ Behind(pass.seen)'
           /\ pass'.status.generation <= cell'.spec.generation
      <4>1. /\ cell.status.generation \in Nat
            /\ cache.status.generation \in Nat /\ cache.spec.generation \in Nat
            /\ pass.seen.status.generation \in Nat /\ pass.seen.spec.generation \in Nat
            /\ pass.status.generation \in Nat
        BY <1>1 DEF Cells, Passes, Statuses, Specs
      <4>2. QED
        BY <1>1, <1>4, <3>3, <3>4, <3>5, <4>1 DEF OrderInv, Behind, controllerVars
    <3>11. applied' <= cell'.spec.generation
      BY <1>1, <3>1, <3>4, <3>5 DEF OrderInv
    <3>12. QED
      BY <3>1, <3>4, <3>8, <3>9, <3>10, <3>11 DEF OrderInv
  <2>2. CASE ~Wins(w)
    BY <1>3, <1>5, <1>10, <2>2, Shapes DEF Replace, ledgerVars, OrderInv
  <2>3. QED
    BY <2>1, <2>2
<1>11. CASE Observe(w)
  <2> DEFINE state == IF Exists THEN Conclude(w, cell, workers[w].read) ELSE Idle
  <2>1. workers[w].read \in 0..MaxGeneration
    BY <1>1 DEF Tasks
  <2>2. state \in Tasks
    BY <2>1, Shapes, ConcludeType
  <2>3. TaskInOrder(Conclude(w, cell, workers[w].read))
    <3> DEFINE mine == Conclude(w, cell, workers[w].read)
    <3>1. /\ ~mine.fresh /\ mine.read = 0
          /\ mine.generation \in {0, workers[w].read}
          /\ mine.pc = "mark" => /\ ShowsReady(cell, workers[w].revision, workers[w].read)
                                 /\ mine.generation = workers[w].read
      BY <2>1, ConcludeType
    <3> HIDE DEF mine
    <3>2. mine.pc = "mark" => mine.generation <= cell.spec.generation
      BY <3>1 DEF ShowsReady, OrderInv, Behind
    <3>3. TaskInOrder(mine)
      BY <1>1, <1>2, <3>1, <3>2 DEF TaskInOrder
    <3>4. QED
      BY <3>3 DEF mine
  <2>4. TaskInOrder(state)
    BY <1>3, <2>3
  <2>5. To(w, state) /\ UNCHANGED <<cell, generation, applied>>
    BY <1>11 DEF Observe, ledgerVars
  <2> HIDE DEF state
  <2>6. QED
    BY <1>5, <2>2, <2>4, <2>5 DEF OrderInv
<1>12. CASE Mark(w)
  <2>1. /\ generation' = generation
        /\ applied' = applied \/ applied' = workers[w].generation
    BY <1>12 DEF Mark, MarkUpdateApplied, ledgerVars
  <2>2. workers[w].generation <= cell.spec.generation
    BY <1>2, <1>12 DEF Mark, TaskInOrder
  <2>3. applied' <= cell.spec.generation
    BY <2>1, <2>2 DEF OrderInv
  <2>4. To(w, Idle) /\ UNCHANGED cell
    BY <1>12 DEF Mark
  <2>5. QED
    BY <1>3, <1>5, <2>1, <2>3, <2>4, Shapes
<1>13. CASE Abandon(w)
  BY <1>3, <1>5, <1>13, Shapes DEF Abandon, ledgerVars, OrderInv
<1>14. QED
  BY <1>6, <1>7, <1>8, <1>9, <1>10, <1>11, <1>12, <1>13 DEF ClientStep

LEMMA OrderInvInit == ReconcileInit => OrderInv
<1> SUFFICES ASSUME ReconcileInit PROVE OrderInv
  OBVIOUS
<1>1. /\ cell.spec.generation = 1 /\ cell.status.generation = 0 /\ cache = cell
      /\ pass.seen.spec.generation = 1 /\ pass.seen.status.generation = 0
      /\ pass.status.generation = 0
      /\ generation = 1 /\ applied = 1
  BY DEF ReconcileInit, NewCell, NoStatus, NoPass
<1>2. \A w \in Workers : TaskInOrder(workers[w])
  BY <1>1 DEF ReconcileInit, Idle, TaskInOrder
<1>3. QED
  BY <1>1, <1>2 DEF OrderInv, Behind

LEMMA OrderInvKept ==
    ASSUME TypeInv, OrderInv, [ReconcileNext]_reconcileVars
    PROVE  OrderInv'
<1>1. generation' >= generation /\ generation' \in Nat /\ generation \in Nat
  <2>1. TypeOK' /\ TypeOK
    BY TypeInvKept DEF TypeInv, ReconcileTypeOK
  <2>2. QED
    BY <2>1, StaysLive DEF TypeInv, TypeOK
<1>2. /\ cell \in Cells /\ workers \in [Workers -> Tasks]
      /\ \A w \in Workers : workers[w].fresh => Open(cell)
  BY DEF TypeInv, ReconcileTypeOK, OrderInv, TaskInOrder
<1>3. ASSUME UNCHANGED <<cell, workers, controllerVars, applied>>
      PROVE  OrderInv'
  BY <1>1, <1>2, <1>3, OrderFrame DEF SameTasks, OrderInv, Behind, controllerVars
<1>4. CASE Edit \/ Close \/ UNCHANGED reconcileVars
  <2>1. applied' = applied
    BY <1>4 DEF Edit, AcceptChange, Close, BeginInstanceClose, reconcileVars, ledgerVars
  <2>2. QED
    BY <1>3, <1>4, <2>1 DEF Edit, Close, reconcileVars
<1>5. CASE CreateCell \/ DeleteCell
  <2>1. /\ cell'.spec = cell.spec /\ cell'.status = cell.status
        /\ UNCHANGED <<ledgerVars, controllerVars>>
    BY <1>2, <1>5 DEF CreateCell, DeleteCell, Cells
  <2>2. SameTasks /\ \A w \in Workers : ~workers'[w].fresh
    <3>1. CASE CreateCell
      BY <1>2, <3>1 DEF CreateCell, SameTasks, Open
    <3>2. CASE DeleteCell
      BY <1>2, <3>2, OutdatedTasks DEF DeleteCell, SameTasks
    <3>3. QED
      BY <1>5, <3>1, <3>2
  <2>3. /\ Behind(cell)' /\ Behind(cache)' /\ Behind(pass.seen)'
        /\ pass'.status.generation <= cell.spec.generation
    BY <2>1 DEF OrderInv, Behind, controllerVars
  <2>4. QED
    BY <1>1, <2>1, <2>2, <2>3, OrderFrame DEF ledgerVars
<1>6. ASSUME NEW w \in Workers, ClientStep(w) \/ Abandon(w) PROVE OrderInv'
  BY <1>6, ClientOrder
<1>7. CASE ControllerStep \/ Release \/ Refuse \/ Interrupt \/ Watch
  <2>1. SameTasks
    BY <1>7, ControllerType DEF TypeInv
  <2>2. /\ cell'.spec = cell.spec
        /\ \A w \in Workers : workers'[w].fresh => Open(cell)'
        /\ Behind(cell)' /\ Behind(cache)' /\ Behind(pass.seen)'
        /\ pass'.status.generation <= cell.spec.generation
        /\ UNCHANGED ledgerVars
    BY <1>7, ControllerOrder
  <2>3. QED
    BY <1>1, <2>1, <2>2, OrderFrame DEF ledgerVars
<1>8. QED
  BY <1>4, <1>5, <1>6, <1>7, StepCases

LEMMA OrderInvHolds == ReconcileSpec => []OrderInv
  BY TypeInvHolds, OrderInvInit, OrderInvKept, PTL DEF ReconcileSpec

(* A generation is marked applied only after it was annotated on the       *)
(* resource, and the resource never runs ahead of the journal.             *)
THEOREM AppliedIsDelivered == ReconcileSpec => []AppliedWasDelivered
<1>1. OrderInv => AppliedWasDelivered
  BY DEF OrderInv, AppliedWasDelivered
<1>2. QED
  BY <1>1, OrderInvHolds, PTL

\* The spec changes only when a task wins its replacement.
LEMMA SpecChanges ==
    ASSUME TypeInv, OrderInv, [ReconcileNext]_reconcileVars
    PROVE  \/ cell'.spec = cell.spec
           \/ \E w \in Workers :
                /\ Replace(w) /\ Wins(w)
                /\ cell' = Replacement(w)
                /\ workers[w].fresh
<1>1. cell \in Cells
  BY DEF TypeInv, ReconcileTypeOK
<1>2. CASE CreateCell \/ DeleteCell
  BY <1>1, <1>2 DEF CreateCell, DeleteCell, Cells
<1>3. CASE Edit \/ Close \/ UNCHANGED reconcileVars
  BY <1>3 DEF Edit, Close, reconcileVars
<1>4. CASE ControllerStep \/ Release \/ Refuse \/ Interrupt \/ Watch
  BY <1>4, ControllerOrder
<1>5. ASSUME NEW w \in Workers, ClientStep(w) \/ Abandon(w)
      PROVE  \/ cell'.spec = cell.spec
             \/ /\ Replace(w) /\ Wins(w)
                /\ cell' = Replacement(w)
                /\ workers[w].fresh
  <2>1. CASE Replace(w)
    BY <2>1 DEF Replace, Wins
  <2>2. CASE ~Replace(w)
    BY <1>5, <2>2 DEF ClientStep, ReadInstance, ReadState, GetCell, ReadDeletions,
                      Observe, Mark, Abandon
  <2>3. QED
    BY <2>1, <2>2
<1>6. QED
  BY <1>2, <1>3, <1>4, <1>5, StepCases

(* No replacement, however late, takes the resource back to an older       *)
(* generation or touches one that is being deleted.                        *)
THEOREM DeliveryIsMonotone == ReconcileSpec => DeliveryNeverRegresses
<1>1. ASSUME TypeInv, OrderInv, [ReconcileNext]_reconcileVars
      PROVE  /\ cell'.spec.generation >= cell.spec.generation
             /\ ~Open(cell) => cell'.spec = cell.spec
  <2>1. cell.spec.generation \in Nat
    BY <1>1 DEF TypeInv, ReconcileTypeOK, Cells, Specs
  <2>2. CASE cell'.spec = cell.spec
    BY <2>1, <2>2
  <2>3. ASSUME NEW w \in Workers, cell' = Replacement(w), workers[w].fresh
        PROVE  /\ cell'.spec.generation >= cell.spec.generation
               /\ Open(cell)
    <3>1. cell'.spec.generation = workers[w].generation
      BY <1>1, <2>3 DEF Replacement, TypeInv, ReconcileTypeOK, Cells
    <3>2. workers[w].generation \in Nat
      BY <1>1 DEF Tasks, TypeInv, ReconcileTypeOK
    <3>3. Open(cell) /\ cell.spec.generation <= workers[w].generation
      BY <1>1, <2>3 DEF OrderInv, TaskInOrder
    <3>4. QED
      BY <2>1, <3>1, <3>2, <3>3
  <2>4. QED
    BY <1>1, <2>2, <2>3, SpecChanges
<1>2. TypeInv /\ OrderInv /\ [ReconcileNext]_reconcileVars
        => [/\ cell'.spec.generation >= cell.spec.generation
            /\ ~Open(cell) => cell'.spec = cell.spec]_reconcileVars
  BY <1>1
<1>3. QED
  BY <1>2, TypeInvHolds, OrderInvHolds, PTL DEF ReconcileSpec, DeliveryNeverRegresses

-----------------------------------------------------------------------------
(* Deletions of data.                                                      *)
LEMMA DeletionsGrow ==
    ASSUME updates \subseteq updates'
    PROVE  PendingDeletedData(1) \subseteq PendingDeletedData(1)'
  BY DEF PendingDeletedData, PendingPlans

LEMMA PendingIsAsked ==
    ASSUME TypeOK
    PROVE  PendingDeletedData(applied) \subseteq PendingDeletedData(1)
<1>1. applied >= 1 /\ applied \in Nat
  BY DEF TypeOK
<1>2. \A u \in updates : u.generation \in Nat
  BY DEF TypeOK, Updates
<1>3. PendingPlans(applied) \subseteq PendingPlans(1)
  BY <1>1, <1>2 DEF PendingPlans
<1>4. QED
  BY <1>3 DEF PendingDeletedData

\* Where the controller takes specs, deletions and departures from.
LEMMA ControllerMoves ==
    ASSUME TypeInv, ControllerStep \/ Release \/ Refuse \/ Interrupt \/ Watch
    PROVE  /\ cache' \in {cache, cell}
           /\ pass'.seen \in {pass.seen, cell, cache, NoPass.seen}
           /\ releasing' \subseteq releasing \union pass.seen.spec.deleted
           /\ Leaving => Leaving'
           /\ pass'.pc \in {"cleanup", "teardown"}
                => \/ pass.pc \in {"cleanup", "teardown"}
                   \/ Cached.phase = "deleting"
<1>1. /\ cell \in Cells /\ workers \in [Workers -> Tasks] /\ pass \in Passes
  BY DEF TypeInv, ReconcileTypeOK
<1>2. NoPass.pc = "idle"
  BY DEF NoPass
<1>3. ASSUME NEW known, NEW status \in Statuses, WriteStatus(known, status)
      PROVE  Leaving => Leaving'
  BY <1>1, <1>3, WriteStatusType DEF Leaving
<1>4. CASE BeginCleanup
  BY <1>4 DEF BeginCleanup, Enter, Cached, Steady, namespaceVars, Leaving
<1>5. CASE BeginObserve \/ BeginApply
  BY <1>5 DEF BeginObserve, BeginApply, Enter, Cached, Steady, namespaceVars, Leaving
<1>6. CASE PersistInventory
  <2>1. pass'.seen = pass.seen /\ pass'.pc = "write"
    BY <1>1, <1>6 DEF PersistInventory, Passes
  <2>2. Leaving => Leaving'
    BY <1>3, <1>6, StatusTypes DEF PersistInventory, Leaving, TypeInv
  <2>3. QED
    BY <1>6, <2>1, <2>2 DEF PersistInventory, Steady, namespaceVars
<1>7. CASE WriteComponent \/ Release
  BY <1>7 DEF WriteComponent, Release, Steady, Leaving
<1>8. CASE Prune
  <2>1. pass'.seen = pass.seen /\ pass'.pc = "report"
    BY <1>1, <1>8 DEF Prune, Passes
  <2>2. releasing' \subseteq releasing \union pass.seen.spec.deleted
    BY <1>8 DEF Prune, Doomed
  <2>3. QED
    BY <1>8, <2>1, <2>2 DEF Prune, Steady, Leaving
<1>9. CASE Report
  <2>1. Leaving => Leaving'
    BY <1>3, <1>9, StatusTypes DEF Report, TypeInv
  <2>2. QED
    BY <1>2, <1>9, <2>1 DEF Report, Steady, namespaceVars
<1>10. CASE AnnounceCleanup
  <2>1. pass'.seen = pass.seen
    BY <1>1, <1>10 DEF AnnounceCleanup, Passes
  <2>2. Leaving => Leaving'
    BY <1>3, <1>10, StatusTypes DEF AnnounceCleanup, TypeInv
  <2>3. QED
    BY <1>10, <2>1, <2>2 DEF AnnounceCleanup, Steady, namespaceVars
<1>11. CASE Teardown
  <2>1. Leaving'
    BY <1>1, <1>11 DEF Teardown, Leaving, Cells
  <2>2. QED
    BY <1>2, <1>11, <2>1 DEF Teardown, Steady
<1>12. CASE PassFails
  BY <1>2, <1>12 DEF PassFails, Steady, namespaceVars, Leaving
<1>13. CASE Refuse
  <2>1. Leaving => Leaving'
    BY <1>3, <1>13, StatusTypes DEF Refuse, TypeInv
  <2>2. QED
    BY <1>2, <1>13, <2>1 DEF Refuse, Steady, namespaceVars
<1>14. CASE Interrupt
  BY <1>2, <1>14 DEF Interrupt, namespaceVars, Leaving
<1>15. CASE Watch
  BY <1>15 DEF Watch, namespaceVars, Leaving
<1>16. QED
  BY <1>4, <1>5, <1>6, <1>7, <1>8, <1>9, <1>10, <1>11, <1>12, <1>13, <1>14, <1>15
     DEF ControllerStep

\* What a task's step does to the lists of deletions: they come from the
\* journal.
LEMMA ClientDeletions ==
    ASSUME TypeInv, NEW w \in Workers, ClientStep(w) \/ Abandon(w)
    PROVE  /\ \A v \in Workers : workers'[v].deleted
                \in {{}, workers[v].deleted, PendingDeletedData(applied)}
           /\ cell'.spec.deleted \in {cell.spec.deleted, workers[w].deleted}
           /\ cell'.phase = cell.phase
           /\ \A v \in Workers : workers'[v].pc = "replace" =>
                \/ workers[v].pc = "replace" /\ UNCHANGED cell /\ workers'[v] = workers[v]
                \/ /\ workers[v].pc = "replace"
                   /\ workers'[v].generation = workers[v].generation
                   /\ workers'[v].deleted = workers[v].deleted
                \/ workers'[v].deleted = PendingDeletedData(applied)
<1>1. /\ cell \in Cells /\ workers \in [Workers -> Tasks] /\ workers[w] \in Tasks
  BY DEF TypeInv, ReconcileTypeOK
<1>2. /\ Idle \in Tasks /\ Idle.deleted = {} /\ Idle.pc = "idle"
  BY Shapes DEF Idle
<1> DEFINE Goal == /\ \A v \in Workers : workers'[v].deleted
                        \in {{}, workers[v].deleted, PendingDeletedData(applied)}
                   /\ cell'.spec.deleted \in {cell.spec.deleted, workers[w].deleted}
                   /\ cell'.phase = cell.phase
                   /\ \A v \in Workers : workers'[v].pc = "replace" =>
                        \/ workers[v].pc = "replace" /\ UNCHANGED cell /\ workers'[v] = workers[v]
                        \/ /\ workers[v].pc = "replace"
                           /\ workers'[v].generation = workers[v].generation
                           /\ workers'[v].deleted = workers[v].deleted
                        \/ workers'[v].deleted = PendingDeletedData(applied)
<1>3. ASSUME NEW state, To(w, state), UNCHANGED cell,
             state.deleted \in {{}, workers[w].deleted, PendingDeletedData(applied)},
             state.pc = "replace" => state.deleted = PendingDeletedData(applied)
      PROVE  Goal
  <2>1. /\ workers'[w] = state
        /\ \A v \in Workers \ {w} : workers'[v] = workers[v]
    BY <1>1, <1>3 DEF To
  <2>2. QED
    BY <1>3, <2>1
<1>4. CASE ReadInstance(w)
  <2>1. PICK pc \in {"state", "observe"} :
            To(w, [Idle EXCEPT !.pc = pc, !.revision = revision, !.read = generation])
    BY <1>4 DEF ReadInstance
  <2> DEFINE state == [Idle EXCEPT !.pc = pc, !.revision = revision, !.read = generation]
  <2>2. state.deleted = {} /\ state.pc = pc
    BY DEF Idle
  <2>3. UNCHANGED cell
    BY <1>4 DEF ReadInstance
  <2> HIDE DEF state
  <2>4. QED
    BY <1>3, <2>1, <2>2, <2>3 DEF state
<1>5. CASE ReadState(w)
  <2> DEFINE state == IF closing THEN Idle
                      ELSE [workers[w] EXCEPT !.pc = "get", !.generation = generation]
  <2>1. state.deleted \in {{}, workers[w].deleted} /\ state.pc # "replace"
    BY <1>1, <1>2 DEF Tasks
  <2>2. To(w, state) /\ UNCHANGED cell
    BY <1>5 DEF ReadState
  <2> HIDE DEF state
  <2>3. QED
    BY <1>3, <2>1, <2>2
<1>6. CASE GetCell(w)
  <2> DEFINE state ==
        IF ~Open(cell) \/ Superseded(w) THEN Idle
        ELSE IF InPlace(w) THEN Conclude(w, cell, workers[w].generation)
        ELSE [workers[w] EXCEPT !.pc = "deletions", !.fresh = TRUE]
  <2>1. workers[w].generation \in 0..MaxGeneration
    BY <1>1 DEF Tasks
  <2>2. state.deleted \in {{}, workers[w].deleted} /\ state.pc # "replace"
    <3>1. /\ Conclude(w, cell, workers[w].generation).deleted = {}
          /\ Conclude(w, cell, workers[w].generation).pc # "replace"
      BY <2>1, ConcludeType
    <3>2. /\ [workers[w] EXCEPT !.pc = "deletions", !.fresh = TRUE].deleted = workers[w].deleted
          /\ [workers[w] EXCEPT !.pc = "deletions", !.fresh = TRUE].pc = "deletions"
      BY <1>1 DEF Tasks
    <3>3. QED
      BY <1>2, <3>1, <3>2
  <2>3. To(w, state) /\ UNCHANGED cell
    BY <1>6 DEF GetCell
  <2> HIDE DEF state
  <2>4. QED
    BY <1>3, <2>2, <2>3
<1>7. CASE ReadDeletions(w)
  <2> DEFINE state == [workers[w] EXCEPT !.pc = "replace",
                                         !.deleted = PendingDeletedData(applied)]
  <2>1. state.deleted = PendingDeletedData(applied)
    BY <1>1 DEF Tasks
  <2>2. To(w, state) /\ UNCHANGED cell
    BY <1>7 DEF ReadDeletions
  <2> HIDE DEF state
  <2>3. QED
    BY <1>3, <2>1, <2>2
<1>8. CASE Replace(w)
  <2>1. CASE Wins(w)
    <3> DEFINE mine == Conclude(w, Replacement(w), workers[w].generation)
    <3>1. /\ cell' = Replacement(w)
          /\ workers' = [Outdated(workers) EXCEPT ![w] = mine]
      BY <1>8, <2>1 DEF Replace
    <3>2. workers[w].generation \in 0..MaxGeneration
      BY <1>1 DEF Tasks
    <3>3. mine.deleted = {} /\ mine.pc # "replace"
      BY <3>2, ConcludeType
    <3> HIDE DEF mine
    <3>4. /\ workers'[w] = mine
          /\ \A v \in Workers \ {w} :
               /\ workers'[v].pc = workers[v].pc
               /\ workers'[v].generation = workers[v].generation
               /\ workers'[v].deleted = workers[v].deleted
      BY <1>1, <3>1, OutdatedTasks
    <3>5. /\ cell'.spec.deleted = workers[w].deleted
          /\ cell'.phase = cell.phase
      BY <1>1, <3>1 DEF Replacement, Cells
    <3>6. QED
      BY <3>3, <3>4, <3>5
  <2>2. CASE ~Wins(w)
    BY <1>2, <1>3, <1>8, <2>2 DEF Replace
  <2>3. QED
    BY <2>1, <2>2
<1>9. CASE Observe(w)
  <2> DEFINE state == IF Exists THEN Conclude(w, cell, workers[w].read) ELSE Idle
  <2>1. workers[w].read \in 0..MaxGeneration
    BY <1>1 DEF Tasks
  <2>2. state.deleted = {} /\ state.pc # "replace"
    BY <1>2, <2>1, ConcludeType
  <2>3. To(w, state) /\ UNCHANGED cell
    BY <1>9 DEF Observe
  <2> HIDE DEF state
  <2>4. QED
    BY <1>3, <2>2, <2>3
<1>10. CASE Mark(w) \/ Abandon(w)
  BY <1>2, <1>3, <1>10 DEF Mark, Abandon
<1>11. QED
  BY <1>4, <1>5, <1>6, <1>7, <1>8, <1>9, <1>10 DEF ClientStep

LEMMA DeletionInvInit == ReconcileInit => DeletionInv
  BY DEF ReconcileInit, DeletionInv, NewCell, NoPass, Idle

LEMMA DeletionInvKept ==
    ASSUME TypeInv, OrderInv, DeletionInv, [ReconcileNext]_reconcileVars
    PROVE  DeletionInv'
<1>1. PendingDeletedData(1) \subseteq PendingDeletedData(1)'
  BY StaysLive, DeletionsGrow DEF TypeInv, ReconcileTypeOK
<1>2. PendingDeletedData(applied) \subseteq PendingDeletedData(1)
  BY PendingIsAsked DEF TypeInv, ReconcileTypeOK
<1>3. /\ cell \in Cells /\ workers \in [Workers -> Tasks]
  BY DEF TypeInv, ReconcileTypeOK
<1>4. ASSUME cell'.spec.deleted = cell.spec.deleted,
             cache' = cache, pass' = pass, releasing' = releasing,
             Leaving => Leaving',
             \A w \in Workers : workers'[w].deleted = workers[w].deleted
      PROVE  DeletionInv'
  BY <1>1, <1>4 DEF DeletionInv
<1>5. CASE Edit \/ Close \/ UNCHANGED reconcileVars
  BY <1>4, <1>5 DEF Edit, Close, reconcileVars, controllerVars, namespaceVars, Leaving
<1>6. CASE CreateCell
  BY <1>3, <1>4, <1>6 DEF CreateCell, Cells, controllerVars, namespaceVars, Leaving
<1>7. CASE DeleteCell
  BY <1>3, <1>4, <1>7, OutdatedTasks
     DEF DeleteCell, Cells, controllerVars, namespaceVars, Leaving
<1>8. ASSUME NEW w \in Workers, ClientStep(w) \/ Abandon(w) PROVE DeletionInv'
  <2>1. UNCHANGED <<controllerVars, namespaceVars>>
    BY <1>8, ClientType
  <2>2. /\ \A v \in Workers : workers'[v].deleted \subseteq PendingDeletedData(1)
        /\ cell'.spec.deleted \subseteq PendingDeletedData(1)
        /\ Leaving => Leaving'
    BY <1>2, <1>8, ClientDeletions DEF DeletionInv, Leaving
  <2>3. QED
    BY <1>1, <2>1, <2>2 DEF DeletionInv, controllerVars, namespaceVars
<1>9. CASE ControllerStep \/ Release \/ Refuse \/ Interrupt \/ Watch
  <2>1. SameTasks
    BY <1>9, ControllerType DEF TypeInv
  <2>2. cell'.spec = cell.spec
    BY <1>9, ControllerOrder
  <2>3. /\ cache' \in {cache, cell}
        /\ pass'.seen \in {pass.seen, cell, cache, NoPass.seen}
        /\ releasing' \subseteq releasing \union pass.seen.spec.deleted
        /\ Leaving => Leaving'
        /\ pass'.pc \in {"cleanup", "teardown"}
             => pass.pc \in {"cleanup", "teardown"} \/ Cached.phase = "deleting"
    BY <1>9, ControllerMoves
  <2>4. NoPass.seen.spec.deleted = {}
    BY DEF NoPass, NewCell
  <2>5. \A S \in {cell.spec.deleted, cache.spec.deleted, pass.seen.spec.deleted,
                  releasing}' : S \subseteq PendingDeletedData(1)'
    <3>1. /\ cell.spec.deleted \subseteq PendingDeletedData(1)'
          /\ cache.spec.deleted \subseteq PendingDeletedData(1)'
          /\ pass.seen.spec.deleted \subseteq PendingDeletedData(1)'
          /\ releasing \subseteq PendingDeletedData(1)'
      BY <1>1 DEF DeletionInv
    <3>2. /\ cache'.spec.deleted \subseteq PendingDeletedData(1)'
          /\ pass'.seen.spec.deleted \subseteq PendingDeletedData(1)'
          /\ releasing' \subseteq PendingDeletedData(1)'
      BY <2>3, <2>4, <3>1
    <3>3. QED
      BY <2>2, <3>1, <3>2
  <2>6. \A w \in Workers : workers'[w].deleted \subseteq PendingDeletedData(1)'
    BY <1>1, <2>1 DEF SameTasks, DeletionInv
  <2>7. cache'.phase = "deleting" => Leaving'
    BY <2>3 DEF DeletionInv, Leaving
  <2>8. Cached.phase = "deleting" => Leaving
    BY DEF Cached, DeletionInv, Leaving
  <2>9. pass'.pc \in {"cleanup", "teardown"} => Leaving'
    BY <2>3, <2>8 DEF DeletionInv
  <2>10. QED
    BY <2>5, <2>6, <2>7, <2>9 DEF DeletionInv
<1>10. QED
  BY <1>5, <1>6, <1>7, <1>8, <1>9, StepCases

LEMMA DeletionInvHolds == ReconcileSpec => []DeletionInv
  BY TypeInvHolds, OrderInvHolds, DeletionInvInit, DeletionInvKept, PTL
     DEF ReconcileSpec

(* A claim disappears only with the cell, or because an accepted edit asked*)
(* for the deletion of that component's data.                              *)
THEOREM DataIsDeletedOnRequest == ReconcileSpec => DataGoesOnRequest
<1>1. ASSUME TypeInv, DeletionInv, [ReconcileNext]_reconcileVars,
             NEW c \in volumes \ volumes'
      PROVE  cell.phase = "deleting" \/ c \in PendingDeletedData(1)
  <2>1. CASE Release
    BY <1>1, <2>1 DEF Release, DeletionInv
  <2>2. CASE Teardown
    BY <1>1, <2>2 DEF Teardown, DeletionInv, Leaving, Exists
  <2>3. ASSUME NEW w \in Workers, ClientStep(w) \/ Abandon(w)
        PROVE  volumes' = volumes
    BY <1>1, <2>3, ClientType DEF namespaceVars
  <2>4. CASE \/ Edit \/ Close \/ CreateCell \/ DeleteCell
             \/ Refuse \/ Interrupt \/ Watch \/ UNCHANGED reconcileVars
             \/ BeginCleanup \/ BeginObserve \/ BeginApply \/ PersistInventory
             \/ WriteComponent \/ Prune \/ Report \/ AnnounceCleanup \/ PassFails
    <3>1. volumes \subseteq volumes'
      BY <2>4 DEF Edit, Close, CreateCell, DeleteCell, Refuse, Interrupt, Watch,
                  reconcileVars, namespaceVars, BeginCleanup, BeginObserve,
                  BeginApply, Enter, PersistInventory, WriteComponent, Prune,
                  Report, AnnounceCleanup, PassFails
    <3>2. QED
      BY <1>1, <3>1
  <2>5. QED
    BY <1>1, <2>1, <2>2, <2>3, <2>4, StepCases DEF ControllerStep
<1>2. TypeInv /\ DeletionInv /\ [ReconcileNext]_reconcileVars
        => [\A c \in volumes \ volumes' :
              \/ cell.phase = "deleting"
              \/ c \in PendingDeletedData(1)]_reconcileVars
  BY <1>1
<1>3. QED
  BY <1>2, TypeInvHolds, DeletionInvHolds, PTL DEF ReconcileSpec, DataGoesOnRequest

-----------------------------------------------------------------------------
(* The newest delivery never asks to delete what the newest revision       *)
(* deploys: the list is read after the generation, and a component whose   *)
(* data waits for its deletion is not deployed (RetentionInv).             *)
LEMMA SparesInit == ReconcileInit => SparesDeployed
  BY DEF ReconcileInit, SparesDeployed, NewCell, Idle

LEMMA SparesKept ==
    ASSUME TypeInv, OrderInv, SparesDeployed, [ReconcileNext]_reconcileVars
    PROVE  SparesDeployed'
<1>1. /\ cell \in Cells /\ workers \in [Workers -> Tasks]
      /\ generation \in Nat /\ cell.spec.generation \in Nat
      /\ \A w \in Workers : workers[w].generation \in Nat
  BY DEF TypeInv, ReconcileTypeOK, TypeOK, Cells, Specs, Tasks
<1>2. PendingDeletedData(applied) \intersect Deployed(revision) = {}
  BY DEF TypeInv, JournalInv, RetentionInv, RetainedNeverDeployed, DeletionsRetained
<1>3. ASSUME UNCHANGED <<generation, revision>>, cell'.spec = cell.spec,
             \A w \in Workers : /\ workers'[w].pc = workers[w].pc
                                /\ workers'[w].generation = workers[w].generation
                                /\ workers'[w].deleted = workers[w].deleted
      PROVE  SparesDeployed'
  BY <1>3 DEF SparesDeployed, Deployed
<1>4. CASE Edit
  <2>1. generation' = generation + 1 /\ UNCHANGED <<cell, workers>>
    BY <1>4 DEF Edit, AcceptChange
  <2>2. \A w \in Workers : workers[w].generation <= generation
    BY DEF OrderInv, TaskInOrder
  <2>3. cell.spec.generation <= generation
    BY DEF OrderInv
  <2>4. QED
    BY <1>1, <2>1, <2>2, <2>3 DEF SparesDeployed
<1>5. CASE Close
  BY <1>3, <1>5 DEF Close, BeginInstanceClose, instanceVars
<1>6. CASE CreateCell
  BY <1>1, <1>3, <1>6 DEF CreateCell, Cells, ledgerVars
<1>7. CASE DeleteCell
  BY <1>1, <1>3, <1>7, OutdatedTasks DEF DeleteCell, Cells, ledgerVars
<1>8. ASSUME NEW w \in Workers, ClientStep(w) \/ Abandon(w) PROVE SparesDeployed'
  <2>1. UNCHANGED <<generation, revision>>
    BY <1>8 DEF ClientStep, ReadInstance, ReadState, GetCell, ReadDeletions, Replace,
                Observe, Mark, Abandon, MarkUpdateApplied, ledgerVars, instanceVars
  <2>2. \A v \in Workers : workers'[v].pc = "replace" =>
          \/ /\ workers[v].pc = "replace"
             /\ workers'[v].generation = workers[v].generation
             /\ workers'[v].deleted = workers[v].deleted
          \/ workers'[v].deleted = PendingDeletedData(applied)
    BY <1>8, ClientDeletions
  <2>3. \A v \in Workers :
          workers'[v].pc = "replace" /\ workers'[v].generation = generation
            => workers'[v].deleted \intersect Deployed(revision) = {}
    BY <1>2, <2>2 DEF SparesDeployed
  <2>4. cell'.spec.generation = generation
          => cell'.spec.deleted \intersect Deployed(revision) = {}
    <3>1. CASE cell'.spec = cell.spec
      BY <3>1 DEF SparesDeployed
    <3>2. ASSUME NEW v \in Workers, Replace(v), cell' = Replacement(v)
          PROVE  cell'.spec.generation = generation
                   => cell'.spec.deleted \intersect Deployed(revision) = {}
      <4>1. /\ cell'.spec.generation = workers[v].generation
            /\ cell'.spec.deleted = workers[v].deleted
        BY <1>1, <3>2 DEF Replacement, Cells
      <4>2. workers[v].pc = "replace"
        BY <3>2 DEF Replace
      <4>3. QED
        BY <4>1, <4>2 DEF SparesDeployed
    <3>3. QED
      BY <3>1, <3>2, SpecChanges
  <2>5. QED
    BY <2>1, <2>3, <2>4 DEF SparesDeployed, Deployed
<1>9. CASE ControllerStep \/ Release \/ Refuse \/ Interrupt \/ Watch
  <2>1. SameTasks
    BY <1>9, ControllerType DEF TypeInv
  <2>2. cell'.spec = cell.spec /\ UNCHANGED ledgerVars
    BY <1>9, ControllerOrder
  <2>3. QED
    BY <1>3, <2>1, <2>2 DEF SameTasks, ledgerVars
<1>10. CASE UNCHANGED reconcileVars
  BY <1>3, <1>10 DEF reconcileVars, ledgerVars
<1>11. QED
  BY <1>4, <1>5, <1>6, <1>7, <1>8, <1>9, <1>10, StepCases

LEMMA SparesHolds == ReconcileSpec => []SparesDeployed
  BY TypeInvHolds, OrderInvHolds, SparesInit, SparesKept, PTL DEF ReconcileSpec

-----------------------------------------------------------------------------
(* The namespace.  A status is written by force, so what it says is only   *)
(* as good as the copy its pass began with: these proofs need a cache that *)
(* follows the resource.  A refused pass forgets the inventory it wrote:   *)
(* they also need passes that are not refused for good.                    *)
Calm == WatchLag = FALSE /\ Refusals = FALSE

LEMMA NothingKnown ==
    /\ NoPass.pc = "idle" /\ NoPass.status = NoStatus /\ NoPass.seen.status = NoStatus
    /\ NoStatus.revision = Absent /\ NoStatus.phase = "Pending" /\ NoStatus.inventory = {}
    /\ NoMemory.spec.revision = Absent
    /\ \A r \in Revisions : NewCell("none", r).phase = "none"
    /\ \A r \in Revisions : NewCell("none", r).status = NoStatus
    /\ \A r \in Revisions : NewCell("none", r).meta = 1
  BY DEF NoPass, NoStatus, NoMemory, NewCell

LEMMA NamespaceInit == ReconcileInit => NamespaceInv
<1> SUFFICES ASSUME ReconcileInit PROVE NamespaceInv
  OBVIOUS
<1>1. /\ cell.phase = "none" /\ cell.status = NoStatus
      /\ pass = NoPass /\ memory = NoMemory
      /\ \A c \in Components : ~Remains(c)
  BY NothingKnown DEF ReconcileInit, Remains
<1>2. Untouched
  BY <1>1, NothingKnown DEF Untouched, Known
<1>3. PassInv
  BY <1>1, NothingKnown DEF PassInv
<1>4. CoverInv
  BY <1>1, NothingKnown DEF CoverInv, Covers, Known
<1>5. QED
  BY <1>2, <1>3, <1>4 DEF NamespaceInv

\* Tasks neither write statuses nor create or delete the resource.
LEMMA ClientKeepsStatus ==
    ASSUME TypeInv, NEW w \in Workers, ClientStep(w) \/ Abandon(w)
    PROVE  cell'.status = cell.status /\ cell'.phase = cell.phase
<1>1. cell \in Cells
  BY DEF TypeInv, ReconcileTypeOK
<1>2. CASE Replace(w)
  BY <1>1, <1>2 DEF Replace, Replacement, Cells
<1>3. CASE ~Replace(w)
  BY <1>3 DEF ClientStep, ReadInstance, ReadState, GetCell, ReadDeletions,
              Observe, Mark, Abandon
<1>4. QED
  BY <1>2, <1>3

LEMMA NamespaceFrame ==
    ASSUME NamespaceInv, UNCHANGED <<pass, memory, running, volumes>>,
           cell'.status = cell.status,
           Exists' => Exists, cell'.phase = "none" => cell.phase = "none"
    PROVE  NamespaceInv'
<1>1. Untouched'
  BY DEF NamespaceInv, Untouched, Known, Remains
<1>2. PassInv'
  BY DEF NamespaceInv, PassInv, Wanted, Known, Deployed
<1>3. CoverInv'
  BY DEF NamespaceInv, CoverInv, Covers, Known, Remains, Deployed
<1>4. QED
  BY <1>1, <1>2, <1>3 DEF NamespaceInv

\* The end of a pass.
LEMMA NamespaceEnd ==
    ASSUME NamespaceInv, pass' = NoPass, memory' \in {memory, NoMemory},
           running' = running, volumes' = volumes,
           cell'.phase = cell.phase,
           \/ cell'.status = cell.status
           \/ /\ Exists
              /\ Covers(cell'.status)
              /\ \A c \in Components : Remains(c) => c \in cell'.status.inventory
    PROVE  NamespaceInv'
<1>1. Untouched'
  BY NothingKnown DEF NamespaceInv, Untouched, Known, Remains, Exists
<1>2. PassInv'
  BY NothingKnown DEF PassInv
<1>3. Covers(cell.status)'
  BY DEF NamespaceInv, CoverInv, Covers, Deployed
<1>4. /\ Covers(pass.status)' /\ Covers(pass.seen.status)'
  BY NothingKnown DEF Covers
<1>5. Known' => Known /\ memory' = memory
  BY NothingKnown DEF Known
<1>6. (Known => Deployed(memory.spec.revision) \subseteq memory.inventory)'
  BY <1>5 DEF NamespaceInv, CoverInv, Deployed
<1>7. Exists' => \A c \in Components : Remains(c)' =>
                    /\ c \in cell'.status.inventory
                    /\ Known' => c \in memory'.inventory
  <2>1. Exists' => Exists
    BY DEF Exists
  <2>2. \A c \in Components : Remains(c)' => Remains(c)
    BY DEF Remains
  <2>3. QED
    BY <1>5, <2>1, <2>2 DEF NamespaceInv, CoverInv
<1>8. QED
  BY <1>1, <1>2, <1>3, <1>4, <1>6, <1>7 DEF NamespaceInv, CoverInv

LEMMA NamespaceBegin ==
    ASSUME Calm, TypeInv, NamespaceInv, BeginCleanup \/ BeginObserve \/ BeginApply
    PROVE  NamespaceInv'
<1>1. /\ Cached = cell /\ cell.phase \in {"open", "deleting"}
  BY DEF Calm, Cached, BeginCleanup, BeginObserve, BeginApply
<1>2. PICK pc \in {"inventory", "report", "cleanup"} :
        /\ Enter(pc)
        /\ pc = "inventory" => memory' = IF memory.spec.revision = cell.spec.revision
                                         THEN memory ELSE NoMemory
        /\ pc = "report" => memory' = memory /\ memory.spec = cell.spec
        /\ pc = "cleanup" => memory' = NoMemory
  BY <1>1 DEF BeginCleanup, BeginObserve, BeginApply, Remembers
<1>3. /\ pass' = [pc |-> pc, seen |-> cell, status |-> cell.status]
      /\ UNCHANGED <<cell, running, volumes>>
  BY <1>1, <1>2 DEF Enter, namespaceVars
<1>4. pass'.pc = pc /\ pass'.seen = cell /\ pass'.status = cell.status
  BY <1>3
<1>5. Known' => Known /\ memory' = memory
  BY <1>2, NothingKnown DEF Known
<1>6. Untouched'
  BY <1>1, <1>3 DEF Untouched
<1>7. PassInv'
  <2>1. pass'.pc \in {"inventory", "write"} /\ Known'
          => memory'.spec.revision = pass'.seen.spec.revision
    BY <1>2, <1>4, NothingKnown DEF Known
  <2>2. QED
    BY <1>2, <1>3, <1>4, <2>1 DEF PassInv
<1>8. CoverInv'
  <2>1. Covers(cell.status)
    BY DEF NamespaceInv, CoverInv
  <2>2. Covers(cell.status)' /\ Covers(pass.status)' /\ Covers(pass.seen.status)'
    BY <1>3, <1>4, <2>1 DEF Covers, Deployed
  <2>3. QED
    BY <1>3, <1>5, <2>2 DEF NamespaceInv, CoverInv, Exists, Remains, Deployed
<1>9. QED
  BY <1>6, <1>7, <1>8 DEF NamespaceInv

LEMMA NamespacePersist ==
    ASSUME TypeInv, NamespaceInv, PersistInventory
    PROVE  NamespaceInv'
<1>1. /\ cell \in Cells /\ pass \in Passes /\ workers \in [Workers -> Tasks]
      /\ pass.seen.spec.revision # Absent
      /\ pass.pc = "inventory"
      /\ pass.status = pass.seen.status
      /\ Exists => pass.status = cell.status
      /\ UNCHANGED <<memory, running, volumes>>
  BY DEF TypeInv, ReconcileTypeOK, PersistInventory, NamespaceInv, PassInv, namespaceVars
<1>2. cell.phase # "none"
  BY <1>1 DEF NamespaceInv, Untouched
<1>3. CASE ObservedSpec(pass.seen)
  <2>1. /\ UNCHANGED cell
        /\ pass'.pc = "write" /\ pass'.seen = pass.seen /\ pass'.status = pass.status
    BY <1>1, <1>3 DEF PersistInventory, Passes
  <2>2. Wanted \subseteq pass.status.inventory
    BY <1>1, <1>3 DEF ObservedSpec, NamespaceInv, CoverInv, Covers, Wanted
  <2>3. Untouched'
    BY <1>2, <2>1 DEF Untouched
  <2>4. PassInv'
    BY <1>1, <2>1, <2>2 DEF NamespaceInv, PassInv, Wanted, Deployed, Known, Exists
  <2>5. CoverInv'
    BY <1>1, <2>1 DEF NamespaceInv, CoverInv, Covers, Known, Exists, Remains, Deployed
  <2>6. QED
    BY <2>3, <2>4, <2>5 DEF NamespaceInv
<1>4. CASE ~ObservedSpec(pass.seen)
  <2> DEFINE status == WithInventory(pass.seen)
  <2>1. /\ status \in Statuses
        /\ WriteStatus(pass.status, status)
        /\ pass'.pc = "write" /\ pass'.seen = pass.seen /\ pass'.status = status
    BY <1>1, <1>4, StatusTypes DEF PersistInventory, Passes, TypeInv
  <2>2. /\ status.phase = "Pending"
        /\ status.revision = pass.seen.status.revision
        /\ status.inventory = pass.seen.status.inventory \union Wanted
    BY <1>1 DEF WithInventory, Wanted, Passes, Cells, Statuses
  <2> HIDE DEF status
  <2>3. /\ cell'.phase = cell.phase
        /\ \/ status = pass.status /\ UNCHANGED cell
           \/ cell'.status = status /\ Exists
    BY <1>1, <2>1, WriteStatusType
  <2>4. Exists' => Exists /\ cell'.status = status
    BY <1>1, <2>3 DEF Exists
  <2>5. Untouched'
    BY <1>2, <2>3 DEF Untouched
  <2>6. PassInv'
    BY <1>1, <2>1, <2>2, <2>4 DEF NamespaceInv, PassInv, Wanted, Deployed, Known
  <2>7. Covers(status)
    BY <2>2 DEF NamespaceInv, CoverInv, Covers
  <2>8. Covers(cell.status)' /\ Covers(pass.status)' /\ Covers(pass.seen.status)'
    BY <2>1, <2>3, <2>7 DEF NamespaceInv, CoverInv, Covers, Deployed
  <2>9. Exists' => \A c \in Components : Remains(c)' =>
                      /\ c \in cell'.status.inventory
                      /\ Known' => c \in memory'.inventory
    BY <1>1, <2>2, <2>4 DEF NamespaceInv, CoverInv, Known, Remains
  <2>10. (Known => Deployed(memory.spec.revision) \subseteq memory.inventory)'
    BY <1>1 DEF NamespaceInv, CoverInv, Known, Deployed
  <2>11. QED
    BY <2>5, <2>6, <2>8, <2>9, <2>10 DEF NamespaceInv, CoverInv
<1>5. QED
  BY <1>3, <1>4

LEMMA NamespaceWrite ==
    ASSUME TypeInv, NamespaceInv, WriteComponent
    PROVE  NamespaceInv'
<1>1. /\ UNCHANGED <<cell, pass, memory>>
      /\ pass.pc = "write" /\ pass.seen.spec.revision # Absent
      /\ running \in [Components -> Rollouts \union {Absent}]
  BY DEF WriteComponent, TypeInv, ReconcileTypeOK
<1>2. PICK c \in Wanted :
        /\ running' = [running EXCEPT ![c] = Config[pass.seen.spec.revision][c]]
        /\ volumes' = volumes \union {c}
  BY DEF WriteComponent
<1>3. \A d \in Components : Remains(d)' => Remains(d) \/ d = c
  BY <1>1, <1>2 DEF Remains
<1>4. c \in pass.status.inventory
  BY <1>1, <1>2 DEF NamespaceInv, PassInv
<1>5. Exists => c \in cell.status.inventory
  BY <1>1, <1>4 DEF NamespaceInv, PassInv
<1>6. Known => c \in memory.inventory
  BY <1>1, <1>2 DEF NamespaceInv, PassInv, CoverInv, Wanted
<1>7. Untouched'
  BY <1>1 DEF NamespaceInv, Untouched
<1>8. PassInv'
  BY <1>1 DEF NamespaceInv, PassInv, Wanted, Deployed, Known, Exists
<1>9. CoverInv'
  BY <1>1, <1>3, <1>5, <1>6 DEF NamespaceInv, CoverInv, Covers, Known, Exists, Deployed
<1>10. QED
  BY <1>7, <1>8, <1>9 DEF NamespaceInv

LEMMA NamespacePrune ==
    ASSUME TypeInv, NamespaceInv, Prune
    PROVE  NamespaceInv'
<1> DEFINE owned == {c \in pass.status.inventory \ Wanted : Remains(c)}
<1>1. /\ UNCHANGED <<cell, volumes>>
      /\ pass.pc = "write" /\ pass.seen.spec.revision # Absent
      /\ pass \in Passes /\ cell.phase # "none"
  BY DEF Prune, TypeInv, ReconcileTypeOK, NamespaceInv, Untouched
<1>2. /\ running' = [c \in Components |-> IF c \in owned THEN Absent ELSE running[c]]
      /\ memory' = [spec |-> pass.seen.spec, pruned |-> PruneComplete(owned),
                    inventory |-> Wanted \union owned]
  BY DEF Prune, InventoryAfter
<1>3. /\ pass'.pc = "report" /\ pass'.seen = pass.seen /\ pass'.status = pass.status
  BY <1>1 DEF Prune, Passes
<1>4. Exists => \A c \in Components : Remains(c) => c \in Wanted \union owned
  <2>1. Exists => pass.status = cell.status
    BY <1>1 DEF NamespaceInv, PassInv
  <2>2. QED
    BY <2>1 DEF NamespaceInv, CoverInv
<1> HIDE DEF owned
<1>5. \A c \in Components : Remains(c)' => Remains(c)
  BY <1>1, <1>2 DEF Remains
<1>6. /\ memory'.spec = pass.seen.spec /\ memory'.inventory = Wanted \union owned
  BY <1>2
<1>7. Untouched'
  BY <1>1 DEF Untouched
<1>8. PassInv'
  <2>1. pass'.status.phase = "Ready" => pass'.status = pass'.seen.status
    BY <1>1, <1>3 DEF NamespaceInv, PassInv
  <2>2. Exists' => pass'.status = cell'.status
    BY <1>1, <1>3 DEF NamespaceInv, PassInv, Exists
  <2>3. QED
    BY <1>3, <1>6, <2>1, <2>2 DEF PassInv
<1>9. CoverInv'
  <2>1. Covers(cell.status)' /\ Covers(pass.status)' /\ Covers(pass.seen.status)'
    BY <1>1, <1>3 DEF NamespaceInv, CoverInv, Covers, Deployed
  <2>2. Deployed(memory.spec.revision)' \subseteq memory'.inventory
    BY <1>6 DEF Wanted, Deployed
  <2>3. Exists' => \A c \in Components : Remains(c)' =>
                      c \in cell'.status.inventory /\ c \in memory'.inventory
    BY <1>1, <1>4, <1>5, <1>6 DEF NamespaceInv, CoverInv, Exists
  <2>4. QED
    BY <2>1, <2>2, <2>3 DEF CoverInv
<1>10. QED
  BY <1>7, <1>8, <1>9 DEF NamespaceInv

LEMMA NamespaceReport ==
    ASSUME TypeInv, NamespaceInv, Report
    PROVE  NamespaceInv'
<1>1. /\ cell \in Cells /\ workers \in [Workers -> Tasks]
      /\ pass.pc = "report" /\ pass.seen.spec.revision # Absent
      /\ UNCHANGED <<memory, running, volumes>> /\ pass' = NoPass
  BY DEF Report, TypeInv, ReconcileTypeOK, namespaceVars
<1>2. PICK phase \in {"Pending", "Ready"} : WriteStatus(pass.status, StatusOf(phase))
  BY DEF Report
<1>3. /\ StatusOf(phase).revision = pass.seen.spec.revision
      /\ StatusOf(phase).inventory = memory.inventory
      /\ StatusOf(phase) \in Statuses
  BY StatusTypes DEF StatusOf, TypeInv
<1>4. memory.spec = pass.seen.spec /\ Known
  BY <1>1 DEF NamespaceInv, PassInv, Known
<1>5. Covers(StatusOf(phase))
  BY <1>3, <1>4 DEF NamespaceInv, CoverInv, Covers
<1>6. Exists => \A c \in Components : Remains(c) => c \in StatusOf(phase).inventory
  BY <1>3, <1>4 DEF NamespaceInv, CoverInv
<1>7. /\ cell'.phase = cell.phase
      /\ cell'.status = cell.status \/ (Exists /\ cell'.status = StatusOf(phase))
  BY <1>1, <1>2, <1>3, WriteStatusType
<1>8. QED
  BY <1>1, <1>5, <1>6, <1>7, NamespaceEnd

LEMMA NamespaceAnnounce ==
    ASSUME TypeInv, NamespaceInv, AnnounceCleanup
    PROVE  NamespaceInv'
<1> DEFINE status == [pass.status EXCEPT !.phase = "Closing",
                                         !.generation = pass.seen.spec.generation,
                                         !.meta = pass.seen.meta]
<1>1. /\ cell \in Cells /\ workers \in [Workers -> Tasks] /\ pass \in Passes
      /\ pass.pc = "cleanup"
      /\ UNCHANGED <<memory, running, volumes>>
  BY DEF AnnounceCleanup, TypeInv, ReconcileTypeOK, namespaceVars
<1>2. /\ pass'.pc = "teardown" /\ pass'.seen = pass.seen /\ pass'.status = pass.status
  BY <1>1 DEF AnnounceCleanup, Passes
<1>3. WriteStatus(pass.status, status) /\ status \in Statuses
  BY StatusTypes DEF AnnounceCleanup, TypeInv
<1>4. status.revision = pass.status.revision /\ status.inventory = pass.status.inventory
  BY <1>1 DEF Passes, Statuses
<1> HIDE DEF status
<1>5. /\ cell'.phase = cell.phase
      /\ cell'.status = cell.status \/ (Exists /\ cell'.status = status)
  BY <1>1, <1>3, WriteStatusType
<1>6. cell'.status.revision = cell.status.revision
      /\ cell'.status.inventory = cell.status.inventory
  BY <1>1, <1>4, <1>5 DEF NamespaceInv, PassInv
<1>7. Untouched'
  BY <1>1, <1>5 DEF NamespaceInv, Untouched
<1>8. PassInv'
  BY <1>2 DEF PassInv
<1>9. CoverInv'
  BY <1>1, <1>2, <1>5, <1>6
     DEF NamespaceInv, CoverInv, Covers, Known, Exists, Remains, Deployed
<1>10. QED
  BY <1>7, <1>8, <1>9 DEF NamespaceInv

LEMMA NamespaceTeardown ==
    ASSUME TypeInv, NamespaceInv, Teardown
    PROVE  NamespaceInv'
<1>1. /\ cell'.phase = "gone" /\ cell'.status = cell.status
      /\ pass' = NoPass /\ memory' = memory
  BY DEF Teardown, TypeInv, ReconcileTypeOK, Cells
<1>2. Untouched' /\ PassInv' /\ ~Exists'
  BY <1>1, NothingKnown DEF Untouched, PassInv, Exists
<1>3. CoverInv'
  <2>1. Covers(cell.status)' /\ Covers(pass.status)' /\ Covers(pass.seen.status)'
    BY <1>1, NothingKnown DEF NamespaceInv, CoverInv, Covers, Deployed
  <2>2. QED
    BY <1>1, <1>2, <2>1 DEF NamespaceInv, CoverInv, Known, Deployed
<1>4. QED
  BY <1>2, <1>3 DEF NamespaceInv

LEMMA NamespaceKept ==
    ASSUME Calm, TypeInv, NamespaceInv, [ReconcileNext]_reconcileVars
    PROVE  NamespaceInv'
<1>1. cell \in Cells
  BY DEF TypeInv, ReconcileTypeOK
<1>2. CASE Edit \/ Close \/ UNCHANGED reconcileVars
  BY <1>2, NamespaceFrame
     DEF Edit, Close, reconcileVars, controllerVars, namespaceVars, Exists
<1>3. CASE CreateCell
  <2>1. /\ cell.phase = "none" /\ cell'.phase = "open" /\ cell'.status = cell.status
        /\ UNCHANGED <<pass, memory, running, volumes>>
    BY <1>1, <1>3 DEF CreateCell, Cells, controllerVars, namespaceVars
  <2>2. /\ pass.pc = "idle" /\ ~Known
        /\ \A c \in Components : ~Remains(c)
    BY <2>1 DEF NamespaceInv, Untouched
  <2>3. Untouched'
    BY <2>1 DEF Untouched
  <2>4. PassInv'
    BY <2>1, <2>2 DEF PassInv
  <2>5. CoverInv'
    BY <2>1, <2>2 DEF NamespaceInv, CoverInv, Covers, Known, Remains, Deployed
  <2>6. QED
    BY <2>3, <2>4, <2>5 DEF NamespaceInv
<1>4. CASE DeleteCell
  <2>1. cell'.status = cell.status /\ cell'.phase = "deleting" /\ cell.phase = "open"
    BY <1>1, <1>4 DEF DeleteCell, Cells
  <2>2. QED
    BY <1>4, <2>1, NamespaceFrame DEF DeleteCell, controllerVars, namespaceVars, Exists
<1>5. ASSUME NEW w \in Workers, ClientStep(w) \/ Abandon(w) PROVE NamespaceInv'
  <2>1. /\ cell'.status = cell.status /\ cell'.phase = cell.phase
        /\ UNCHANGED <<controllerVars, namespaceVars>>
    BY <1>5, ClientKeepsStatus, ClientType
  <2>2. QED
    BY <2>1, NamespaceFrame DEF controllerVars, namespaceVars, Exists
<1>6. CASE PassFails
  BY <1>6, NamespaceEnd DEF PassFails, namespaceVars
<1>7. CASE Interrupt
  BY <1>7, NamespaceEnd DEF Interrupt, namespaceVars
<1>8. CASE Release
  <2>1. UNCHANGED <<cell, pass, memory, running>> /\ volumes' \subseteq volumes
    BY <1>8 DEF Release
  <2>2. \A c \in Components : Remains(c)' => Remains(c)
    BY <2>1 DEF Remains
  <2>3. Untouched'
    BY <2>1, <2>2 DEF NamespaceInv, Untouched, Known
  <2>4. PassInv'
    BY <2>1 DEF NamespaceInv, PassInv, Wanted, Deployed, Known, Exists
  <2>5. CoverInv'
    BY <2>1, <2>2 DEF NamespaceInv, CoverInv, Covers, Known, Exists, Deployed
  <2>6. QED
    BY <2>3, <2>4, <2>5 DEF NamespaceInv
<1>9. CASE Refuse \/ Watch
  BY <1>9 DEF Calm, Refuse, Watch
<1>10. QED
  BY <1>2, <1>3, <1>4, <1>5, <1>6, <1>7, <1>8, <1>9, StepCases, NamespaceBegin,
     NamespacePersist, NamespaceWrite, NamespacePrune, NamespaceReport,
     NamespaceAnnounce, NamespaceTeardown
     DEF ControllerStep

LEMMA NamespaceHolds == ASSUME Calm PROVE ReconcileSpec => []NamespaceInv
<1>1. TypeInv /\ NamespaceInv /\ [ReconcileNext]_reconcileVars => NamespaceInv'
  BY NamespaceKept
<1>2. QED
  BY <1>1, TypeInvHolds, NamespaceInit, PTL DEF ReconcileSpec

(* Whatever is in the namespace is in the inventory, so no interrupted pass*)
(* leaves a workload or a claim that later passes do not know of.          *)
THEOREM InventoryIsComplete ==
    ASSUME Calm PROVE ReconcileSpec => []InventoryCoversNamespace
<1>1. NamespaceInv => InventoryCoversNamespace
  BY DEF NamespaceInv, CoverInv, InventoryCoversNamespace, Exists
<1>2. QED
  BY <1>1, NamespaceHolds, PTL

-----------------------------------------------------------------------------
(* The truth of a status that says ready.                                  *)
LEMMA Numbers ==
    ASSUME TypeInv
    PROVE  /\ cell \in Cells /\ pass \in Passes /\ workers \in [Workers -> Tasks]
           /\ cell.meta \in Nat /\ cell.status.meta \in Nat
           /\ cell.spec.generation \in Nat /\ cell.status.generation \in Nat
           /\ pass.seen.meta \in Nat /\ pass.seen.status.meta \in Nat
           /\ pass.seen.spec.generation \in Nat
           /\ pass.seen.status.generation \in Nat
  BY DEF TypeInv, ReconcileTypeOK, Cells, Passes, Specs, Statuses

LEMMA ReportInit == ReconcileInit => ReportInv
<1> SUFFICES ASSUME ReconcileInit PROVE ReportInv
  OBVIOUS
<1>1. /\ cell.phase = "none" /\ cell.status.meta = 0 /\ cell.meta = 1
      /\ pass.pc = "idle"
  BY DEF ReconcileInit, NewCell, NoStatus, NoPass
<1>2. QED
  BY <1>1 DEF ReportInv, VersionInv, PrunedInv, ReadyInv, Exists

LEMMA ReportFrame ==
    ASSUME ReportInv, UNCHANGED <<pass, memory, running, volumes>>,
           cell'.spec = cell.spec, cell'.status = cell.status, cell'.meta = cell.meta,
           Exists' => Exists
    PROVE  ReportInv'
<1>1. VersionInv'
  BY DEF ReportInv, VersionInv, SameAge
<1>2. PrunedInv'
  BY DEF ReportInv, PrunedInv, Known, Swept, Deployed
<1>3. ReadyInv'
  BY DEF ReportInv, ReadyInv, SaysReady, Swept, Rolled, Deployed
<1>4. QED
  BY <1>1, <1>2, <1>3 DEF ReportInv

\* A change that leaves the status behind.
LEMMA ReportLeftBehind ==
    ASSUME ReportInv, UNCHANGED <<pass, memory, running, volumes>>,
           cell'.status = cell.status, cell'.phase = "none" => ~Exists,
           Exists' => Exists,
           cell'.meta \in Nat, cell.meta <= cell'.meta, TypeInv,
           ~SaysReady', pass.pc # "idle" => ~SameAge(pass.seen)'
    PROVE  ReportInv'
<1>1. VersionInv'
  BY Numbers DEF ReportInv, VersionInv
<1>2. PrunedInv'
  BY DEF ReportInv, PrunedInv, Known, Swept, Deployed
<1>3. ReadyInv'
  BY DEF ReadyInv
<1>4. QED
  BY <1>1, <1>2, <1>3 DEF ReportInv

LEMMA ReportReplace ==
    ASSUME TypeInv, OrderInv, ReportInv, NEW w \in Workers, Replace(w), Wins(w)
    PROVE  ReportInv'
<1>1. /\ cell' = Replacement(w) /\ workers[w].fresh
      /\ UNCHANGED <<pass, memory, running, volumes>>
  BY DEF Replace, Wins, controllerVars, namespaceVars
<1>2. /\ cell'.status = cell.status /\ cell'.phase = cell.phase
      /\ cell'.spec.generation = workers[w].generation
      /\ cell'.meta = IF cell.spec.revision = workers[w].revision THEN cell.meta
                      ELSE cell.meta + 1
  BY <1>1, Numbers DEF Replacement, Cells
<1>3. /\ cell.spec.generation <= workers[w].generation
      /\ workers[w].generation \in Nat
      /\ cell.spec.revision # workers[w].revision
         \/ cell.spec.generation # workers[w].generation
  BY <1>1 DEF OrderInv, TaskInOrder, TypeInv, ReconcileTypeOK, Tasks
<1>4. /\ cell'.meta \in Nat /\ cell.meta <= cell'.meta
      /\ cell.meta < cell'.meta \/ cell.spec.generation < cell'.spec.generation
  BY <1>2, <1>3, Numbers
<1>5. ~SaysReady'
  <2>1. cell.status.meta <= cell.meta /\ cell.status.generation <= cell.spec.generation
    BY DEF ReportInv, VersionInv, OrderInv, Behind
  <2>2. QED
    BY <1>2, <1>3, <1>4, <2>1, Numbers DEF SaysReady
<1>6. pass.pc # "idle" => ~SameAge(pass.seen)'
  <2>1. pass.pc # "idle" => /\ pass.seen.meta <= cell.meta
                            /\ pass.seen.spec.generation <= cell.spec.generation
    BY DEF ReportInv, VersionInv, OrderInv, Behind
  <2>2. QED
    BY <1>1, <1>2, <1>3, <1>4, <2>1, Numbers DEF SameAge
<1>7. Exists' => Exists
  BY <1>2 DEF Exists
<1>8. QED
  BY <1>1, <1>2, <1>4, <1>5, <1>6, <1>7, ReportLeftBehind DEF Exists

\* A pass under which the status says ready works on the present spec.
LEMMA ReadyPassIsCurrent ==
    ASSUME TypeInv, OrderInv, NamespaceInv, ReportInv,
           pass.pc \in {"inventory", "write", "report"}, Exists, SaysReady
    PROVE  pass.seen.spec = cell.spec
<1>1. pass.seen.status = cell.status
  BY DEF NamespaceInv, PassInv, SaysReady
<1>2. /\ pass.seen.meta <= cell.meta /\ cell.meta <= pass.seen.meta
      /\ cell.spec.generation <= pass.seen.spec.generation
      /\ pass.seen.spec.generation <= cell.spec.generation
  BY <1>1 DEF ReportInv, VersionInv, SaysReady, OrderInv, Behind
<1>3. SameAge(pass.seen)
  BY <1>2, Numbers DEF SameAge
<1>4. QED
  BY <1>3 DEF ReportInv, VersionInv

\* The pass writes a status, or ends, or is only observed to go on.
LEMMA ReportStatus ==
    ASSUME TypeInv, ReportInv, NEW known, NEW status \in Statuses,
           WriteStatus(known, status),
           memory' = memory, running' = running, volumes' = volumes,
           pass'.pc = "idle" \/ pass'.seen = pass.seen,
           pass.pc # "idle",
           status.meta <= cell.meta,
           Exists /\ status.phase = "Ready" /\ status.meta = cell.meta
                  /\ status.generation = cell.spec.generation
             => /\ status.revision = cell.spec.revision
                /\ Swept(cell.spec) /\ Rolled(cell.spec)
    PROVE  ReportInv'
<1>1. /\ cell'.spec = cell.spec /\ cell'.meta = cell.meta /\ cell'.phase = cell.phase
      /\ UNCHANGED cell \/ (cell'.status = status /\ Exists)
  BY Numbers, WriteStatusType
<1>2. VersionInv'
  BY <1>1 DEF ReportInv, VersionInv, SameAge
<1>3. PrunedInv'
  BY <1>1 DEF ReportInv, PrunedInv, Known, Exists, Swept, Deployed
<1>4. ReadyInv'
  <2>1. CASE UNCHANGED cell
    BY <2>1 DEF ReportInv, ReadyInv, SaysReady, Exists, Swept, Rolled, Deployed
  <2>2. CASE cell'.status = status /\ Exists
    BY <1>1, <2>2 DEF ReadyInv, SaysReady, Swept, Rolled, Deployed
  <2>3. QED
    BY <1>1, <2>1, <2>2
<1>5. QED
  BY <1>2, <1>3, <1>4 DEF ReportInv

LEMMA ReportBegin ==
    ASSUME Calm, TypeInv, OrderInv, ReportInv, BeginCleanup \/ BeginObserve \/ BeginApply
    PROVE  ReportInv'
<1>1. PICK pc : Enter(pc)
  BY DEF BeginCleanup, BeginObserve, BeginApply
<1>2. memory' \in {memory, NoMemory}
  BY DEF BeginCleanup, BeginObserve, BeginApply
<1>3. /\ pass' = [pc |-> pc, seen |-> cell, status |-> cell.status]
      /\ UNCHANGED <<cell, running, volumes>>
  BY <1>1 DEF Enter, Cached, Calm, namespaceVars
<1>4. VersionInv'
  BY <1>3, Numbers DEF ReportInv, VersionInv, SameAge, OrderInv, Behind
<1>5. PrunedInv'
  BY <1>2, <1>3, NothingKnown DEF ReportInv, PrunedInv, Known, Exists, Swept, Deployed
<1>6. ReadyInv'
  BY <1>3 DEF ReportInv, ReadyInv, SaysReady, Exists, Swept, Rolled, Deployed
<1>7. QED
  BY <1>4, <1>5, <1>6 DEF ReportInv

LEMMA ReportPersist ==
    ASSUME TypeInv, ReportInv, NamespaceInv, PersistInventory
    PROVE  ReportInv'
<1>1. /\ pass.pc = "inventory"
      /\ UNCHANGED <<memory, running, volumes>>
  BY DEF PersistInventory, namespaceVars
<1>2. pass'.seen = pass.seen /\ pass'.pc = "write"
  BY Numbers DEF PersistInventory, Passes
<1>3. CASE ObservedSpec(pass.seen)
  <2>1. UNCHANGED cell
    BY <1>3 DEF PersistInventory
  <2>2. VersionInv'
    BY <1>1, <1>2, <2>1 DEF ReportInv, VersionInv, SameAge
  <2>3. PrunedInv'
    BY <1>1, <2>1 DEF ReportInv, PrunedInv, Known, Exists, Swept, Deployed
  <2>4. ReadyInv'
    BY <1>1, <2>1 DEF ReportInv, ReadyInv, SaysReady, Exists, Swept, Rolled, Deployed
  <2>5. QED
    BY <2>2, <2>3, <2>4 DEF ReportInv
<1>4. CASE ~ObservedSpec(pass.seen)
  <2> DEFINE status == WithInventory(pass.seen)
  <2>1. /\ status \in Statuses
        /\ WriteStatus(pass.status, status)
    BY <1>1, <1>4, StatusTypes DEF PersistInventory, TypeInv
  <2>2. /\ status.phase = "Pending"
        /\ status.meta = pass.seen.status.meta
    BY Numbers DEF WithInventory, Cells, Passes, Statuses
  <2> HIDE DEF status
  <2>3. status.phase # "Ready" /\ status.meta <= cell.meta
    BY <1>1, <2>2, Numbers DEF ReportInv, VersionInv
  <2>4. /\ memory' = memory /\ running' = running /\ volumes' = volumes
        /\ pass.pc # "idle"
    BY <1>1
  <2>5. QED
    BY <1>2, <2>1, <2>3, <2>4, ReportStatus
<1>5. QED
  BY <1>3, <1>4

LEMMA ReportWrite ==
    ASSUME TypeInv, OrderInv, NamespaceInv, ReportInv, WriteComponent
    PROVE  ReportInv'
<1>1. /\ UNCHANGED <<cell, pass, memory>> /\ pass.pc = "write"
      /\ running \in [Components -> Rollouts \union {Absent}]
  BY DEF WriteComponent, TypeInv, ReconcileTypeOK
<1>2. PICK c \in Wanted :
        /\ running' = [running EXCEPT ![c] = Config[pass.seen.spec.revision][c]]
        /\ volumes' = volumes \union {c}
  BY DEF WriteComponent
<1>3. c \in Components
  BY <1>2 DEF Wanted, Deployed
<1>4. VersionInv'
  BY <1>1 DEF ReportInv, VersionInv, SameAge
<1>5. PrunedInv'
  <2>1. Known => c \in Deployed(memory.spec.revision)
    BY <1>1, <1>2 DEF NamespaceInv, PassInv, Wanted
  <2>2. Exists /\ Known /\ memory.pruned => Swept(memory.spec)'
    BY <1>1, <1>2, <2>1 DEF ReportInv, PrunedInv, Swept, Deployed
  <2>3. QED
    BY <1>1, <2>2 DEF PrunedInv, Known, Exists
<1>6. ReadyInv'
  <2> SUFFICES ASSUME Exists, SaysReady
               PROVE  /\ cell.status.revision = cell.spec.revision
                      /\ Swept(cell.spec)' /\ Rolled(cell.spec)'
    BY <1>1 DEF ReadyInv, Exists, SaysReady
  <2>1. pass.seen.spec = cell.spec
    BY <1>1, ReadyPassIsCurrent
  <2>2. c \in Deployed(cell.spec.revision)
    BY <1>2, <2>1 DEF Wanted
  <2>3. Swept(cell.spec)'
    BY <1>1, <1>2, <2>2 DEF ReportInv, ReadyInv, Swept, Deployed
  <2>4. Rolled(cell.spec)'
    BY <1>1, <1>2, <1>3, <2>1 DEF ReportInv, ReadyInv, Rolled, Deployed
  <2>5. QED
    BY <2>3, <2>4 DEF ReportInv, ReadyInv
<1>7. QED
  BY <1>4, <1>5, <1>6 DEF ReportInv

LEMMA ReportPrune ==
    ASSUME TypeInv, OrderInv, NamespaceInv, ReportInv, Prune
    PROVE  ReportInv'
<1> DEFINE owned == {c \in pass.status.inventory \ Wanted : Remains(c)}
<1>1. /\ UNCHANGED <<cell, volumes>> /\ pass.pc = "write"
      /\ pass'.pc = "report" /\ pass'.seen = pass.seen
  BY Numbers DEF Prune, Passes
<1>2. /\ running' = [c \in Components |-> IF c \in owned THEN Absent ELSE running[c]]
      /\ memory'.spec = pass.seen.spec
      /\ memory'.pruned = PruneComplete(owned)
  BY DEF Prune
<1>3. owned \intersect Wanted = {}
  OBVIOUS
<1>4. Exists => \A c \in Components \ Wanted : Remains(c) => c \in owned
  <2>1. Exists => pass.status = cell.status
    BY <1>1 DEF NamespaceInv, PassInv
  <2>2. QED
    BY <2>1 DEF NamespaceInv, CoverInv
<1> HIDE DEF owned
<1>5. VersionInv'
  BY <1>1 DEF ReportInv, VersionInv, SameAge
<1>6. PrunedInv'
  <2> SUFFICES ASSUME Exists, PruneComplete(owned),
                      NEW c \in Components \ Wanted
               PROVE  /\ running'[c] = Absent
                      /\ c \in pass.seen.spec.deleted => c \notin volumes
    BY <1>1, <1>2 DEF PrunedInv, Known, Exists, Swept, Wanted, Deployed
  <2>1. CASE c \in owned
    BY <1>2, <2>1 DEF PruneComplete, Doomed
  <2>2. CASE c \notin owned
    BY <1>2, <1>4, <2>2 DEF Remains
  <2>3. QED
    BY <2>1, <2>2
<1>7. ReadyInv'
  <2> SUFFICES ASSUME Exists, SaysReady
               PROVE  /\ cell.status.revision = cell.spec.revision
                      /\ Swept(cell.spec)' /\ Rolled(cell.spec)'
    BY <1>1 DEF ReadyInv, Exists, SaysReady
  <2>1. pass.seen.spec = cell.spec
    BY <1>1, ReadyPassIsCurrent
  <2>2. Swept(cell.spec)'
    BY <1>1, <1>2 DEF ReportInv, ReadyInv, Swept, Deployed
  <2>3. \A c \in Deployed(cell.spec.revision) : c \in Components /\ c \notin owned
    BY <1>3, <2>1 DEF Wanted, Deployed
  <2>4. Rolled(cell.spec)'
    BY <1>1, <1>2, <2>3 DEF ReportInv, ReadyInv, Rolled, Deployed
  <2>5. QED
    BY <2>2, <2>4 DEF ReportInv, ReadyInv
<1>8. QED
  BY <1>5, <1>6, <1>7 DEF ReportInv

LEMMA ReportReport ==
    ASSUME TypeInv, NamespaceInv, ReportInv, Report
    PROVE  ReportInv'
<1>1. /\ pass.pc = "report" /\ pass.seen.spec.revision # Absent
      /\ memory' = memory /\ running' = running /\ volumes' = volumes
      /\ pass'.pc = "idle"
  BY NothingKnown DEF Report, TypeInv, ReconcileTypeOK, namespaceVars
<1>2. PICK phase \in {"Pending", "Ready"} :
        /\ WriteStatus(pass.status, StatusOf(phase))
        /\ phase = "Ready" => AllReady
  BY DEF Report
<1> DEFINE status == StatusOf(phase)
<1>3. /\ status.phase = phase /\ status.meta = pass.seen.meta
      /\ status.generation = pass.seen.spec.generation
      /\ status.revision = pass.seen.spec.revision
      /\ status \in Statuses
      /\ WriteStatus(pass.status, status)
  BY <1>2, StatusTypes DEF StatusOf, TypeInv
<1> HIDE DEF status
<1>4. status.meta <= cell.meta
  BY <1>1, <1>3 DEF ReportInv, VersionInv
<1>5. ASSUME Exists, status.phase = "Ready", status.meta = cell.meta,
             status.generation = cell.spec.generation
      PROVE  /\ status.revision = cell.spec.revision
             /\ Swept(cell.spec) /\ Rolled(cell.spec)
  <2>1. pass.seen.spec = cell.spec /\ memory.spec = cell.spec /\ Known
    BY <1>1, <1>3, <1>5 DEF ReportInv, VersionInv, SameAge, NamespaceInv, PassInv, Known
  <2>2. AllReady
    BY <1>2, <1>3, <1>5
  <2>3. Swept(cell.spec)
    BY <1>5, <2>1, <2>2 DEF AllReady, ReportInv, PrunedInv
  <2>4. Rolled(cell.spec)
    BY <2>1, <2>2 DEF AllReady, Rolled, Written, Wanted
  <2>5. QED
    BY <1>3, <2>1, <2>3, <2>4
<1>6. pass.pc # "idle"
  BY <1>1
<1>7. QED
  BY <1>1, <1>3, <1>4, <1>5, <1>6, ReportStatus

LEMMA ReportAnnounce ==
    ASSUME TypeInv, ReportInv, AnnounceCleanup
    PROVE  ReportInv'
<1> DEFINE status == [pass.status EXCEPT !.phase = "Closing",
                                         !.generation = pass.seen.spec.generation,
                                         !.meta = pass.seen.meta]
<1>1. /\ pass.pc = "cleanup" /\ pass.pc # "idle" /\ pass'.seen = pass.seen
      /\ memory' = memory /\ running' = running /\ volumes' = volumes
  BY Numbers DEF AnnounceCleanup, namespaceVars, Passes
<1>2. WriteStatus(pass.status, status) /\ status \in Statuses
  BY StatusTypes DEF AnnounceCleanup, TypeInv
<1>3. status.phase = "Closing" /\ status.meta = pass.seen.meta
  BY Numbers DEF Passes, Statuses
<1> HIDE DEF status
<1>4. status.phase # "Ready" /\ status.meta <= cell.meta
  BY <1>1, <1>3 DEF ReportInv, VersionInv
<1>5. QED
  BY <1>1, <1>2, <1>4, ReportStatus

\* The end of a pass that writes nothing.
LEMMA ReportEnd ==
    ASSUME ReportInv, pass' = NoPass, memory' \in {memory, NoMemory},
           UNCHANGED <<cell, running, volumes>>
    PROVE  ReportInv'
<1>1. VersionInv'
  BY NothingKnown DEF ReportInv, VersionInv
<1>2. PrunedInv'
  BY NothingKnown DEF ReportInv, PrunedInv, Known, Exists, Swept, Deployed
<1>3. ReadyInv'
  BY DEF ReportInv, ReadyInv, SaysReady, Exists, Swept, Rolled, Deployed
<1>4. QED
  BY <1>1, <1>2, <1>3 DEF ReportInv

LEMMA ReportKept ==
    ASSUME Calm, TypeInv, OrderInv, NamespaceInv, ReportInv,
           [ReconcileNext]_reconcileVars
    PROVE  ReportInv'
<1>1. CASE Edit \/ Close \/ UNCHANGED reconcileVars
  BY <1>1, ReportFrame
     DEF Edit, Close, reconcileVars, controllerVars, namespaceVars, Exists
<1>2. CASE CreateCell
  <2>1. /\ cell'.status = cell.status /\ cell'.meta = cell.meta /\ cell'.spec = cell.spec
        /\ cell.phase = "none" /\ cell'.phase = "open"
        /\ UNCHANGED <<pass, memory, running, volumes>>
    BY <1>2, Numbers DEF CreateCell, Cells, controllerVars, namespaceVars
  <2>2. pass.pc = "idle" /\ ~Known /\ cell.status.phase = "Pending"
    BY <2>1, NothingKnown DEF NamespaceInv, Untouched
  <2>3. VersionInv'
    BY <2>1, <2>2 DEF ReportInv, VersionInv
  <2>4. PrunedInv' /\ ReadyInv'
    BY <2>1, <2>2 DEF PrunedInv, Known, ReadyInv, SaysReady
  <2>5. QED
    BY <2>3, <2>4 DEF ReportInv
<1>3. CASE DeleteCell
  <2>1. /\ cell'.status = cell.status /\ cell'.meta = cell.meta + 1
        /\ cell.phase = "open" /\ cell'.phase = "deleting"
        /\ UNCHANGED <<pass, memory, running, volumes>>
    BY <1>3, Numbers DEF DeleteCell, Cells, controllerVars, namespaceVars
  <2>2. /\ cell'.meta \in Nat /\ cell.meta <= cell'.meta /\ cell.meta < cell'.meta
    BY <2>1, Numbers
  <2>3. ~SaysReady'
    BY <2>1, <2>2, Numbers DEF ReportInv, VersionInv, SaysReady
  <2>4. pass.pc # "idle" => ~SameAge(pass.seen)'
    BY <2>1, <2>2, Numbers DEF ReportInv, VersionInv, SameAge
  <2>5. QED
    BY <2>1, <2>2, <2>3, <2>4, ReportLeftBehind DEF Exists
<1>4. ASSUME NEW w \in Workers, ClientStep(w) \/ Abandon(w) PROVE ReportInv'
  <2>1. CASE Replace(w) /\ Wins(w)
    BY <2>1, ReportReplace
  <2>2. CASE ~(Replace(w) /\ Wins(w))
    <3>1. UNCHANGED <<cell, controllerVars, namespaceVars>>
      BY <1>4, <2>2, ClientType
         DEF ClientStep, ReadInstance, ReadState, GetCell, ReadDeletions, Replace,
             Observe, Mark, Abandon
    <3>2. QED
      BY <3>1, ReportFrame DEF controllerVars, namespaceVars, Exists
  <2>3. QED
    BY <2>1, <2>2
<1>5. CASE Teardown
  <2>1. /\ cell'.phase = "gone" /\ cell'.status = cell.status /\ cell'.meta = cell.meta
        /\ pass' = NoPass
    BY <1>5, Numbers DEF Teardown, Cells
  <2>2. VersionInv' /\ ~Exists'
    BY <2>1, NothingKnown DEF ReportInv, VersionInv, Exists
  <2>3. QED
    BY <2>2 DEF ReportInv, PrunedInv, ReadyInv
<1>6. CASE PassFails
  BY <1>6, ReportEnd DEF PassFails, namespaceVars
<1>7. CASE Interrupt
  BY <1>7, ReportEnd DEF Interrupt, namespaceVars
<1>8. CASE Release
  <2>1. UNCHANGED <<cell, pass, memory, running>> /\ volumes' \subseteq volumes
    BY <1>8 DEF Release
  <2>2. VersionInv'
    BY <2>1 DEF ReportInv, VersionInv, SameAge
  <2>3. PrunedInv'
    BY <2>1 DEF ReportInv, PrunedInv, Known, Exists, Swept, Deployed
  <2>4. ReadyInv'
    BY <2>1 DEF ReportInv, ReadyInv, SaysReady, Exists, Swept, Rolled, Deployed
  <2>5. QED
    BY <2>2, <2>3, <2>4 DEF ReportInv
<1>9. CASE Refuse \/ Watch
  BY <1>9 DEF Calm, Refuse, Watch
<1>10. QED
  BY <1>1, <1>2, <1>3, <1>4, <1>5, <1>6, <1>7, <1>8, <1>9, StepCases, ReportBegin,
     ReportPersist, ReportWrite, ReportPrune, ReportReport, ReportAnnounce
     DEF ControllerStep

(* A resource that shows the desired revision and generation ready runs    *)
(* exactly the desired rollouts, and the data to be deleted is gone.       *)
THEOREM ReadyTellsTheTruth == ASSUME Calm PROVE ReconcileSpec => []ReadyIsTrue
<1>1. ASSUME TypeInv, OrderInv, SparesDeployed, ReportInv PROVE ReadyIsTrue
  <2> SUFFICES ASSUME Exists, ShowsReady(cell, revision, generation)
               PROVE  /\ \A c \in Components : running[c] = Config[revision][c]
                      /\ cell.spec.deleted \intersect volumes = {}
    BY DEF ReadyIsTrue
  <2>1. cell.spec.generation = generation
    <3>1. generation <= cell.spec.generation /\ cell.spec.generation <= generation
      BY <1>1 DEF ShowsReady, OrderInv, Behind
    <3>2. generation \in Nat /\ cell.spec.generation \in Nat
      BY <1>1, Numbers DEF TypeInv, ReconcileTypeOK, TypeOK
    <3>3. QED
      BY <3>1, <3>2
  <2>2. SaysReady
    BY <2>1 DEF ShowsReady, SaysReady
  <2>3. cell.spec.revision = revision /\ Swept(cell.spec) /\ Rolled(cell.spec)
    BY <1>1, <2>2 DEF ReportInv, ReadyInv, ShowsReady
  <2>4. \A c \in Components : running[c] = Config[revision][c]
    BY <2>3 DEF Swept, Rolled, Deployed
  <2>5. cell.spec.deleted \subseteq Components
    BY <1>1, Numbers DEF Cells, Specs
  <2>6. cell.spec.deleted \intersect volumes = {}
    BY <1>1, <2>1, <2>3, <2>5 DEF SparesDeployed, Swept
  <2>7. QED
    BY <2>4, <2>6
<1>2. ReportInv /\ TypeInv /\ OrderInv /\ NamespaceInv /\ [ReconcileNext]_reconcileVars
        => ReportInv'
  BY ReportKept
<1>3. QED
  BY <1>1, <1>2, ReportInit, TypeInvHolds, OrderInvHolds, SparesHolds, NamespaceHolds, PTL
     DEF ReconcileSpec

-----------------------------------------------------------------------------
(* The contract of the cell (CellContract), with the order of generations  *)
(* and the deletions as the inductive invariant.                           *)

\* A cache or a pass that knows of a resource means that there was one.
Appeared ==
    /\ cache.phase # "none" => cell.phase # "none"
    /\ pass.pc # "idle" => cell.phase # "none"

\* Of the controller's steps only the teardown moves the resource on: a status
\* is written to the resource as it is.
LEMMA ControllerPhase ==
    ASSUME TypeInv, ControllerStep \/ Release \/ Refuse \/ Interrupt \/ Watch, ~Teardown
    PROVE  cell'.phase = cell.phase
<1>1. /\ cell \in Cells /\ workers \in [Workers -> Tasks]
  BY DEF TypeInv, ReconcileTypeOK
<1>2. ASSUME NEW known, NEW status \in Statuses, WriteStatus(known, status)
      PROVE  cell'.phase = cell.phase
  BY <1>1, <1>2, WriteStatusType
<1>3. CASE BeginCleanup \/ BeginObserve \/ BeginApply \/ WriteComponent \/ Prune
           \/ Release \/ PassFails \/ Interrupt \/ Watch
  BY <1>3 DEF BeginCleanup, BeginObserve, BeginApply, Enter, WriteComponent, Prune,
              Release, PassFails, Interrupt, Watch
<1>4. CASE PersistInventory \/ Report \/ AnnounceCleanup \/ Refuse
  <2>1. CASE UNCHANGED cell
    BY <2>1
  <2>2. CASE PersistInventory /\ pass.pc # "idle"
    BY <1>2, <2>1, <2>2, StatusTypes DEF PersistInventory, TypeInv
  <2>3. CASE Report \/ AnnounceCleanup \/ Refuse
    BY <1>2, <2>3, StatusTypes DEF Report, AnnounceCleanup, Refuse, TypeInv
  <2>4. QED
    BY <1>4, <2>2, <2>3 DEF PersistInventory
<1>5. QED
  BY <1>3, <1>4 DEF ControllerStep

\* The life of the resource: created once, deleted once, torn down once.
LEMMA PhaseMoves ==
    ASSUME TypeInv, [ReconcileNext]_reconcileVars
    PROVE  \/ cell'.phase = cell.phase
           \/ CreateCell /\ cell'.phase = "open" /\ cell.phase = "none"
           \/ DeleteCell /\ cell'.phase = "deleting" /\ cell.phase = "open"
           \/ Teardown /\ cell'.phase = "gone"
<1>1. /\ cell \in Cells /\ workers \in [Workers -> Tasks] /\ pass \in Passes
  BY DEF TypeInv, ReconcileTypeOK
<1>2. CASE CreateCell \/ DeleteCell
  BY <1>1, <1>2 DEF CreateCell, DeleteCell, Cells
<1>3. CASE Edit \/ Close \/ UNCHANGED reconcileVars
  BY <1>3 DEF Edit, Close, reconcileVars
<1>4. ASSUME NEW w \in Workers, ClientStep(w) \/ Abandon(w)
      PROVE  cell'.phase = cell.phase
  <2>1. CASE Replace(w)
    BY <1>1, <2>1 DEF Replace, Replacement, Cells
  <2>2. QED
    BY <1>4, <2>1 DEF ClientStep, ReadInstance, ReadState, GetCell, ReadDeletions,
                      Observe, Mark, Abandon
<1>5. CASE ControllerStep \/ Release \/ Refuse \/ Interrupt \/ Watch
  <2>1. CASE Teardown
    BY <1>1, <2>1 DEF Teardown, Cells
  <2>2. QED
    BY <1>5, <2>1, ControllerPhase
<1>6. QED
  BY <1>2, <1>3, <1>4, <1>5, StepCases

\* Nothing is cached and no pass runs at first.
LEMMA AppearedInit == ReconcileInit => Appeared
  BY DEF ReconcileInit, Appeared, NewCell, NoPass

\* Whoever enters a pass read a resource, now or when the watch delivered it.
LEMMA AppearedKept ==
    ASSUME TypeInv, Appeared, [ReconcileNext]_reconcileVars
    PROVE  Appeared'
<1>1. cell.phase # "none" => cell'.phase # "none"
  BY PhaseMoves
<1>2. \/ cache' = cache
      \/ cache' = cell /\ cell'.phase = cell.phase
      \/ cell'.phase # "none"
  <2>1. CASE ControllerStep \/ Release \/ Refuse \/ Interrupt \/ Watch
    BY <2>1, PhaseMoves, ControllerMoves
  <2>2. ASSUME NEW w \in Workers, ClientStep(w) \/ Abandon(w)
        PROVE  cache' = cache
    BY <2>2, ClientType DEF controllerVars
  <2>3. QED
    BY <2>1, <2>2, StepCases
       DEF Edit, Close, CreateCell, DeleteCell, controllerVars, reconcileVars
<1>3. pass'.pc # "idle" => pass.pc # "idle" \/ cell.phase # "none"
  <2>1. NoPass.pc = "idle"
    BY DEF NoPass
  <2>2. CASE BeginCleanup \/ BeginObserve \/ BeginApply
    BY <2>2 DEF BeginCleanup, BeginObserve, BeginApply, Cached, Appeared
  <2>3. CASE PersistInventory \/ WriteComponent \/ Prune \/ Report \/ AnnounceCleanup
             \/ Teardown \/ PassFails \/ Refuse
    BY <2>1, <2>3 DEF PersistInventory, WriteComponent, Prune, Report, AnnounceCleanup,
                      Teardown, PassFails, Refuse
  <2>4. CASE Release \/ Interrupt \/ Watch
    BY <2>1, <2>4 DEF Release, Interrupt, Watch
  <2>5. ASSUME NEW w \in Workers, ClientStep(w) \/ Abandon(w)
        PROVE  pass' = pass
    BY <2>5, ClientType DEF controllerVars
  <2>6. QED
    BY <2>2, <2>3, <2>4, <2>5, StepCases
       DEF ControllerStep, Edit, Close, CreateCell, DeleteCell, controllerVars,
           reconcileVars
<1>4. QED
  BY <1>1, <1>2, <1>3 DEF Appeared

\* So it is in every state.
LEMMA AppearedHolds == ReconcileSpec => []Appeared
  BY TypeInvHolds, AppearedInit, AppearedKept, PTL DEF ReconcileSpec

\* accept_update adds what the plan deletes to what was ever given up.
LEMMA GivenAfterAccept ==
    ASSUME TypeOK, NEW k, NEW p, AcceptChange(k, p)
    PROVE  PendingDeletedData(1)' = PendingDeletedData(1) \union DeletedData(p)
<1>1. PendingPlans(1)' = PendingPlans(1) \union {p}
  <2> DEFINE new == [generation |-> generation + 1, key |-> k, plan |-> p]
  <2>1. updates' = updates \union {new}
    BY DEF AcceptChange
  <2>2. new.generation > 1 /\ new.plan = p
    BY DEF TypeOK
  <2> HIDE DEF new
  <2>3. QED
    BY <2>1, <2>2 DEF PendingPlans
<1>2. QED
  BY <1>1 DEF PendingDeletedData

\* What was given up depends on the edits alone, not on what is applied.
LEMMA GivenUnchanged ==
    ASSUME UNCHANGED updates
    PROVE  UNCHANGED PendingDeletedData(1)
  BY DEF PendingDeletedData, PendingPlans

\* One edit, delivered and settled by definition, and no resource.
LEMMA ContractInit == ReconcileInit => Contract!Init
  BY DEF ReconcileInit, Contract!Init, NewCell, PendingDeletedData, PendingPlans

\* An accepted edit takes the next number.
LEMMA ContractEdit ==
    ASSUME TypeInv, Edit
    PROVE  Contract!Next
<1>1. PICK target \in Revisions, d \in BOOLEAN, S \in SUBSET retained :
          AcceptChange(generation + 1, PlanOf(target, d, S))
  BY DEF Edit
<1> DEFINE p == PlanOf(target, d, S)
<1>2. TypeOK
  BY DEF TypeInv, ReconcileTypeOK
<1>3. DeletedData(p) \in SUBSET Components
  BY <1>1, <1>2 DEF PlanOf, DeletedData, Removed, Deployed, TypeOK
<1>4. PendingDeletedData(1)' = PendingDeletedData(1) \union DeletedData(p)
  BY <1>1, <1>2, GivenAfterAccept
<1>5. /\ ~closing /\ generation' = generation + 1
      /\ UNCHANGED <<closing, applied, cell, volumes>>
  BY <1>1 DEF AcceptChange, Edit, namespaceVars
<1> HIDE DEF p
<1>6. Contract!Accept(DeletedData(p))
  BY <1>4, <1>5 DEF Contract!Accept, Contract!resource
<1>7. QED
  BY <1>3, <1>6 DEF Contract!Next

\* A replacement that wins its fence delivers a number between the one on the
\* resource and the newest, and finds the resource open.
LEMMA ContractDeliver ==
    ASSUME TypeInv, OrderInv, NEW w \in Workers, Replace(w), Wins(w)
    PROVE  Contract!Next
<1>1. /\ cell \in Cells /\ workers[w] \in Tasks /\ generation \in Nat
  BY DEF TypeInv, ReconcileTypeOK, TypeOK
<1>2. /\ cell.spec.generation \in Nat /\ workers[w].generation \in Nat
  BY <1>1 DEF Cells, Specs, Tasks
<1>3. /\ cell.phase = "open"
      /\ cell.spec.generation <= workers[w].generation
      /\ workers[w].generation <= generation
  BY DEF Wins, OrderInv, TaskInOrder, Open
<1>4. /\ cell'.spec.generation = workers[w].generation
      /\ cell'.phase = cell.phase
  <2>1. cell' = Replacement(w)
    BY DEF Replace
  <2>2. QED
    BY <1>1, <2>1 DEF Replacement, Cells
<1>5. UNCHANGED <<generation, closing, applied, volumes>>
      /\ UNCHANGED PendingDeletedData(1)
  BY GivenUnchanged DEF Replace, ledgerVars, namespaceVars
<1>6. Contract!Deliver(workers[w].generation)
  BY <1>3, <1>4, <1>5 DEF Contract!Deliver, Contract!edits
<1>7. workers[w].generation \in cell.spec.generation..generation
  BY <1>1, <1>2, <1>3
<1>8. QED
  BY <1>6, <1>7 DEF Contract!Next

\* A mark of the desired generation found that generation on the resource.
LEMMA ContractSettle ==
    ASSUME TypeInv, OrderInv, NEW w \in Workers, Mark(w)
    PROVE  Contract!Next \/ UNCHANGED Contract!contractVars
<1>1. CASE UNCHANGED ledgerVars
  BY <1>1, GivenUnchanged
     DEF Mark, ledgerVars, namespaceVars, Contract!contractVars, Contract!edits,
         Contract!resource
<1>2. CASE MarkUpdateApplied(workers[w].generation)
  <2> DEFINE g == workers[w].generation
  <2>1. /\ g = generation /\ applied' = IF applied > g THEN applied ELSE g
        /\ UNCHANGED <<generation, closing, updates, cell, volumes>>
    BY <1>2 DEF MarkUpdateApplied, ReportsDesired, Mark, namespaceVars
  <2>2. /\ generation \in Nat /\ applied <= generation /\ applied \in Nat
        /\ cell.spec.generation \in Nat
    BY DEF TypeInv, ReconcileTypeOK, TypeOK, Cells, Specs
  <2>3. g <= cell.spec.generation /\ cell.spec.generation <= generation
    BY DEF OrderInv, TaskInOrder, Mark
  <2> HIDE DEF g
  <2>4. cell.spec.generation = generation /\ applied' = generation
    BY <2>1, <2>2, <2>3
  <2>5. Contract!Settle
    BY <2>1, <2>4, GivenUnchanged
       DEF Contract!Settle, Contract!edits, Contract!resource
  <2>6. QED
    BY <2>5 DEF Contract!Next
<1>3. QED
  BY <1>1, <1>2 DEF Mark

\* Every other step of a task only reads.
LEMMA ContractClient ==
    ASSUME TypeInv, OrderInv, NEW w \in Workers, ClientStep(w) \/ Abandon(w)
    PROVE  Contract!Next \/ UNCHANGED Contract!contractVars
<1>1. CASE UNCHANGED <<ledgerVars, cell, namespaceVars>>
  BY <1>1, GivenUnchanged
     DEF ledgerVars, namespaceVars, Contract!contractVars, Contract!edits,
         Contract!resource
<1>2. CASE Replace(w)
  BY <1>1, <1>2, ContractDeliver DEF Replace
<1>3. QED
  BY <1>1, <1>2, ContractSettle
     DEF ClientStep, ReadInstance, ReadState, GetCell, ReadDeletions, Observe, Abandon

\* The steps that provide or erase data: a component's write, the release of a
\* claim whose deletion the delivered spec asked for, and the teardown.
LEMMA ContractNamespace ==
    ASSUME TypeInv, OrderInv, DeletionInv, Appeared,
           WriteComponent \/ Release \/ Teardown
    PROVE  Contract!Next
<1>1. /\ UNCHANGED <<generation, closing, applied>> /\ UNCHANGED PendingDeletedData(1)
  <2>1. UNCHANGED ledgerVars
    BY ControllerOrder DEF ControllerStep
  <2>2. QED
    BY <2>1, GivenUnchanged DEF ledgerVars
<1>2. CASE WriteComponent
  <2>1. PICK c \in Wanted : volumes' = volumes \union {c}
    BY <1>2 DEF WriteComponent
  <2>2. c \in Components
    BY <2>1 DEF Wanted, Deployed
  <2>3. cell.phase # "none" /\ cell' = cell
    BY <1>2 DEF WriteComponent, Appeared
  <2>4. Contract!Provision(c)
    BY <1>1, <2>1, <2>3 DEF Contract!Provision, Contract!edits, Contract!resource
  <2>5. QED
    BY <2>2, <2>4 DEF Contract!Next
<1>3. CASE Release
  <2>1. PICK c \in releasing : volumes' = volumes \ {c}
    BY <1>3 DEF Release
  <2>2. c \in PendingDeletedData(1) /\ c \in Components /\ cell' = cell
    BY <1>3 DEF Release, DeletionInv, TypeInv, ReconcileTypeOK
  <2>3. Contract!Erase(c)
    BY <1>1, <2>1, <2>2 DEF Contract!Erase, Contract!edits, Contract!resource
  <2>4. QED
    BY <2>2, <2>3 DEF Contract!Next
<1>4. CASE Teardown
  <2>1. cell \in Cells
    BY DEF TypeInv, ReconcileTypeOK
  <2>2. /\ cell.phase = "deleting" /\ cell'.phase = "gone" /\ cell'.spec = cell.spec
        /\ volumes' = {}
    BY <1>4, <2>1 DEF Teardown, Exists, DeletionInv, Leaving, Cells
  <2>3. Contract!Teardown
    BY <1>1, <2>2 DEF Contract!Teardown, Contract!edits
  <2>4. QED
    BY <2>3 DEF Contract!Next
<1>5. QED
  BY <1>2, <1>3, <1>4

\* Every step keeps the contract or leaves all that it speaks of alone.
LEMMA ContractStep ==
    ASSUME TypeInv, OrderInv, DeletionInv, Appeared, [ReconcileNext]_reconcileVars
    PROVE  Contract!Next \/ UNCHANGED Contract!contractVars
<1>1. CASE Close
  BY <1>1, GivenUnchanged
     DEF Close, BeginInstanceClose, editVars, namespaceVars, Contract!Next,
         Contract!Close, Contract!resource
<1>2. CASE CreateCell \/ DeleteCell
  <2>1. cell'.spec = cell.spec /\ UNCHANGED <<ledgerVars, volumes>>
    BY <1>2 DEF CreateCell, DeleteCell, TypeInv, ReconcileTypeOK, Cells, namespaceVars
  <2>2. UNCHANGED <<generation, closing, applied>> /\ UNCHANGED PendingDeletedData(1)
    BY <2>1, GivenUnchanged DEF ledgerVars
  <2>3. Contract!Create \/ Contract!Delete
    BY <1>2, <2>1, <2>2
       DEF CreateCell, DeleteCell, TypeInv, ReconcileTypeOK, Cells, Contract!Create,
           Contract!Delete, Contract!edits
  <2>4. QED
    BY <2>3 DEF Contract!Next
<1>3. CASE ControllerStep \/ Release \/ Refuse \/ Interrupt \/ Watch
  <2>1. CASE WriteComponent \/ Release \/ Teardown
    BY <2>1, ContractNamespace
  <2>2. CASE ~(WriteComponent \/ Release \/ Teardown)
    <3>1. cell'.spec = cell.spec /\ UNCHANGED ledgerVars
      BY <1>3, ControllerOrder
    <3>2. cell'.phase = cell.phase
      BY <1>3, <2>2, ControllerPhase
    <3>3. volumes' = volumes
      BY <1>3, <2>2
         DEF ControllerStep, BeginCleanup, BeginObserve, BeginApply, Enter,
             PersistInventory, Prune, Report, AnnounceCleanup, PassFails, Refuse,
             Interrupt, Watch, namespaceVars
    <3>4. QED
      BY <3>1, <3>2, <3>3, GivenUnchanged
         DEF ledgerVars, Contract!contractVars, Contract!edits, Contract!resource
  <2>3. QED
    BY <2>1, <2>2
<1>4. CASE UNCHANGED reconcileVars
  BY <1>4, GivenUnchanged
     DEF reconcileVars, ledgerVars, namespaceVars, Contract!contractVars,
         Contract!edits, Contract!resource
<1>5. QED
  BY <1>1, <1>2, <1>3, <1>4, ContractEdit, ContractClient, StepCases

(* Journal, clients and controller implement the contract of the cell: for *)
(* any number of tasks and faults, however the watch lags and whatever is  *)
(* refused, they are seen from outside as CellContract.                    *)
THEOREM CellImplementsContract == ReconcileSpec => CellKeepsContract
<1>1. TypeInv /\ OrderInv /\ DeletionInv /\ Appeared /\ [ReconcileNext]_reconcileVars
        => [Contract!Next]_Contract!contractVars
  BY ContractStep
<1>2. QED
  BY <1>1, ContractInit, TypeInvHolds, OrderInvHolds, DeletionInvHolds, AppearedHolds, PTL
     DEF ReconcileSpec, CellKeepsContract, Contract!Spec
=============================================================================
