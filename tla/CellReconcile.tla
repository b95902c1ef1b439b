--------------------------- MODULE CellReconcile ---------------------------
(***************************************************************************)
(* How the journal's desired revision reaches the cluster.                 *)
(*                                                                         *)
(* Clients (the CLI, the MCP server, the recovery loop, the GUI observer)  *)
(* run reconcile_once: two reads of the journal, a read of the             *)
(* ProofstormCell resource, another read of the journal, a replace fenced  *)
(* by resourceVersion and a mark of the journal.  Every one of these is a  *)
(* step of its own.  A waiting client (cell::wait) marks the journal too.  *)
(*                                                                         *)
(* proofstormd runs one pass at a time over a resource: it works from the  *)
(* copy it took at the start and writes its status without a fence.        *)
(*                                                                         *)
(* One incarnation, already materialized in the journal.  Operations are   *)
(* in CellLedger; here the tables they live in do not change.              *)
(***************************************************************************)
EXTENDS CellLedger

CONSTANTS
    Workers,      \* client tasks that reconcile or wait
    Recovery,     \* the task of start_recovery, one of Workers when it runs
    WatchLag,     \* the controller's cache may lag behind its own writes
    Refusals,     \* a pass may end in a permanent error
    MaxFaults     \* bound on timeouts, failed passes, restarts, lost probes

ASSUME ReconcileAssumption ==
    /\ Absent \notin Revisions
    /\ 2..MaxGeneration \subseteq Keys   \* every edit has a request key of its own
    /\ {WatchLag, Refusals} \subseteq BOOLEAN
    /\ MaxFaults \in Nat

VARIABLES
    cell,       \* the ProofstormCell resource
    workers,    \* local state of every client task
    pass,       \* local state of the controller's current pass
    memory,     \* probes::Applied, the controller's memory of its last pass
    cache,      \* the controller's watch cache of the resource
    running,    \* rollout of each component's workload in the namespace
    volumes,    \* components with a data claim in the namespace
    releasing,  \* claims whose deletion was requested and is not over
    faults      \* faults so far

controllerVars == <<pass, memory, cache>>
namespaceVars  == <<running, volumes, releasing>>
reconcileVars  == <<ledgerVars, cell, workers, controllerVars, namespaceVars,
                    faults>>

-----------------------------------------------------------------------------
(* The resource.  spec.generation and spec.deleted are the annotations     *)
(* desired-generation and delete-component-data; meta is                   *)
(* metadata.generation, which annotations do not advance.                  *)

NoStatus == [phase |-> "Pending", revision |-> Absent, generation |-> 0,
             meta |-> 0, inventory |-> {}]

NewCell(phase, r) ==
    [phase  |-> phase,
     spec   |-> [revision |-> r, generation |-> 1, deleted |-> {}],
     meta   |-> 1,
     status |-> NoStatus]

Exists == cell.phase \in {"open", "deleting"}

\* require_open_cell.
Open(c) == c.phase = "open" /\ c.status.phase # "Closing"

\* Faulty variant: the desired generation of the status is not compared.
ShowsReadyAnyGeneration(c, r, g) ==
    /\ c.status.phase = "Ready"
    /\ c.status.revision = r
    /\ c.status.meta = c.meta
\* When the status is evidence that revision r, generation g, is ready.
ShowsReady(c, r, g) ==
    /\ c.status.phase = "Ready"
    /\ c.status.generation = g
    /\ c.status.revision = r
    /\ c.status.meta = c.meta

\* A write of the resource makes every earlier read of it stale.
Outdated(ws) == [w \in Workers |-> [ws[w] EXCEPT !.fresh = FALSE]]

-----------------------------------------------------------------------------
(* Local states.                                                           *)

Idle == [pc |-> "idle", revision |-> Absent, read |-> 0, generation |-> 0,
         deleted |-> {}, fresh |-> FALSE]

NoPass   == [pc |-> "idle", seen |-> NewCell("none", Absent), status |-> NoStatus]
NoMemory == [spec |-> NewCell("none", Absent).spec, pruned |-> FALSE,
             inventory |-> {}]

ReconcileInit ==
    /\ live = TRUE
    /\ incarnation = 1
    /\ revision \in Revisions
    /\ generation = 1
    /\ applied = 1
    /\ closing = FALSE
    /\ updates = {}
    /\ retained = {}
    /\ operations = {}
    /\ updateReceipts = {}
    /\ operationReceipts = {}
    /\ cell = NewCell("none", revision)
    /\ workers = [w \in Workers |-> Idle]
    /\ pass = NoPass
    /\ memory = NoMemory
    /\ cache = cell
    /\ running = [c \in Components |-> Absent]
    /\ volumes = {}
    /\ releasing = {}
    /\ faults = 0

-----------------------------------------------------------------------------
(* The journal.                                                            *)

\* A plan reviewed against the current state; CellLedger has the stale ones,
\* and those whose delete_data has nothing to delete.
PlanOf(target, delete_data, delete_retained) ==
    [instance_key        |-> incarnation,
     base                |-> revision,
     target              |-> target,
     expected_generation |-> generation,
     delete_data         |-> delete_data,
     delete_retained     |-> delete_retained]

Edit ==
    /\ \E target \in Revisions, d \in BOOLEAN, S \in SUBSET retained :
         /\ d => Removed(PlanOf(target, d, S)) # {}
         /\ AcceptChange(generation + 1, PlanOf(target, d, S))
    /\ UNCHANGED <<cell, workers, controllerVars, namespaceVars, faults>>

Close ==
    /\ BeginInstanceClose
    /\ ~closing
    /\ UNCHANGED <<cell, workers, controllerVars, namespaceVars, faults>>

\* Runtime::materialize creates the resource at the revision materialized,
\* whatever was accepted since.
CreateCell ==
    /\ cell.phase = "none"
    /\ cell' = [cell EXCEPT !.phase = "open"]
    /\ UNCHANGED <<ledgerVars, workers, controllerVars, namespaceVars, faults>>

\* Runtime::close, or a deletion outside the program.
DeleteCell ==
    /\ cell.phase = "open"
    /\ cell' = [cell EXCEPT !.phase = "deleting", !.meta = @ + 1]
    /\ workers' = Outdated(workers)
    /\ UNCHANGED <<ledgerVars, controllerVars, namespaceVars, faults>>

-----------------------------------------------------------------------------
(* reconcile_once and wait.                                                *)

\* Faulty variant: the newest edit is not counted.
PendingOfTwo == generation > applied + 1 /\ ~closing
\* pending_updates: what start_recovery and the observer take up.
PendingUpdate == generation > applied /\ ~closing

To(w, state) == workers' = [workers EXCEPT ![w] = state]

\* store.instance reads the revision and the generation in one statement.
ReadInstance(w) ==
    /\ workers[w].pc = "idle"
    /\ w = Recovery => PendingUpdate
    /\ \E pc \in {"state", "observe"} :
         /\ pc = "observe" => w # Recovery
         /\ To(w, [Idle EXCEPT !.pc = pc, !.revision = revision,
                               !.read = generation])
    /\ UNCHANGED <<ledgerVars, cell, controllerVars, namespaceVars, faults>>

\* store.update_state.
ReadState(w) ==
    /\ workers[w].pc = "state"
    /\ To(w, IF closing THEN Idle
             ELSE [workers[w] EXCEPT !.pc = "get", !.generation = generation])
    /\ UNCHANGED <<ledgerVars, cell, controllerVars, namespaceVars, faults>>

Superseded(w) == cell.spec.generation > workers[w].generation

InPlace(w) ==
    /\ cell.spec.revision = workers[w].revision
    /\ cell.spec.generation = workers[w].generation

\* The task's verdict on resource c: it marks generation g, or is done.
Conclude(w, c, g) ==
    IF ShowsReady(c, workers[w].revision, workers[w].read)
    THEN [Idle EXCEPT !.pc = "mark", !.generation = g]
    ELSE Idle

\* cells.get_opt with the checks that follow it.
GetCell(w) ==
    /\ workers[w].pc = "get"
    /\ To(w, IF ~Open(cell) \/ Superseded(w) THEN Idle
             ELSE IF InPlace(w) THEN Conclude(w, cell, workers[w].generation)
             ELSE [workers[w] EXCEPT !.pc = "deletions", !.fresh = TRUE])
    /\ UNCHANGED <<ledgerVars, cell, controllerVars, namespaceVars, faults>>

\* store.pending_deleted_data.
ReadDeletions(w) ==
    /\ workers[w].pc = "deletions"
    /\ To(w, [workers[w] EXCEPT !.pc = "replace",
                                !.deleted = PendingDeletedData(applied)])
    /\ UNCHANGED <<ledgerVars, cell, controllerVars, namespaceVars, faults>>

\* Faulty variant: the replacement body carries no resourceVersion.
WinsAnyway(w) == Exists
\* The server accepts a replacement of the version that was read.
Wins(w) == Exists /\ workers[w].fresh

Replacement(w) ==
    [cell EXCEPT
        !.spec = [revision   |-> workers[w].revision,
                  generation |-> workers[w].generation,
                  deleted    |-> workers[w].deleted],
        !.meta = IF cell.spec.revision = workers[w].revision THEN @ ELSE @ + 1]

\* cells.replace; a conflict starts the task over.
Replace(w) ==
    /\ workers[w].pc = "replace"
    /\ IF Wins(w)
       THEN /\ cell' = Replacement(w)
            /\ workers' = [Outdated(workers) EXCEPT ![w] =
                              Conclude(w, Replacement(w), workers[w].generation)]
       ELSE /\ UNCHANGED cell
            /\ To(w, Idle)
    /\ UNCHANGED <<ledgerVars, controllerVars, namespaceVars, faults>>

\* runtime.status in observe_tracked.
Observe(w) ==
    /\ workers[w].pc = "observe"
    /\ To(w, IF Exists THEN Conclude(w, cell, workers[w].read) ELSE Idle)
    /\ UNCHANGED <<ledgerVars, cell, controllerVars, namespaceVars, faults>>

Mark(w) ==
    /\ workers[w].pc = "mark"
    /\ \/ MarkUpdateApplied(workers[w].generation)
       \/ ~ReportsDesired(workers[w].generation) /\ UNCHANGED ledgerVars
    /\ To(w, Idle)
    /\ UNCHANGED <<cell, controllerVars, namespaceVars, faults>>

\* A three-second timeout, a lost connection or the end of the process.
Abandon(w) ==
    /\ workers[w].pc # "idle"
    /\ faults < MaxFaults
    /\ faults' = faults + 1
    /\ To(w, Idle)
    /\ UNCHANGED <<ledgerVars, cell, controllerVars, namespaceVars>>

ClientStep(w) ==
    \/ ReadInstance(w)
    \/ ReadState(w)
    \/ GetCell(w)
    \/ ReadDeletions(w)
    \/ Replace(w)
    \/ Observe(w)
    \/ Mark(w)

-----------------------------------------------------------------------------
(* The controller.  A pass works from the copy it took when it began.      *)

Steady == UNCHANGED <<ledgerVars, cache>>

\* patch_status: a forced write of the whole status, skipped when it is the
\* one the pass knows.
WriteStatus(known, status) ==
    IF status = known
    THEN UNCHANGED <<cell, workers>>
    ELSE /\ Exists
         /\ cell' = [cell EXCEPT !.status = status]
         /\ workers' = Outdated(workers)

Watch ==
    /\ WatchLag
    /\ cache # cell
    /\ cache' = cell
    /\ UNCHANGED <<ledgerVars, cell, workers, pass, memory, namespaceVars, faults>>

\* probes.applied: the remembered pass had this spec and these annotations.
Remembers(c) == memory.spec = c.spec

Cached == IF WatchLag THEN cache ELSE cell

Enter(pc) ==
    /\ pass.pc = "idle"
    /\ pass' = [pc |-> pc, seen |-> Cached, status |-> Cached.status]
    /\ UNCHANGED <<cell, workers, namespaceVars, faults>> /\ Steady

BeginCleanup ==
    /\ Cached.phase = "deleting"
    /\ Enter("cleanup")
    /\ memory' = NoMemory

\* A remembered application is only observed, until it has aged.
BeginObserve ==
    /\ Cached.phase = "open"
    /\ Remembers(Cached)
    /\ Enter("report")
    /\ UNCHANGED memory

\* probes.register drops the memory of another revision.
BeginApply ==
    /\ Cached.phase = "open"
    /\ Enter("inventory")
    /\ memory' = IF memory.spec.revision = Cached.spec.revision
                 THEN memory ELSE NoMemory

ObservedSpec(c) ==
    /\ c.status.revision = c.spec.revision
    /\ c.status.generation = c.spec.generation

WithInventory(c) ==
    [c.status EXCEPT !.phase = "Pending",
                     !.inventory = @ \union Deployed(c.spec.revision)]

\* apply persists the intended inventory before the first component write.
PersistInventory ==
    /\ pass.pc = "inventory"
    /\ IF ObservedSpec(pass.seen)
       THEN /\ pass' = [pass EXCEPT !.pc = "write"]
            /\ UNCHANGED <<cell, workers>>
       ELSE /\ WriteStatus(pass.status, WithInventory(pass.seen))
            /\ pass' = [pass EXCEPT !.pc = "write",
                                    !.status = WithInventory(pass.seen)]
    /\ UNCHANGED <<memory, namespaceVars, faults>> /\ Steady

Wanted == Deployed(pass.seen.spec.revision)

Written(c) == running[c] = Config[pass.seen.spec.revision][c] /\ c \in volumes

\* One component's claim and workload.
WriteComponent ==
    /\ pass.pc = "write"
    /\ \E c \in Wanted :
         /\ ~Written(c)
         /\ running' = [running EXCEPT ![c] = Config[pass.seen.spec.revision][c]]
         /\ volumes' = volumes \union {c}
    /\ UNCHANGED <<cell, workers, pass, memory, releasing, faults>> /\ Steady

Remains(c) == running[c] # Absent \/ c \in volumes

\* Faulty variant: everything removed is deleted with its data.
DoomedWithData(c) == c \in volumes
\* Data of a removed component goes only when its deletion was requested.
Doomed(c) == c \in volumes /\ c \in pass.seen.spec.deleted

\* Faulty variant: a pass that still found something to delete is complete.
CompleteAtOnce(owned) == TRUE
PruneComplete(owned) == \A c \in owned : running[c] = Absent /\ ~Doomed(c)

\* Faulty variant: what a removed component left behind is forgotten.
InventoryWanted(owned) == Wanted
\* Pending removals and retained data stay in the inventory.
InventoryAfter(owned) == Wanted \union owned

\* prune: remove what the inventory owns and the spec does not want.  A
\* workload leaves the API at once, a claim when nothing uses it any more.
Prune ==
    LET owned == {c \in pass.status.inventory \ Wanted : Remains(c)}
    IN /\ pass.pc = "write"
       /\ \A c \in Wanted : Written(c)
       /\ running' = [c \in Components |-> IF c \in owned THEN Absent ELSE running[c]]
       /\ releasing' = releasing \union {c \in owned : Doomed(c)}
       /\ memory' = [spec |-> pass.seen.spec, pruned |-> PruneComplete(owned),
                     inventory |-> InventoryAfter(owned)]
       /\ pass' = [pass EXCEPT !.pc = "report"]
       /\ UNCHANGED <<cell, workers, volumes, faults>> /\ Steady

\* The storage protection of Kubernetes lets a deleted claim go.
Release ==
    /\ \E c \in releasing :
         /\ releasing' = releasing \ {c}
         /\ volumes' = volumes \ {c}
    /\ UNCHANGED <<cell, workers, pass, memory, running, faults>> /\ Steady

StatusOf(phase) ==
    [phase      |-> phase,
     revision   |-> pass.seen.spec.revision,
     generation |-> pass.seen.spec.generation,
     meta       |-> pass.seen.meta,
     inventory  |-> memory.inventory]

\* observe_cell: ready when pruning was complete and every component is.
AllReady == memory.pruned /\ \A c \in Wanted : Written(c)

Report ==
    /\ pass.pc = "report"
    /\ \/ /\ WriteStatus(pass.status, StatusOf(IF AllReady THEN "Ready" ELSE "Pending"))
          /\ UNCHANGED faults
       \/ /\ AllReady   \* a probe fails or its observation expires
          /\ faults < MaxFaults
          /\ faults' = faults + 1
          /\ WriteStatus(pass.status, StatusOf("Pending"))
    /\ pass' = NoPass
    /\ UNCHANGED <<memory, namespaceVars>> /\ Steady

\* reconciliation_failure_status: rendering failed, or the server refused a
\* write for good (400, 403, 413, 422).  The status is the one of the copy the
\* pass began with, and names the revision that was refused.
Refuse ==
    /\ pass.pc \in {"inventory", "write", "report"}
    /\ Refusals /\ faults < MaxFaults
    /\ faults' = faults + 1
    /\ WriteStatus(pass.seen.status,
                   [pass.seen.status EXCEPT !.phase = "Blocked",
                                            !.revision = pass.seen.spec.revision,
                                            !.generation = pass.seen.spec.generation,
                                            !.meta = pass.seen.meta])
    /\ memory' = NoMemory
    /\ pass' = NoPass
    /\ UNCHANGED namespaceVars /\ Steady

\* cleanup announces itself, then deletes the namespace and the finalizer.
AnnounceCleanup ==
    /\ pass.pc = "cleanup"
    /\ WriteStatus(pass.status,
                   [pass.status EXCEPT !.phase = "Closing",
                                       !.generation = pass.seen.spec.generation,
                                       !.meta = pass.seen.meta])
    /\ pass' = [pass EXCEPT !.pc = "teardown"]
    /\ UNCHANGED <<memory, namespaceVars, faults>> /\ Steady

Teardown ==
    /\ pass.pc = "teardown"
    /\ Exists
    /\ running' = [c \in Components |-> Absent]
    /\ volumes' = {}
    /\ releasing' = {}
    /\ cell' = [cell EXCEPT !.phase = "gone"]
    /\ workers' = Outdated(workers)
    /\ pass' = NoPass
    /\ UNCHANGED <<memory, faults>> /\ Steady

\* The resource vanished under the pass: the write fails.
PassFails ==
    /\ pass.pc # "idle"
    /\ ~Exists
    /\ pass' = NoPass
    /\ UNCHANGED <<cell, workers, memory, namespaceVars, faults>> /\ Steady

\* An API error ends the pass; a restart of the pod also loses the memory.
Interrupt ==
    /\ faults < MaxFaults
    /\ faults' = faults + 1
    /\ pass' = NoPass
    /\ \/ pass.pc # "idle" /\ UNCHANGED <<memory, cache>>
       \/ memory' = NoMemory /\ cache' = IF WatchLag THEN cell ELSE cache
    /\ UNCHANGED <<ledgerVars, cell, workers, namespaceVars>>

ControllerStep ==
    \/ BeginCleanup
    \/ BeginObserve
    \/ BeginApply
    \/ PersistInventory
    \/ WriteComponent
    \/ Prune
    \/ Report
    \/ AnnounceCleanup
    \/ Teardown
    \/ PassFails

-----------------------------------------------------------------------------
ReconcileNext ==
    \/ Edit
    \/ Close
    \/ CreateCell
    \/ DeleteCell
    \/ \E w \in Workers : ClientStep(w)
    \/ \E w \in Workers : Abandon(w)
    \/ Watch
    \/ ControllerStep
    \/ Release
    \/ Refuse
    \/ Interrupt

ReconcileSpec == ReconcileInit /\ [][ReconcileNext]_reconcileVars

(* start_recovery ticks every second for as long as a control client runs; *)
(* the controller requeues every cell, and what it remembers of the last   *)
(* application ages in at most 30 seconds; the API server delivers watches.*)
Fairness ==
    /\ WF_reconcileVars(CreateCell)
    /\ WF_reconcileVars(ClientStep(Recovery))
    /\ WF_reconcileVars(ControllerStep)
    /\ SF_reconcileVars(BeginApply)
    /\ WF_reconcileVars(Watch)
    /\ WF_reconcileVars(Release)

FairSpec == ReconcileSpec /\ Fairness

-----------------------------------------------------------------------------
(* Properties.                                                             *)

Statuses ==
    [phase : {"Pending", "Blocked", "Ready", "Closing"}, revision : Revisions \union {Absent},
     generation : 0..MaxGeneration, meta : Nat, inventory : SUBSET Components]

Specs ==
    [revision : Revisions \union {Absent}, generation : 1..MaxGeneration,
     deleted : SUBSET Components]

Cells ==
    [phase : {"none", "open", "deleting", "gone"}, spec : Specs, meta : Nat,
     status : Statuses]

Tasks ==
    [pc : {"idle", "state", "get", "deletions", "replace", "observe", "mark"},
     revision : Revisions \union {Absent}, read : 0..MaxGeneration,
     generation : 0..MaxGeneration, deleted : SUBSET Components, fresh : BOOLEAN]

Passes ==
    [pc : {"idle", "inventory", "write", "report", "cleanup", "teardown"},
     seen : Cells, status : Statuses]

\* Resource, tasks, pass and namespace keep their shape; a task that is under
\* way, a pass and the resource have a revision.
ReconcileTypeOK ==
    /\ TypeOK
    /\ {cell, cache} \subseteq Cells
    /\ workers \in [Workers -> Tasks]
    /\ pass \in Passes
    /\ memory \in [spec : Specs, pruned : BOOLEAN, inventory : SUBSET Components]
    /\ running \in [Components -> Rollouts \union {Absent}]
    /\ releasing \subseteq volumes /\ volumes \subseteq Components
    /\ faults \in Nat
    /\ Absent \notin {cell.spec.revision, cache.spec.revision}
    /\ pass.pc # "idle" => pass.seen.spec.revision # Absent
    /\ \A w \in Workers : workers[w].pc \notin {"idle", "mark"}
                               => workers[w].revision # Absent

\* The journal never claims more than the cluster got: the applied generation
\* is at most the one annotated on the resource, which is at most the desired
\* one, whatever order the tasks of several clients run in.
AppliedWasDelivered ==
    Exists => applied <= cell.spec.generation /\ cell.spec.generation <= generation

\* No client, however late, moves the resource back to an older desired
\* generation, and none touches a resource that is being deleted or is gone.
DeliveryNeverRegresses ==
    [][/\ cell'.spec.generation >= cell.spec.generation
       /\ ~Open(cell) => cell'.spec = cell.spec]_reconcileVars

\* A status that shows the desired revision and generation ready means that
\* the namespace runs exactly the desired rollouts, nothing removed, and that
\* every deletion of data the edit asked for is over.
ReadyIsTrue ==
    Exists /\ ShowsReady(cell, revision, generation)
        => /\ \A c \in Components : running[c] = Config[revision][c]
           /\ cell.spec.deleted \intersect volumes = {}

\* The data of a component disappears only with the cell, or because an
\* accepted edit asked for exactly that deletion.
DataGoesOnRequest ==
    [][\A c \in volumes \ volumes' :
        \/ cell.phase = "deleting"
        \/ c \in PendingDeletedData(1)]_reconcileVars

\* Whatever is in the namespace of an open cell is in the inventory on the
\* resource (cell_updates.rs: "Keep pending removals in inventory until actual
\* deletion is observed"), so that the pass after the next edit, a crash or a
\* failed write can prune it.
InventoryCoversNamespace ==
    cell.phase = "open" =>
        \A c \in Components : Remains(c) => c \in cell.status.inventory

\* Journal, clients and controller keep the contract of the cell: acceptance
\* numbers the edits, a replacement delivers one, mark_update_applied settles
\* the newest, and a claim is provided by a pass and erased by its release.
Contract == INSTANCE CellContract WITH
    desired   <- generation,
    delivered <- cell.spec.generation,
    settled   <- applied,
    closed    <- closing,
    phase     <- cell.phase,
    given     <- PendingDeletedData(1),
    data      <- volumes

CellKeepsContract == Contract!Spec

\* An accepted edit is marked applied, unless the cell is closed or deleted.
EditSettles ==
    generation > applied ~> \/ generation = applied
                            \/ closing
                            \/ cell.phase \in {"deleting", "gone"}

\* apply.rs: an accepted edit whose delivery failed is delivered by recovery.
RecoveryDelivers ==
    cell.spec.revision # revision ~> \/ cell.spec.revision = revision
                                     \/ closing
                                     \/ cell.phase \in {"deleting", "gone"}
=============================================================================
