--------------------------- MODULE CellLifecycle ---------------------------
(***************************************************************************)
(* One cell name from its reservation to the purge of its records.         *)
(*                                                                         *)
(* Client processes share the journal and one lifecycle lock, and act on   *)
(* the cluster their kube context selects.  A name is created (up, or a    *)
(* reviewed preview), closed, and swept; each of these takes the lock,     *)
(* compares journal and cluster, and only purges the records of an         *)
(* incarnation whose resource and namespace are gone.  A process may die   *)
(* at any call; its lock is released by SQLite, its request may be late.   *)
(***************************************************************************)
EXTENDS Naturals, FiniteSets

CONSTANTS
    Ups,             \* tasks that run cell up on the name
    Previews,        \* tasks that commit one reviewed preview, and retry it
    Closers,         \* tasks that close the incarnation they looked up
    Sweepers,        \* recovery loops
    Home,            \* the kube context every task has selected
    Unbound,         \* no context
    Events,          \* what may go wrong: subset of PossibleEvents
    MaxEvents,       \* bound on what goes wrong
    MaxIncarnation,  \* bound on incarnations of the name
    MaxResources     \* bound on resources created

Tasks   == Ups \union Previews \union Closers \union Sweepers
Sources == {Home[t] : t \in Tasks}

PossibleEvents == {"crash",     \* a process dies or its connection fails
                   "late",      \* the create request of a dead process lands
                   "replace",   \* the cluster behind a context is recreated
                   "force"}     \* finalizers are removed by hand

ASSUME LifecycleAssumption ==
    /\ Unbound \notin Tasks \union Sources
    /\ Events \subseteq PossibleEvents
    /\ {MaxEvents, MaxIncarnation, MaxResources} \subseteq Nat

VARIABLES
    handle,        \* incarnation the name refers to, 0 when the name is free
    row,           \* the incarnation's rows: instance, closing, binding
    admitted,      \* preview_admissions: what each preview was admitted as
    incarnations,  \* incarnations so far
    lock,          \* holder of the lifecycle lock, Unbound when free
    tasks,         \* local state of every task
    cells,         \* ProofstormCell resources of the name, in every cluster
    namespaces,    \* instance namespaces, with their state
    cluster,       \* uid of the cluster behind every context
    created,       \* resources created so far; the last uid given
    late,          \* create requests of dead processes that did not land yet
    events         \* number of events so far

journalVars == <<handle, row, admitted, incarnations>>
clusterVars == <<cells, namespaces, cluster, created>>
lifecycleVars ==
    <<journalVars, lock, tasks, clusterVars, late, events>>

-----------------------------------------------------------------------------
NoRow == [live |-> FALSE, closing |-> FALSE, source |-> Unbound, cluster |-> 0,
          uid |-> 0]

Idle == [pc |-> "idle", inc |-> 0, cluster |-> 0]

Resources(s, i) == {c \in cells : c.source = s /\ c.inc = i}

\* The resource carries a deletion timestamp.
Deleted(c) == c.phase \in {"deleting", "cleanup"}

HasNamespace(s, i) == \E n \in namespaces : n.source = s /\ n.inc = i

LifecycleInit ==
    /\ handle = 0
    /\ row = NoRow
    /\ admitted = [p \in Previews |-> 0]
    /\ incarnations = 0
    /\ lock = Unbound
    /\ tasks = [t \in Tasks |-> Idle]
    /\ cells = {}
    /\ namespaces = {}
    /\ cluster = [s \in Sources |-> 1]
    /\ created = 0
    /\ late = {}
    /\ events = 0

-----------------------------------------------------------------------------
(* Control flow of a task.                                                 *)

At(t, pc) == tasks[t].pc = pc

Goto(t, pc) == tasks' = [tasks EXCEPT ![t].pc = pc] /\ UNCHANGED lock

\* Success or error: the guard is dropped.
Finish(t) ==
    /\ tasks' = [tasks EXCEPT ![t] = Idle]
    /\ lock' = Unbound

\* What happens after reconcile_name.
Reconciled(t) == IF t \in Ups THEN Goto(t, "resolve") ELSE Finish(t)

NoJournal == UNCHANGED <<journalVars, late, events>>
NoCluster == UNCHANGED clusterVars

-----------------------------------------------------------------------------
\* A close looks the incarnation up before it asks for the lock.
Target(t) ==
    /\ t \in Closers
    /\ At(t, "idle")
    /\ row.live
    /\ tasks' = [tasks EXCEPT ![t] = [Idle EXCEPT !.pc = "target", !.inc = handle]]
    /\ UNCHANGED lock /\ NoJournal /\ NoCluster

LockFree == lock = Unbound

\* Within the bounds, a creation can go all the way.
Room ==
    /\ incarnations < MaxIncarnation
    /\ created + Cardinality(late) < MaxResources

EntryPoint(t) ==
    IF t \in Sweepers \/ (t \in Ups /\ handle # 0) THEN "reconcile"
    ELSE IF t \in Closers THEN "validate"
    ELSE "reserve"

\* guard, and the resolution of the name under it.
Acquire(t) ==
    /\ At(t, IF t \in Closers THEN "target" ELSE "idle")
    /\ t \in Sweepers => handle # 0
    /\ t \in Ups \union Previews => Room
    /\ LockFree
    /\ IF t \in Closers /\ (handle # tasks[t].inc \/ ~row.live)
       THEN /\ UNCHANGED lock
            /\ tasks' = [tasks EXCEPT ![t] = Idle]
       ELSE /\ lock' = t
            /\ tasks' = [tasks EXCEPT ![t] = [pc |-> EntryPoint(t), inc |-> handle,
                                              cluster |-> 0]]
    /\ NoJournal /\ NoCluster

-----------------------------------------------------------------------------
(* reconcile_name.                                                         *)

\* purge_unmaterialized_handle: the name was reserved, its instance was not
\* created.
PurgeHandle(t) ==
    /\ At(t, "reconcile")
    /\ ~row.live
    /\ handle' = 0
    /\ UNCHANGED <<row, admitted, incarnations, late, events>>
    /\ Reconciled(t) /\ NoCluster

\* Faulty variant: the recorded context is not compared.
AnyContext(t) == TRUE
SameContext(t) == row.source \in {Unbound, Home[t]}

\* identity, and the comparison of the recorded context.
Identify(t) ==
    /\ At(t, "reconcile")
    /\ row.live
    /\ IF SameContext(t)
       THEN /\ tasks' = [tasks EXCEPT ![t].pc = "compare",
                                      ![t].cluster = cluster[Home[t]]]
            /\ UNCHANGED lock
       ELSE Finish(t)
    /\ NoJournal /\ NoCluster

\* bind_runtime: the first binding stays, its resource uid is added once.
MayBind(s, c, uid) ==
    \/ row.source = Unbound
    \/ /\ row.source = s
       /\ row.cluster = c
       /\ row.uid \in {0, uid} \/ uid = 0

Bind(s, c, uid) ==
    row' = [row EXCEPT !.source = s, !.cluster = c,
                       !.uid = IF uid = 0 THEN @ ELSE uid]

\* Faulty variants: a name without its resource is always a leftover; the
\* uid of a resource seen earlier is ignored.
NeverIntent(t) == FALSE
UnclosedIntent(t) == row.source # Unbound /\ ~row.closing
\* Only a resource that was never seen is an intent.
IsIntent(t) ==
    /\ row.source # Unbound
    /\ row.uid = 0
    /\ row.cluster = tasks[t].cluster
    /\ ~row.closing

\* The resource exists: bind its uid.  It does not: an intent stays, for
\* anything else verify absence.
Compare(t) ==
    /\ At(t, "compare")
    /\ \/ \E c \in Resources(Home[t], tasks[t].inc) :
            /\ IF MayBind(Home[t], tasks[t].cluster, c.uid)
               THEN /\ Bind(Home[t], tasks[t].cluster, c.uid)
                    /\ Reconciled(t)
               ELSE /\ UNCHANGED row
                    /\ Finish(t)
            /\ UNCHANGED <<handle, admitted, incarnations, late, events>>
       \/ /\ Resources(Home[t], tasks[t].inc) = {}
          /\ IF IsIntent(t) THEN Reconciled(t) ELSE Goto(t, "verify")
          /\ NoJournal
    /\ NoCluster

\* Faulty variant: the namespace is taken to be gone with the resource.
ResourceAbsent(s, i) == Resources(s, i) = {}
\* removal_status: neither resource nor namespace.
Absent(s, i) == Resources(s, i) = {} /\ ~HasNamespace(s, i)

VerifyAbsent(t) ==
    /\ At(t, "verify")
    /\ IF Absent(Home[t], tasks[t].inc) THEN Goto(t, "purge") ELSE Finish(t)
    /\ NoJournal /\ NoCluster

\* purge_cell of the incarnation that was verified.
Purge(t) ==
    /\ At(t, "purge")
    /\ IF handle = tasks[t].inc
       THEN /\ handle' = 0
            /\ row' = NoRow
            /\ Reconciled(t)
       ELSE /\ UNCHANGED <<handle, row>>
            /\ Finish(t)
    /\ UNCHANGED <<admitted, incarnations, late, events>>
    /\ NoCluster

-----------------------------------------------------------------------------
(* Creation.                                                               *)

\* up, after reconcile_name: an intent is resumed, a freed name reserved, and
\* a cell that has its resource is edited instead.
Resolve(t) ==
    /\ At(t, "resolve")
    /\ IF handle = 0 THEN Goto(t, "reserve")
       ELSE IF row.source # Unbound /\ row.uid = 0 THEN Goto(t, "materialize")
       ELSE Finish(t)
    /\ NoJournal /\ NoCluster

NewIncarnation ==
    /\ incarnations' = incarnations + 1
    /\ handle' = incarnations + 1

\* Faulty variant: the tombstone of an admission is not consulted.
AdmitsAgain(t) == handle = 0
\* reserve_preview, or reserve_cell for up: an admitted preview is bound to
\* the incarnation it was admitted as.
Admits(t) == handle = 0 /\ (t \in Previews => admitted[t] = 0)

Reserve(t) ==
    /\ At(t, "reserve")
    /\ \/ /\ Admits(t)
          /\ NewIncarnation
          /\ admitted' = [p \in Previews |-> IF p = t THEN handle' ELSE admitted[p]]
          /\ tasks' = [tasks EXCEPT ![t].pc = "materialize", ![t].inc = handle']
          /\ UNCHANGED <<lock, row, late, events>>
       \/ /\ ~Admits(t)
          /\ IF t \in Previews /\ handle # 0 /\ handle = admitted[t]
             THEN Goto(t, "materialize")
             ELSE Finish(t)
          /\ NoJournal
    /\ NoCluster

\* Store::materialize.
Materialize(t) ==
    /\ At(t, "materialize")
    /\ IF row.closing
       THEN UNCHANGED row /\ Finish(t)
       ELSE row' = [row EXCEPT !.live = TRUE] /\ Goto(t, "identify")
    /\ UNCHANGED <<handle, admitted, incarnations, late, events>>
    /\ NoCluster

\* materialize_locked: identity, then bind_runtime without a resource.
IdentifyCluster(t) ==
    /\ At(t, "identify")
    /\ tasks' = [tasks EXCEPT ![t].pc = "bind", ![t].cluster = cluster[Home[t]]]
    /\ UNCHANGED lock /\ NoJournal /\ NoCluster

BindCluster(t) ==
    /\ At(t, "bind")
    /\ IF MayBind(Home[t], tasks[t].cluster, 0)
       THEN Bind(Home[t], tasks[t].cluster, 0) /\ Goto(t, "get")
       ELSE UNCHANGED row /\ Finish(t)
    /\ UNCHANGED <<handle, admitted, incarnations, late, events>>
    /\ NoCluster

\* Runtime::materialize: an open resource is taken as it is.
GetResource(t) ==
    /\ At(t, "get")
    /\ IF Resources(Home[t], tasks[t].inc) = {} THEN Goto(t, "create")
       ELSE IF ~\E c \in Resources(Home[t], tasks[t].inc) : Deleted(c)
            THEN Goto(t, "uid")
       ELSE Finish(t)
    /\ NoJournal /\ NoCluster

NewResource(s, i) ==
    /\ created' = created + 1
    /\ cells' = cells \union
          {[source |-> s, inc |-> i, uid |-> created + 1, phase |-> "new"]}
    /\ UNCHANGED <<namespaces, cluster>>

CreateResource(t) ==
    /\ At(t, "create")
    /\ IF Resources(Home[t], tasks[t].inc) = {}
       THEN NewResource(Home[t], tasks[t].inc) /\ Goto(t, "uid")
       ELSE NoCluster /\ Finish(t)
    /\ NoJournal

BindResource(t) ==
    /\ At(t, "uid")
    /\ \/ \E c \in Resources(Home[t], tasks[t].inc) :
            /\ MayBind(Home[t], tasks[t].cluster, c.uid)
            /\ Bind(Home[t], tasks[t].cluster, c.uid)
       \/ /\ \A c \in Resources(Home[t], tasks[t].inc) :
                ~MayBind(Home[t], tasks[t].cluster, c.uid)
          /\ UNCHANGED row
    /\ Finish(t)
    /\ UNCHANGED <<handle, admitted, incarnations, late, events>>
    /\ NoCluster

-----------------------------------------------------------------------------
(* Closing.                                                                *)

SameCluster(t) ==
    row.source = Unbound \/ (row.source = Home[t] /\ row.cluster = cluster[Home[t]])

\* validate_runtime.
Validate(t) ==
    /\ At(t, "validate")
    /\ IF SameCluster(t) THEN Goto(t, "close") ELSE Finish(t)
    /\ NoJournal /\ NoCluster

\* begin_instance_close.
BeginClose(t) ==
    /\ At(t, "close")
    /\ row' = [row EXCEPT !.closing = TRUE]
    /\ Goto(t, "delete")
    /\ UNCHANGED <<handle, admitted, incarnations, late, events>>
    /\ NoCluster

\* A deleted resource stays until its finalizer is removed, if it has one.
Delete(c) ==
    cells' = IF Deleted(c) THEN cells
             ELSE (cells \ {c}) \union
                  (IF c.phase = "new" THEN {} ELSE {[c EXCEPT !.phase = "deleting"]})

\* Runtime::close.
RequestDeletion(t) ==
    /\ At(t, "delete")
    /\ \/ \E c \in Resources(Home[t], tasks[t].inc) :
            /\ Delete(c)
            /\ UNCHANGED <<namespaces, cluster, created>>
            /\ Finish(t)
       \/ /\ Resources(Home[t], tasks[t].inc) = {}
          /\ IF HasNamespace(Home[t], tasks[t].inc) THEN Finish(t)
             ELSE Goto(t, "reconcile")
          /\ NoCluster
    /\ NoJournal

Step(t) ==
    \/ PurgeHandle(t)
    \/ Identify(t)
    \/ Compare(t)
    \/ VerifyAbsent(t)
    \/ Purge(t)
    \/ Resolve(t)
    \/ Reserve(t)
    \/ Materialize(t)
    \/ IdentifyCluster(t)
    \/ BindCluster(t)
    \/ GetResource(t)
    \/ CreateResource(t)
    \/ BindResource(t)
    \/ Validate(t)
    \/ BeginClose(t)
    \/ RequestDeletion(t)

-----------------------------------------------------------------------------
(* The controller of every cluster, and Kubernetes.                        *)

NoTask == UNCHANGED <<lock, tasks>>

\* The finalizer is added before anything is applied.
Adopt ==
    /\ \E c \in cells :
         /\ c.phase = "new"
         /\ cells' = (cells \ {c}) \union {[c EXCEPT !.phase = "open"]}
    /\ UNCHANGED <<namespaces, cluster, created>>
    /\ NoTask /\ NoJournal

\* A pass of apply that is under way does not notice the deletion.
CreateNamespace ==
    /\ \E c \in cells :
         /\ c.phase \in {"open", "deleting"}
         /\ ~HasNamespace(c.source, c.inc)
         /\ namespaces' = namespaces \union
                {[source |-> c.source, inc |-> c.inc, phase |-> "active"]}
    /\ UNCHANGED <<cells, cluster, created>>
    /\ NoTask /\ NoJournal

\* cleanup, after the last apply: closing is reported, the namespace deleted,
\* and once it is gone the finalizer removed.
BeginCleanup ==
    /\ \E c \in cells :
         /\ c.phase = "deleting"
         /\ cells' = (cells \ {c}) \union {[c EXCEPT !.phase = "cleanup"]}
    /\ UNCHANGED <<namespaces, cluster, created>>
    /\ NoTask /\ NoJournal

DeleteNamespace ==
    /\ \E c \in cells, n \in namespaces :
         /\ c.phase = "cleanup"
         /\ n.source = c.source /\ n.inc = c.inc /\ n.phase = "active"
         /\ namespaces' = (namespaces \ {n}) \union {[n EXCEPT !.phase = "terminating"]}
    /\ UNCHANGED <<cells, cluster, created>>
    /\ NoTask /\ NoJournal

RemoveFinalizer ==
    /\ \E c \in cells :
         /\ c.phase = "cleanup"
         /\ ~HasNamespace(c.source, c.inc)
         /\ cells' = cells \ {c}
    /\ UNCHANGED <<namespaces, cluster, created>>
    /\ NoTask /\ NoJournal

Terminate ==
    /\ \E n \in namespaces :
         /\ n.phase = "terminating"
         /\ namespaces' = namespaces \ {n}
    /\ UNCHANGED <<cells, cluster, created>>
    /\ NoTask /\ NoJournal

\* Somebody deletes the resource with kubectl.
DeleteOutside ==
    /\ \E c \in cells : ~Deleted(c) /\ Delete(c)
    /\ UNCHANGED <<namespaces, cluster, created>>
    /\ NoTask /\ NoJournal

-----------------------------------------------------------------------------
Occurs(event) == event \in Events /\ events < MaxEvents /\ events' = events + 1

\* SQLite drops the lock of a dead process.
Crash(t) ==
    /\ Occurs("crash")
    /\ ~At(t, "idle")
    /\ tasks' = [tasks EXCEPT ![t] = Idle]
    /\ lock' = IF lock = t THEN Unbound ELSE lock
    /\ late' = IF At(t, "create") /\ "late" \in Events
               THEN late \union {[source |-> Home[t], inc |-> tasks[t].inc]}
               ELSE late
    /\ UNCHANGED journalVars /\ NoCluster

Land ==
    /\ \E r \in late :
         /\ late' = late \ {r}
         /\ IF Resources(r.source, r.inc) = {} THEN NewResource(r.source, r.inc)
            ELSE NoCluster
    /\ NoTask /\ UNCHANGED <<journalVars, events>>

\* The context now leads to another cluster; everything in the old one is gone.
ReplaceCluster ==
    /\ Occurs("replace")
    /\ \E s \in Sources :
         /\ cluster' = [cluster EXCEPT ![s] = @ + 1]
         /\ cells' = {c \in cells : c.source # s}
         /\ namespaces' = {n \in namespaces : n.source # s}
    /\ UNCHANGED <<created, journalVars, late>> /\ NoTask

\* Somebody is tired of a cleanup that hangs: the resource disappears, its
\* namespace stays.
ForceRemove ==
    /\ Occurs("force")
    /\ \E c \in cells : c.phase = "cleanup" /\ cells' = cells \ {c}
    /\ UNCHANGED <<namespaces, cluster, created, journalVars, late>> /\ NoTask

LifecycleNext ==
    \/ \E t \in Tasks : Target(t)
    \/ \E t \in Tasks : Acquire(t)
    \/ \E t \in Tasks : Step(t)
    \/ \E t \in Tasks : Crash(t)
    \/ Adopt
    \/ CreateNamespace
    \/ BeginCleanup
    \/ DeleteNamespace
    \/ RemoveFinalizer
    \/ Terminate
    \/ DeleteOutside
    \/ Land
    \/ ReplaceCluster
    \/ ForceRemove

LifecycleSpec == LifecycleInit /\ [][LifecycleNext]_lifecycleVars

(* A task that holds the lock runs on or dies.  The recovery loop sweeps   *)
(* every second and gets the lock again and again between the others.  The *)
(* controller and Kubernetes finish deletions.                             *)
FairLifecycle ==
    /\ LifecycleSpec
    /\ \A t \in Tasks : WF_lifecycleVars(Step(t))
    /\ \A t \in Sweepers : SF_lifecycleVars(Acquire(t))
    /\ WF_lifecycleVars(BeginCleanup)
    /\ WF_lifecycleVars(DeleteNamespace)
    /\ WF_lifecycleVars(RemoveFinalizer)
    /\ WF_lifecycleVars(Terminate)

-----------------------------------------------------------------------------
(* Properties.                                                             *)

Pcs == {"idle", "target", "reconcile", "compare", "verify", "purge", "resolve",
        "reserve", "materialize", "identify", "bind", "get", "create", "uid",
        "validate", "close", "delete"}

\* Journal, locals and clusters keep their shape, and the lock has one holder.
LifecycleTypeOK ==
    /\ {handle, incarnations, created, events} \subseteq Nat
    /\ admitted \in [Previews -> Nat]
    /\ row \in [live : BOOLEAN, closing : BOOLEAN, source : Sources \union {Unbound},
                cluster : Nat, uid : Nat]
    /\ lock \in Tasks \union {Unbound}
    /\ tasks \in [Tasks -> [pc : Pcs, inc : Nat, cluster : Nat]]
    /\ \A t \in Tasks : lock = t <=> tasks[t].pc \notin {"idle", "target"}
    /\ cells \subseteq [source : Sources, inc : Nat, uid : Nat,
                       phase : {"new", "open", "deleting", "cleanup"}]
    /\ namespaces \subseteq [source : Sources, inc : Nat,
                            phase : {"active", "terminating"}]
    /\ cluster \in [Sources -> Nat]
    /\ late \subseteq [source : Sources, inc : Nat]

\* Nothing runs that the journal does not know: a resource or a namespace is
\* always that of the incarnation the name refers to, so no purge ever loses
\* track of a cell, whoever dies or deletes what.
NothingOrphaned ==
    /\ \A c \in cells : row.live /\ c.inc = handle
    /\ \A n \in namespaces : row.live /\ n.inc = handle

\* A name lives in one cluster: tasks that selected different contexts never
\* create it twice, and its resources are where its records are bound.
OneClusterPerName ==
    \A c \in cells : c.source = row.source /\ \A d \in cells : d.source = c.source

\* A name is not taken from an intent: the records of a cell that is not
\* closing, and whose resource was not created yet in the cluster it is bound
\* to, stay for the retry.
BoundIntentStays ==
    [][row.live /\ ~row'.live
       => \/ row.closing
          \/ row.source = Unbound
          \/ row.uid # 0
          \/ cluster[row.source] # row.cluster]_lifecycleVars

\* A preview is admitted once, however often it is retried and whatever
\* happened to its cell since.
PreviewAdmittedOnce ==
    [][\A p \in Previews :
        admitted[p] # 0 => admitted'[p] = admitted[p]]_lifecycleVars

\* The records of a cell whose resource is being deleted, or is gone, are
\* purged in the end, unless the resource exists again.
TeardownCompletes ==
    \A i \in 1..MaxIncarnation :
        (row.live /\ handle = i /\ row.uid # 0
            /\ \A c \in cells : Deleted(c))
        ~> (handle # i \/ \E c \in cells : ~Deleted(c))
=============================================================================
