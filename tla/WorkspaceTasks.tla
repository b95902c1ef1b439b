--------------------------- MODULE WorkspaceTasks ---------------------------
(***************************************************************************)
(* Tasks of a workspace and the network faults they lease.                 *)
(*                                                                         *)
(* A task is a program that the manager of a workspace component starts.   *)
(* It asks for control calls in a mailbox on the workspace volume; the     *)
(* controller polls the mailbox, claims a call there, creates a child      *)
(* action for it in Kubernetes and answers with the outcome of the child.  *)
(* A partition child is a lease: it blocks the network between two         *)
(* components until it expires, its task ends or a heal call releases it.  *)
(*                                                                         *)
(* The manager serves one request at a time from files, the reconciles of  *)
(* an action are serialized, and a mutex serializes the applications of    *)
(* the network policies.  Everything else interleaves: each request to the *)
(* workspace or to Kubernetes is one action here.                          *)
(***************************************************************************)
EXTENDS Naturals, FiniteSets

CONSTANTS
    Tasks,        \* tasks started under a grant of network control
    Partitions,   \* calls that ask for a lease
    Heals,        \* calls that release one
    owner,        \* the task of every call
    target,       \* the lease that a heal call names
    Components,   \* components with a network policy
    Standing,     \* partitions of the cell's own operations, never healed
    ends,         \* the components a partition separates
    Nobody,
    Outlive,      \* requests that are carried out after their controller died
    MaxFaults     \* bound on crashes, restarts and failed requests

Calls == Partitions \union Heals

ASSUME WorkspaceAssumption ==
    /\ Partitions \cap Heals = {}
    /\ owner \in [Calls -> Tasks]
    /\ target \in [Heals -> Partitions]
    /\ \A h \in Heals : owner[h] = owner[target[h]]
    /\ Standing \cap Calls = {}
    /\ ends \in [Partitions \union Standing -> SUBSET Components]
    /\ IsFiniteSet(Components) /\ Components # {} /\ IsFiniteSet(Calls)
    /\ Nobody \notin Calls
    /\ Outlive \subseteq {"create", "write"}
    /\ MaxFaults \in Nat

VARIABLES
    task,       \* state.json phase of every task
    launches,   \* how often its program was started
    replaced,   \* tasks whose pod has been replaced since
    mailbox,    \* the record of every call
    report,     \* control_cleanup of every task
    child,      \* the child action of every call
    revoked,    \* tasks whose action is cancelled or of an older revision
    expired,    \* leases past their expiry
    policy,     \* the leases that every network policy enforces
    pass,       \* where the bridge of every task stands
    awake,      \* tasks whose bridge will run again
    job,        \* where the reconcile of every child stands
    writer,     \* who holds the policy mutex
    active,     \* the partitions its application found active
    left,       \* the policies it has still to write
    flying,     \* requests of a controller that died
    late,       \* calls whose child such a request created
    faults

workspace  == <<task, launches, replaced, mailbox, report>>
kubernetes == <<child, revoked, expired, policy>>
bridge     == <<pass, awake>>
mutex      == <<writer, active, left>>
history    == <<flying, late>>
vars       == <<workspace, kubernetes, bridge, job, mutex, history, faults>>

-----------------------------------------------------------------------------
Alive    == {"starting", "running", "stopping"}
Ended    == {"ended", "interrupted"}
Phases   == {"absent"} \union Alive \union Ended
Terminal == {"Succeeded", "Failed", "Cancelled"}

CallsOf(t)    == {c \in Calls : owner[c] = t}
LeasesOf(t)   == {p \in Partitions : owner[p] = t}
Unanswered(t) ==
    {c \in CallsOf(t) : mailbox[c].submitted /\ mailbox[c].answer = "none"}
Claimed(t)    == {c \in Unanswered(t) : mailbox[c].claimed}

\* What a poll offers: a claimed call before one that waits.
Pending(t) == IF Claimed(t) # {} THEN Claimed(t) ELSE Unanswered(t)

\* Faulty variant: a child that has ended needs nothing any more.
EndedNeedsNothing(p) ==
    p \in Partitions /\ child[p].exists /\ child[p].phase \notin Terminal

NeedsCleanup(p) == p \in Partitions /\ child[p].exists /\ ~child[p].verified

IsActive(p) ==
    /\ child[p].exists
    /\ child[p].phase \in {"Running", "Succeeded"}
    /\ p \notin expired
    /\ ~child[p].released
    /\ ~child[p].cancelled

\* Faulty variant: only those who write the policies look at the expiry.
TimelessReason(p) ==
    \/ child[p].released \/ child[p].cancelled
    \/ owner[p] \in revoked
    \/ child[p].phase \in {"Failed", "Cancelled"}

ReleaseReason(p) ==
    \/ child[p].released \/ child[p].cancelled
    \/ p \in expired
    \/ owner[p] \in revoked
    \/ child[p].phase \in {"Failed", "Cancelled"}

\* The child may still act for its task.
AdmitChild(c) ==
    /\ owner[c] \notin revoked
    /\ c \notin expired
    /\ owner[c] \notin replaced
    /\ task[owner[c]] = "running"
    /\ c \in Claimed(owner[c])

Fault == faults < MaxFaults /\ faults' = faults + 1

-----------------------------------------------------------------------------
NoPass == [at |-> "idle", living |-> {}, owed |-> {}, open |-> FALSE,
           reply |-> FALSE, active |-> FALSE, stopping |-> FALSE, pending |-> {}]
NoJob  == [at |-> "idle", end |-> "none"]

TasksInit ==
    /\ task = [t \in Tasks |-> "absent"]
    /\ launches = [t \in Tasks |-> 0]
    /\ replaced = {}
    /\ mailbox = [c \in Calls |->
                    [submitted |-> FALSE, claimed |-> FALSE, answer |-> "none"]]
    /\ report = [t \in Tasks |-> [pending |-> 0, phase |-> "absent"]]
    /\ child = [c \in Calls |->
                  [exists |-> FALSE, phase |-> "none", cancelled |-> FALSE,
                   released |-> FALSE, verified |-> FALSE]]
    /\ revoked = {}
    /\ expired = {}
    /\ policy = [m \in Components |-> {p \in Standing : m \in ends[p]}]
    /\ pass = [t \in Tasks |-> NoPass]
    /\ awake = [t \in Tasks |-> TRUE]
    /\ job = [c \in Calls |-> NoJob]
    /\ writer = Nobody /\ active = {} /\ left = {}
    /\ flying = {}
    /\ late = {}
    /\ faults = 0

-----------------------------------------------------------------------------
(* The workspace: its manager, the tasks and what a person does to them.   *)

\* Manager::start claims the task identity on disk before it starts anything.
StartTask(t) ==
    /\ task[t] = "absent"
    /\ task' = [task EXCEPT ![t] = "starting"]
    /\ UNCHANGED <<launches, replaced, mailbox, report, kubernetes, bridge, job,
                   mutex, history, faults>>

LaunchTask(t) ==
    /\ task[t] = "starting"
    /\ \/ /\ task' = [task EXCEPT ![t] = "running"]
          /\ launches' = [launches EXCEPT ![t] = @ + 1]
          /\ UNCHANGED faults
       \/ task' = [task EXCEPT ![t] = "ended"] /\ Fault /\ UNCHANGED launches
    /\ UNCHANGED <<replaced, mailbox, report, kubernetes, bridge, job, mutex,
                   history>>

SubmitCall(c) ==
    /\ task[owner[c]] = "running"
    /\ ~mailbox[c].submitted
    /\ mailbox' = [mailbox EXCEPT ![c].submitted = TRUE]
    /\ UNCHANGED <<task, launches, replaced, report, kubernetes, bridge, job,
                   mutex, history, faults>>

StopTask(t) ==
    /\ task[t] = "running"
    /\ task' = [task EXCEPT ![t] = "stopping"]
    /\ UNCHANGED <<launches, replaced, mailbox, report, kubernetes, bridge, job,
                   mutex, history, faults>>

\* The supervisor of the task exits with a receipt, or dies without one.
EndTask(t) ==
    /\ task[t] \in {"running", "stopping"}
    /\ \/ task' = [task EXCEPT ![t] = "ended"] /\ UNCHANGED faults
       \/ task' = [task EXCEPT ![t] = "interrupted"] /\ Fault
    /\ UNCHANGED <<launches, replaced, mailbox, report, kubernetes, bridge, job,
                   mutex, history>>

\* Faulty variant: tasks that were interrupted are started again.
Resumed(phase) == IF phase \in Alive THEN "starting" ELSE phase

Recovered(phase) == IF phase \in Alive THEN "interrupted" ELSE phase

\* The manager restarts, in its pod or in a new one, and ends what it finds.
RestartManager ==
    /\ Fault
    /\ task' = [t \in Tasks |-> Recovered(task[t])]
    /\ replaced' \in {replaced, replaced \union {t \in Tasks : task[t] # "absent"}}
    /\ UNCHANGED <<launches, mailbox, report, kubernetes, bridge, job, mutex,
                   history>>

\* The action is cancelled, which wakes the bridge, or the cell is edited.
Revoke(t) ==
    /\ t \notin revoked
    /\ revoked' = revoked \union {t}
    /\ awake' \in {awake, [awake EXCEPT ![t] = TRUE]}
    /\ UNCHANGED <<workspace, child, expired, policy, pass, job, mutex, history,
                   faults>>

Expire(p) ==
    /\ child[p].exists /\ p \notin expired
    /\ expired' = expired \union {p}
    /\ UNCHANGED <<workspace, child, revoked, policy, bridge, job, mutex, history,
                   faults>>

-----------------------------------------------------------------------------
(* The bridge: one pass of the controller over the action of a task.       *)

Step(t, p) == pass' = [pass EXCEPT ![t] = p]

\* What the poll finds of the task entitles its calls to be carried out.
Active(t) == pass[t].open /\ t \notin replaced /\ task[t] = "running"

Closed(t) ==
    IF task[t] = "running" /\ (~pass[t].open \/ t \in replaced)
    THEN "stopping" ELSE task[t]

\* The bridge starts when the action that started the task has succeeded.
ListChildren(t) ==
    /\ pass[t].at = "idle" /\ awake[t]
    /\ task[t] \notin {"absent", "starting"}
    /\ Step(t, [NoPass EXCEPT
                  !.at = "listed",
                  !.living = {c \in CallsOf(t) : child[c].exists /\
                                (NeedsCleanup(c) \/ child[c].phase \notin Terminal)},
                  !.owed = {p \in LeasesOf(t) : NeedsCleanup(p)},
                  !.open = t \notin revoked])
    /\ UNCHANGED <<workspace, kubernetes, awake, job, mutex, history, faults>>

\* What the manager does between the poll and Close could as well come after
\* both: Close spares a task that has ended, and its own answer is ignored.
PollTask(t) ==
    /\ pass[t].at = "listed"
    /\ \E next \in IF Pending(t) = {} THEN {{}} ELSE {{c} : c \in Pending(t)} :
          Step(t, [pass[t] EXCEPT !.at = "polled", !.reply = TRUE, !.open = FALSE,
                     !.active = Active(t), !.stopping = task[t] = "stopping",
                     !.pending = next])
    /\ \/ task' = [task EXCEPT ![t] = Closed(t)] /\ UNCHANGED faults
       \/ Closed(t) # task[t] /\ Fault /\ UNCHANGED task
    /\ UNCHANGED <<launches, replaced, mailbox, report, kubernetes, awake, job,
                   mutex, history>>

\* The workspace does not answer.
PollLost(t) ==
    /\ pass[t].at = "listed"
    /\ Fault
    /\ Step(t, [pass[t] EXCEPT !.at = "polled", !.open = FALSE])
    /\ UNCHANGED <<workspace, kubernetes, awake, job, mutex, history>>

CleanupReport(t) == [pending |-> Cardinality(pass[t].owed), phase |-> task[t]]

\* The children that the pass has listed are cancelled unless the task may
\* still ask, then the manager records how many leases it found to be owed.
CancelAndReport(t) ==
    /\ pass[t].at = "polled"
    /\ child' = [c \in Calls |->
                   IF ~pass[t].active /\ c \in pass[t].living
                   THEN [child[c] EXCEPT !.cancelled = TRUE] ELSE child[c]]
    /\ IF pass[t].reply
       THEN \/ /\ report' = [report EXCEPT ![t] = CleanupReport(t)]
               /\ Step(t, [pass[t] EXCEPT !.at = "reported", !.living = {}])
               /\ UNCHANGED faults
            \/ Fault /\ Step(t, NoPass) /\ UNCHANGED report
       ELSE Step(t, NoPass) /\ UNCHANGED <<report, faults>>
    /\ UNCHANGED <<task, launches, replaced, mailbox, revoked, expired, policy,
                   awake, job, mutex, history>>

Rests(t) == ~pass[t].active /\ pass[t].owed = {} /\ ~pass[t].stopping

\* No call waits: the pass ends, and only a change of the action wakes it again.
EndPass(t) ==
    /\ pass[t].at = "reported" /\ pass[t].pending = {}
    /\ awake' = [awake EXCEPT ![t] = ~Rests(t)]
    /\ Step(t, NoPass)
    /\ UNCHANGED <<workspace, kubernetes, job, mutex, history, faults>>

\* Faulty variant: a child that still works is taken for one that is missing.
ImpatientOutcome(t, c) ==
    IF child[c].exists /\ child[c].phase \in Terminal THEN child[c].phase
    ELSE IF ~pass[t].active \/ mailbox[c].claimed THEN "undispatched" ELSE "none"

\* What the call is answered with: the outcome of its child, or that there is
\* none and none will be made; "none" while the child works or may be created.
Outcome(t, c) ==
    IF child[c].exists
    THEN IF child[c].phase \in Terminal THEN child[c].phase ELSE "none"
    ELSE IF ~pass[t].active \/ mailbox[c].claimed THEN "undispatched" ELSE "none"

AnswerCall(t) ==
    /\ pass[t].at = "reported"
    /\ \E c \in pass[t].pending :
          /\ child[c].exists \/ Outcome(t, c) # "none"
          /\ mailbox' = [mailbox EXCEPT ![c].answer =
                            IF @ = "none" THEN Outcome(t, c) ELSE @]
    /\ Step(t, NoPass)
    /\ UNCHANGED <<task, launches, replaced, report, kubernetes, awake, job, mutex,
                   history, faults>>

DebitedReport(t, c) ==
    IF c \in Partitions
    THEN [pending |-> report[t].pending + 1, phase |-> task[t]] ELSE report[t]

\* The manager persists the claim, unless the task has ended since the poll.
ClaimCall(t) ==
    /\ pass[t].at = "reported"
    /\ \E c \in pass[t].pending :
          /\ ~child[c].exists /\ Outcome(t, c) = "none"
          /\ IF task[t] = "running"
             THEN /\ mailbox' = [mailbox EXCEPT ![c].claimed = TRUE]
                  /\ report' = [report EXCEPT ![t] = DebitedReport(t, c)]
                  /\ Step(t, [pass[t] EXCEPT !.at = "claimed"])
             ELSE Step(t, NoPass) /\ UNCHANGED <<mailbox, report>>
    /\ UNCHANGED <<task, launches, replaced, kubernetes, awake, job, mutex, history,
                   faults>>

CreateChild(t) ==
    /\ pass[t].at = "claimed"
    /\ child' = [c \in Calls |-> [child[c] EXCEPT !.exists = @ \/ c \in pass[t].pending]]
    /\ Step(t, NoPass)
    /\ UNCHANGED <<workspace, revoked, expired, policy, awake, job, mutex, history,
                   faults>>

Bridge(t) ==
    \/ ListChildren(t) \/ PollTask(t) \/ CancelAndReport(t) \/ EndPass(t)
    \/ AnswerCall(t) \/ ClaimCall(t) \/ CreateChild(t)

-----------------------------------------------------------------------------
(* The reconcile of a child.                                               *)

Subject(c) == IF c \in Heals THEN target[c] ELSE c

Work(c, at) == job' = [job EXCEPT ![c].at = at]

SetPhase(c, phase) == child' = [child EXCEPT ![c].phase = phase]

Marked(c) ==
    /\ child' = [child EXCEPT ![Subject(c)].released = TRUE]
    /\ job' = [job EXCEPT ![c] =
                 [at |-> "heal",
                  end |-> IF child[Subject(c)].phase \in Terminal
                          THEN child[Subject(c)].phase ELSE "Cancelled"]]

\* The pass reads the lease again, asks the workspace and decides: a reason to
\* release stands once it is there, so its marker is part of the decision.  An
\* admission that the workspace does not answer is refused.
ReconcileLease(p) ==
    /\ job[p].at = "idle" /\ NeedsCleanup(p)
    /\ ReleaseReason(p) \/ child[p].phase # "Succeeded"
    /\ \/ /\ ~ReleaseReason(p) /\ AdmitChild(p)
          /\ IF child[p].phase = "none"
             THEN SetPhase(p, "Running") /\ UNCHANGED job
             ELSE Work(p, "apply") /\ UNCHANGED child
          /\ UNCHANGED faults
       \/ (ReleaseReason(p) \/ ~AdmitChild(p)) /\ Marked(p) /\ UNCHANGED faults
       \/ ~ReleaseReason(p) /\ Fault /\ Marked(p)
    /\ UNCHANGED <<workspace, revoked, expired, policy, bridge, mutex, history>>

RecordActivation(p) ==
    /\ job[p].at = "activated"
    /\ child' = [child EXCEPT ![p].phase = "Succeeded", ![p].verified = FALSE]
    /\ Work(p, "idle")
    /\ UNCHANGED <<workspace, revoked, expired, policy, bridge, mutex, history,
                   faults>>

\* Release is durable before the policies are written.
MarkReleased(c) ==
    /\ job[c].at = "mark"
    /\ Marked(c)
    /\ UNCHANGED <<workspace, revoked, expired, policy, bridge, mutex, history,
                   faults>>

RecordCleanup(c) ==
    /\ job[c].at = "healed"
    /\ child' = [child EXCEPT ![Subject(c)].phase = job[c].end,
                              ![Subject(c)].verified = TRUE]
    /\ job' = [job EXCEPT ![c] =
                 [at |-> IF c \in Heals THEN "confirm" ELSE "idle", end |-> "none"]]
    /\ UNCHANGED <<workspace, revoked, expired, policy, bridge, mutex, history,
                   faults>>

\* The deadline of a heal may have passed, or the workspace is silent.
ReconcileHeal(h) ==
    /\ h \in Heals /\ job[h].at = "idle"
    /\ child[h].exists /\ child[h].phase \notin Terminal
    /\ \/ /\ ~child[h].cancelled /\ AdmitChild(h) /\ child[target[h]].exists
          /\ Work(h, "mark") /\ UNCHANGED child
       \/ SetPhase(h, "Failed") /\ UNCHANGED job
    /\ UNCHANGED <<workspace, revoked, expired, policy, bridge, mutex, history,
                   faults>>

ConfirmHeal(h) ==
    /\ h \in Heals /\ job[h].at = "confirm"
    /\ SetPhase(h, "Succeeded")
    /\ Work(h, "idle")
    /\ UNCHANGED <<workspace, revoked, expired, policy, bridge, mutex, history,
                   faults>>

-----------------------------------------------------------------------------
(* apply_network_fault_policies.                                           *)

ActivePartitions == Standing \union {p \in Partitions : IsActive(p)}

\* Under the mutex: the versions of the policies, then the list of actions.
ListLeases(w) ==
    /\ writer = Nobody
    /\ job[w].at \in {"apply", "heal"}
    /\ writer' = w
    /\ active' = ActivePartitions
    /\ left' = Components
    /\ UNCHANGED <<workspace, kubernetes, bridge, job, history, faults>>

\* The last write returns to the caller, which checks its own lease.
Applied(w) ==
    [job EXCEPT ![w].at =
        CASE @ = "apply" -> IF w \in active THEN "activated" ELSE "mark"
          [] @ = "heal"  -> IF Subject(w) \in active THEN "idle" ELSE "healed"]

Peers(m, leases) == UNION {ends[p] \ {m} : p \in leases}

\* A request that read an older version of the policy is refused from now on.
StillCurrent(m, leases) ==
    {r \in flying : ~(r.kind = "write" /\ r.of = m
                      /\ Peers(m, leases) # Peers(m, policy[m]))}

\* Faulty variant: what a policy already excludes stays excluded.
Merged(m, found) == policy[m] \union {p \in found : m \in ends[p]}

Excluded(m, found) == {p \in found : m \in ends[p]}

WritePolicy(m) ==
    /\ writer # Nobody /\ m \in left
    /\ policy' = [policy EXCEPT ![m] = Excluded(m, active)]
    /\ flying' = StillCurrent(m, Excluded(m, active))
    /\ IF left = {m}
       THEN /\ writer' = Nobody /\ active' = {} /\ left' = {}
            /\ job' = Applied(writer)
       ELSE /\ left' = left \ {m}
            /\ UNCHANGED <<writer, active, job>>
    /\ UNCHANGED <<workspace, child, revoked, expired, bridge, late, faults>>

\* The cell's own reconcile applies the policies every few seconds.  Nobody
\* else reads or writes them meanwhile, so that it is one step here.
RefreshPolicies ==
    /\ writer = Nobody
    /\ policy' = [m \in Components |-> Excluded(m, ActivePartitions)]
    /\ flying' = {r \in flying : \A m \in Components :
                    r \in StillCurrent(m, Excluded(m, ActivePartitions))}
    /\ UNCHANGED <<workspace, child, revoked, expired, bridge, job, mutex, late,
                   faults>>

-----------------------------------------------------------------------------
(* Failures of the controller.                                             *)

Released(w) ==
    IF writer = w
    THEN writer' = Nobody /\ active' = {} /\ left' = {}
    ELSE UNCHANGED mutex

\* A request fails and the pass with it; it is tried again later.
FailPass(t) ==
    /\ pass[t].at # "idle"
    /\ Fault
    /\ Step(t, NoPass)
    /\ UNCHANGED <<workspace, kubernetes, awake, job, mutex, history>>

FailChild(c) ==
    /\ job[c].at # "idle"
    /\ Fault
    /\ job' = [job EXCEPT ![c] = NoJob]
    /\ Released(c)
    /\ UNCHANGED <<workspace, kubernetes, bridge, history>>

\* What the controller had sent to Kubernetes when it died.
InFlight ==
    {[kind |-> "create", of |-> t, leases |-> pass[t].pending] :
        t \in {t \in Tasks : pass[t].at = "claimed"}}
    \union
    {[kind |-> "write", of |-> m, leases |-> {p \in active : m \in ends[p]}] :
        m \in left}

CrashController ==
    /\ Fault
    /\ pass' = [t \in Tasks |-> NoPass]
    /\ awake' = [t \in Tasks |-> TRUE]
    /\ job' = [c \in Calls |-> NoJob]
    /\ writer' = Nobody /\ active' = {} /\ left' = {}
    /\ flying' = flying \union {r \in InFlight : r.kind \in Outlive}
    /\ UNCHANGED <<workspace, kubernetes, late>>

\* Such a request is carried out after all.
DelayedCreate(r) ==
    /\ r.kind = "create"
    /\ flying' = flying \ {r}
    /\ late' = late \union r.leases
    /\ child' = [c \in Calls |-> [child[c] EXCEPT !.exists = @ \/ c \in r.leases]]
    /\ UNCHANGED <<workspace, revoked, expired, policy, bridge, job, mutex,
                   faults>>

DelayedWrite(r) ==
    /\ r.kind = "write" /\ r.of \notin left
    /\ policy' = [policy EXCEPT ![r.of] = r.leases]
    /\ flying' = StillCurrent(r.of, r.leases) \ {r}
    /\ UNCHANGED <<workspace, child, revoked, expired, bridge, job, mutex, late,
                   faults>>

-----------------------------------------------------------------------------
Child(c) ==
    \/ ReconcileLease(c) \/ RecordActivation(c)
    \/ MarkReleased(c) \/ RecordCleanup(c)
    \/ ReconcileHeal(c) \/ ConfirmHeal(c)

TasksNext ==
    \/ \E t \in Tasks :
          \/ StartTask(t) \/ LaunchTask(t) \/ StopTask(t) \/ EndTask(t)
          \/ Revoke(t) \/ Bridge(t) \/ PollLost(t) \/ FailPass(t)
    \/ \E c \in Calls :
          SubmitCall(c) \/ Child(c) \/ FailChild(c)
    \/ \E p \in Partitions : Expire(p)
    \/ \E w \in Calls : ListLeases(w)
    \/ \E m \in Components : WritePolicy(m)
    \/ RefreshPolicies
    \/ RestartManager \/ CrashController
    \/ \E r \in flying : DelayedCreate(r) \/ DelayedWrite(r)

\* A reconcile that ends is run again and its next request is made; the mutex
\* serves its waiters in turn.  Tasks, people and the cell owe nothing.
TasksFairness ==
    /\ \A t \in Tasks : WF_vars(Bridge(t))
    /\ \A c \in Calls : WF_vars(Child(c)) /\ SF_vars(ListLeases(c))
    /\ \A m \in Components : WF_vars(WritePolicy(m))

TasksSpec == TasksInit /\ [][TasksNext]_vars /\ TasksFairness

-----------------------------------------------------------------------------
Letters  == [submitted : BOOLEAN, claimed : BOOLEAN,
             answer : Terminal \union {"none", "undispatched"}]
Reports  == [pending : Nat, phase : Phases]
Children == [exists : BOOLEAN, phase : Terminal \union {"none", "Running"},
             cancelled : BOOLEAN, released : BOOLEAN, verified : BOOLEAN]
Passes   == [at : {"idle", "listed", "polled", "reported", "claimed"},
             living : SUBSET Calls, owed : SUBSET Partitions, open : BOOLEAN,
             reply : BOOLEAN, active : BOOLEAN, stopping : BOOLEAN,
             pending : SUBSET Calls]
Jobs     == [at : {"idle", "apply", "activated", "mark", "heal", "healed", "confirm"},
             end : Terminal \union {"none"}]
Requests == [kind : {"create"}, of : Tasks, leases : SUBSET Calls]
            \union
            [kind : {"write"}, of : Components,
             leases : SUBSET (Partitions \union Standing)]

WorkspaceTypeOK ==
    /\ task \in [Tasks -> Phases]
    /\ launches \in [Tasks -> Nat]
    /\ replaced \subseteq Tasks
    /\ mailbox \in [Calls -> Letters]
    /\ report \in [Tasks -> Reports]

KubernetesTypeOK ==
    /\ child \in [Calls -> Children]
    /\ revoked \subseteq Tasks /\ expired \subseteq Partitions
    /\ policy \in [Components -> SUBSET (Partitions \union Standing)]

BridgeTypeOK ==
    /\ pass \in [Tasks -> Passes]
    /\ awake \in [Tasks -> BOOLEAN]

WorkTypeOK ==
    /\ job \in [Calls -> Jobs]
    /\ writer \in Calls \union {Nobody}
    /\ active \subseteq Partitions \union Standing /\ left \subseteq Components
    /\ flying \subseteq Requests
    /\ late \subseteq Calls
    /\ faults \in 0..MaxFaults

\* The program's state: files of the workspace, actions, policies and passes.
TasksTypeOK ==
    WorkspaceTypeOK /\ KubernetesTypeOK /\ BridgeTypeOK /\ WorkTypeOK

\* The claim of an identity precedes its launch: whatever restarts, no task of
\* a workspace is started twice.
LaunchedOnce == \A t \in Tasks : launches[t] <= 1

Blocking(p) == \E m \in Components : p \in policy[m]

\* A task that is told that its call was not dispatched may rely on it: the
\* lease it asked for is not enforced, then or later.
UndispatchedNeverActs ==
    \A p \in Partitions :
       mailbox[p].answer = "undispatched"
       => ~Blocking(p) /\ child[p].phase # "Succeeded"

\* control_cleanup with nothing pending and the final phase of its task means
\* that no lease of the task blocks the network any more.  Children created by
\* a request that outlived its controller are not counted.
CleanupReportTrue ==
    \A t \in Tasks :
       (/\ task[t] \in Ended
        /\ report[t] = [pending |-> 0, phase |-> task[t]])
       => \A p \in LeasesOf(t) \ late : ~Blocking(p)

\* heal: a lease whose cleanup has been verified is in no policy from then on,
\* although others keep writing the policies from lists they took before.
VerifiedStaysHealed ==
    \A p \in Partitions : child[p].verified => ~Blocking(p)

\* A lease that has expired, or whose task is over or may not act any more, is
\* healed in the end, and that is verified.
LeasesEnd ==
    \A p \in Partitions :
       (/\ child[p].exists
        /\ p \in expired \/ owner[p] \in revoked \/ task[owner[p]] \in Ended)
       ~> (child[p].verified /\ ~Blocking(p))
===========================================================================
