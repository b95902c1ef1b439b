---------------------------- MODULE CellActions ----------------------------
(***************************************************************************)
(* One operation of a cell: its row in the journal, the action that        *)
(* clients apply in Kubernetes for it, and the Job or the native command   *)
(* that the controller starts for the action.                              *)
(*                                                                         *)
(* Clients look at the row before they apply the action and mark the row   *)
(* afterwards; an observer and a canceller read the action and then write  *)
(* the row.  The controller works from a copy of the action that lags      *)
(* behind, starts what the action asks for in one request and records that *)
(* in another, and may die in between.  Its passes over one action are     *)
(* serialized: what a pass reads live and writes is one step here, unless  *)
(* it makes two requests that change something.                            *)
(***************************************************************************)
EXTENDS Naturals

CONSTANTS
    Clients,      \* submissions of the operation and retries of them
    Kinds,        \* how the action is carried out
    Prompt,       \* nobody is away for as long as records are kept
    MaxCreations, \* bound on how often the action is created
    MaxFaults     \* bound on crashes and failures

ASSUME ActionsAssumption ==
    /\ Kinds # {} /\ Kinds \subseteq {"job", "exec"}
    /\ Prompt \in BOOLEAN
    /\ MaxCreations \in Nat \ {0} /\ MaxFaults \in Nat

VARIABLES
    kind,      \* "job" or "exec"
    row,       \* phase of the operation in the journal
    client,    \* where every client stands
    observer,  \* what the observer is about to record
    canceller, \* where the cancellation of the operation stands
    action,    \* the action resource
    seen,      \* the controller's copy of it
    pass,      \* what its pass is about to do
    process,   \* the Job or the command
    runs,      \* how often the work of the operation was started
    late,      \* the start deadline of the action has passed
    old,       \* finished actions of this age are not kept
    faults

journal    == <<row, client, observer, canceller>>
controller == <<seen, pass>>
clock      == <<late, old>>
vars       == <<kind, journal, action, controller, process, runs, clock, faults>>

-----------------------------------------------------------------------------
\* NotStarted is the failure that says that nothing was run.
Ended == {"Succeeded", "Failed", "NotStarted", "Cancelled"}

\* Missing is a failure without an action, Unsubmitted a cancellation without.
Recorded == Ended \union {"Missing", "Unsubmitted"}

NoAction == [created |-> 0, exists |-> FALSE, status |-> "none", cancelled |-> FALSE]

Finished == {"succeeded", "failed", "cancelled"}

Fault == faults < MaxFaults /\ faults' = faults + 1

ActionsInit ==
    /\ kind \in Kinds
    /\ row = "pending"
    /\ client = [c \in Clients |-> "idle"]
    /\ observer = "idle" /\ canceller = "idle"
    /\ action = NoAction /\ seen = NoAction
    /\ pass = "idle"
    /\ process = "absent" /\ runs = 0
    /\ late = FALSE /\ old = FALSE
    /\ faults = 0

-----------------------------------------------------------------------------
(* Clients and the journal.                                                *)

Goto(c, at) == client' = [client EXCEPT ![c] = at]

CheckRow(c) ==
    /\ client[c] = "idle"
    /\ Goto(c, IF row = "pending" THEN "checked" ELSE "done")
    /\ UNCHANGED <<kind, row, observer, canceller, action, controller, process,
                   runs, clock, faults>>

\* The action is created unless it is there: the same request is no conflict.
ApplyAction(c) ==
    /\ client[c] = "checked"
    /\ \/ action.exists /\ UNCHANGED <<action, late>>
       \/ /\ ~action.exists /\ action.created < MaxCreations
          /\ action' = [NoAction EXCEPT !.created = action.created + 1, !.exists = TRUE]
          /\ late' = FALSE
    /\ Goto(c, "applied")
    /\ UNCHANGED <<kind, row, observer, canceller, controller, process, runs, old,
                   faults>>

MarkRunning(c) ==
    /\ client[c] = "applied"
    /\ row' = IF row = "pending" THEN "running" ELSE row
    /\ Goto(c, "done")
    /\ UNCHANGED <<kind, observer, canceller, action, controller, process, runs,
                   clock, faults>>

ClientDies(c) ==
    /\ client[c] \in {"checked", "applied"}
    /\ Goto(c, "done")
    /\ UNCHANGED <<kind, row, observer, canceller, action, controller, process,
                   runs, clock, faults>>

\* Faulty variant: only successes are reported.
OnlySuccesses ==
    IF ~action.exists
    THEN IF row = "running" \/ old THEN "Missing" ELSE "none"
    ELSE IF action.status = "Succeeded" THEN action.status ELSE "none"

\* action_status: an action that is gone although it was sent has failed.
Observation ==
    IF ~action.exists
    THEN IF row = "running" \/ old THEN "Missing" ELSE "none"
    ELSE IF action.status \in Ended THEN action.status ELSE "none"

Observe ==
    /\ observer = "idle" /\ row \notin Recorded
    /\ Observation # "none"
    /\ observer' = Observation
    /\ UNCHANGED <<kind, row, client, canceller, action, controller, process, runs,
                   clock, faults>>

\* The first result of an operation is final.
Settled(result) == IF row \in Recorded THEN row ELSE result

RecordObservation ==
    /\ observer # "idle"
    /\ row' = Settled(observer)
    /\ observer' = "idle"
    /\ UNCHANGED <<kind, client, canceller, action, controller, process, runs,
                   clock, faults>>

ReadForCancel ==
    /\ canceller = "idle" /\ row \notin Recorded
    /\ canceller' = row
    /\ UNCHANGED <<kind, row, client, observer, action, controller, process, runs,
                   clock, faults>>

CancelAction ==
    /\ canceller \in {"pending", "running"}
    /\ IF action.exists
       THEN /\ action' = [action EXCEPT !.cancelled = @ \/ action.status \notin Ended]
            /\ canceller' = "done"
       ELSE /\ canceller' = IF canceller = "pending" THEN "Unsubmitted" ELSE "Missing"
            /\ UNCHANGED action
    /\ UNCHANGED <<kind, row, client, observer, controller, process, runs, clock,
                   faults>>

RecordCancel ==
    /\ canceller \in Recorded
    /\ row' = Settled(canceller)
    /\ canceller' = "done"
    /\ UNCHANGED <<kind, client, observer, action, controller, process, runs, clock,
                   faults>>

-----------------------------------------------------------------------------
(* Time, and the work itself.                                              *)

StartDeadlinePasses ==
    /\ action.exists /\ ~late
    /\ late' = TRUE
    /\ UNCHANGED <<kind, journal, action, controller, process, runs, old, faults>>

InFlight == \E c \in Clients : client[c] \in {"checked", "applied"}

GrowsOld ==
    /\ ~old /\ (Prompt => ~InFlight)
    /\ old' = TRUE
    /\ UNCHANGED <<kind, journal, action, controller, process, runs, late, faults>>

\* Jobs have an active deadline, commands a timeout.
ProcessEnds ==
    /\ process = "active"
    /\ process' \in {"succeeded", "failed"}
    /\ UNCHANGED <<kind, journal, action, controller, runs, clock, faults>>

JobDeleted ==
    /\ process = "deleting"
    /\ process' = "absent"
    /\ UNCHANGED <<kind, journal, action, controller, runs, clock, faults>>

\* Finished Jobs are removed after a while.
JobReaped ==
    /\ kind = "job" /\ process \in Finished
    /\ Prompt => action.status \in Ended /\ seen = action
    /\ process' = "absent"
    /\ UNCHANGED <<kind, journal, action, controller, runs, clock, faults>>

\* Somebody else deletes the Job, or the pod of the command is replaced.
ProcessLost ==
    /\ process # "absent" /\ (Prompt => action.status # "none" /\ seen = action)
    /\ Fault
    /\ process' = IF kind = "job" THEN "absent" ELSE "gone"
    /\ UNCHANGED <<kind, journal, action, controller, runs, clock>>

-----------------------------------------------------------------------------
(* The controller: passes over the copy it has.                            *)

Watch ==
    /\ seen # action
    /\ seen' = action
    /\ UNCHANGED <<kind, journal, action, pass, process, runs, clock, faults>>

Idle == pass = "idle" /\ seen.exists

SetStatus(status) ==
    action' = IF action.exists THEN [action EXCEPT !.status = status] ELSE action

\* Faulty variant: the write is not fenced on the version of the copy.
AnyVersion == TRUE

\* The action has not changed since the copy was made.
CopyIsCurrent == seen = action

\* Faulty variant: a record of the start does not count.
NeverStarted == FALSE

ExecutionStarted == seen.status = "Running"

\* Faulty variant: a Job that is being deleted counts as gone.
DeletedIsGone == process \in {"absent", "deleting"}

JobIsGone == kind = "exec" \/ process = "absent"

Due == late /\ ~ExecutionStarted /\ JobIsGone

Works == Idle /\ seen.status \notin Ended /\ ~seen.cancelled

ExpireFinished ==
    /\ Idle /\ seen.status \in Ended
    /\ old /\ (Prompt => row \in Recorded /\ ~InFlight)
    /\ action' = [action EXCEPT !.exists = FALSE]
    /\ UNCHANGED <<kind, journal, controller, process, runs, clock, faults>>

\* A Job is deleted and waited for; a command is told to end.
StopProcess ==
    /\ Idle /\ seen.status \notin Ended /\ seen.cancelled
    /\ \/ kind = "job" /\ process \in {"active"} \union Finished
          /\ process' = "deleting"
       \/ kind = "exec" /\ ExecutionStarted /\ process = "active"
          /\ process' = "cancelled"
    /\ UNCHANGED <<kind, journal, action, controller, runs, clock, faults>>

CancelUnstarted ==
    /\ Idle /\ seen.status \notin Ended /\ seen.cancelled
    /\ JobIsGone /\ (kind = "exec" => ~ExecutionStarted)
    /\ SetStatus("Cancelled")
    /\ UNCHANGED <<kind, journal, controller, process, runs, clock, faults>>

ExpireUnstarted ==
    /\ Works /\ Due
    /\ CopyIsCurrent
    /\ SetStatus("NotStarted")
    /\ UNCHANGED <<kind, journal, controller, process, runs, clock, faults>>

\* The cell is closing, the component is not ready, the action is not valid.
Refuse ==
    /\ Works /\ ~Due
    /\ ~(kind = "exec" /\ ExecutionStarted)
    /\ SetStatus("Failed")
    /\ UNCHANGED <<kind, journal, controller, process, runs, clock, faults>>

CreateJob ==
    /\ kind = "job" /\ Works /\ ~Due
    /\ JobIsGone /\ ~ExecutionStarted
    /\ process' = "active" /\ runs' = runs + 1
    /\ pass' = "mark"
    /\ UNCHANGED <<kind, journal, action, seen, clock, faults>>

MarkStarted ==
    /\ pass = "mark"
    /\ SetStatus("Running")
    /\ pass' = "idle"
    /\ UNCHANGED <<kind, journal, seen, process, runs, clock, faults>>

\* A Job that disappeared is not run again.
JobLost ==
    /\ kind = "job" /\ Works
    /\ JobIsGone /\ ExecutionStarted
    /\ SetStatus("Failed")
    /\ UNCHANGED <<kind, journal, controller, process, runs, clock, faults>>

\* The result of a Job may be missing although it has succeeded.
ObserveJob ==
    /\ kind = "job" /\ Works /\ ~JobIsGone
    /\ \/ process \in {"active", "deleting"} /\ SetStatus("Running")
       \/ process = "succeeded" /\ (SetStatus("Succeeded") \/ SetStatus("Failed"))
       \/ process = "failed" /\ SetStatus("Failed")
    /\ UNCHANGED <<kind, journal, controller, process, runs, clock, faults>>

\* The claim precedes the command, which is never started on an older copy.
ClaimStart ==
    /\ kind = "exec" /\ Works /\ ~Due /\ ~ExecutionStarted
    /\ CopyIsCurrent
    /\ SetStatus("Running")
    /\ pass' = "start"
    /\ UNCHANGED <<kind, journal, seen, process, runs, clock, faults>>

\* Whether the request to start arrived remains unknown.
StartCommand ==
    /\ pass = "start"
    /\ \/ process' = "active" /\ runs' = runs + 1 /\ UNCHANGED faults
       \/ Fault /\ UNCHANGED <<process, runs>>
    /\ pass' = "idle"
    /\ UNCHANGED <<kind, journal, action, seen, clock>>

\* The receipt of the command, or the end of the time to wait for one.
CollectReceipt ==
    /\ kind = "exec" /\ Idle /\ ExecutionStarted
    /\ \/ process = "succeeded" /\ SetStatus("Succeeded")
       \/ process = "cancelled" /\ SetStatus("Cancelled")
       \/ process \in {"failed", "gone", "absent"} /\ SetStatus("Failed")
    /\ UNCHANGED <<kind, journal, controller, process, runs, clock, faults>>

\* A new process reads the action anew.
CrashController ==
    /\ Fault
    /\ pass' = "idle"
    /\ seen' = action
    /\ UNCHANGED <<kind, journal, action, process, runs, clock>>

-----------------------------------------------------------------------------
Pass ==
    \/ ExpireFinished \/ StopProcess \/ CancelUnstarted \/ ExpireUnstarted
    \/ CreateJob \/ MarkStarted \/ JobLost \/ ObserveJob
    \/ ClaimStart \/ StartCommand \/ CollectReceipt

Observer == Observe \/ RecordObservation

ActionsNext ==
    \/ \E c \in Clients :
          CheckRow(c) \/ ApplyAction(c) \/ MarkRunning(c) \/ ClientDies(c)
    \/ Observer \/ ReadForCancel \/ CancelAction \/ RecordCancel
    \/ StartDeadlinePasses \/ GrowsOld
    \/ ProcessEnds \/ JobDeleted \/ JobReaped \/ ProcessLost
    \/ Watch \/ Pass \/ Refuse \/ CrashController

\* The watch delivers, unfinished actions are reconciled again and again, what
\* was started ends, and the observer looks at every unfinished operation.
ActionsFairness ==
    /\ WF_vars(Watch) /\ WF_vars(Pass)
    /\ WF_vars(ProcessEnds) /\ WF_vars(JobDeleted)
    /\ WF_vars(Observer)

ActionsSpec == ActionsInit /\ [][ActionsNext]_vars /\ ActionsFairness

-----------------------------------------------------------------------------
Actions ==
    [created : 0..MaxCreations, exists : BOOLEAN, status : Ended \union {"none", "Running"},
     cancelled : BOOLEAN]

\* The row, the action with its copy, the pass and the work.
ActionsTypeOK ==
    /\ kind \in Kinds
    /\ row \in {"pending", "running"} \union Recorded
    /\ client \in [Clients -> {"idle", "checked", "applied", "done"}]
    /\ observer \in {"idle"} \union Recorded
    /\ canceller \in {"idle", "pending", "running", "Unsubmitted", "Missing", "done"}
    /\ action \in Actions /\ seen \in Actions
    /\ pass \in {"idle", "mark", "start"}
    /\ process \in {"absent", "active", "deleting", "gone"} \union Finished
    /\ runs \in Nat
    /\ late \in BOOLEAN /\ old \in BOOLEAN
    /\ faults \in 0..MaxFaults

\* expire_unstarted_action: an operation that is reported as not started was
\* never run and never will be, although the pass that gives it up may work
\* from a copy that is older than its start.
NotStartedTrue ==
    action.status = "NotStarted" \/ row = "NotStarted" => runs = 0

\* Neither a retry of the submission, nor a crash between the start and its
\* record, nor a Job that disappears makes the controller run the work again.
RunsOnce == runs <= 1

\* An action that is reported as cancelled does not run any more: its Job is
\* gone, or its command has ended or cannot be started.
CancelledIsOver ==
    action.status = "Cancelled" \/ row = "Cancelled"
    => process \notin {"active", "deleting"} /\ pass # "start"

Work ==
    IF process = "active" THEN "running"
    ELSE IF process = "deleting" THEN "stopping"
    ELSE IF runs = 0 THEN "unbegun" ELSE "over"

\* Whoever reads the row is told the truth: clients, observer, canceller and
\* controller implement the contract of an operation, in which a retry, a crash
\* between the start and its record, or a Job that disappears begins no work
\* again, and what was recorded stays true.
Contract == INSTANCE OperationContract WITH
    work    <- Work,
    outcome <- IF row \in Recorded THEN row ELSE "open"

OperationKeepsContract == Contract!Spec

\* Every action that is created comes to an end that the journal records.
OperationsEnd == action.exists ~> row \in Recorded
=============================================================================
