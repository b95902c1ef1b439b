---------------------------- MODULE ActionsProofs ---------------------------
(***************************************************************************)
(* What CellActions promises for any number of clients, crashes and        *)
(* losses, as long as nobody is away for longer than records are kept.     *)
(*                                                                         *)
(* The action is then created once (Born), so that its status and its      *)
(* cancellation never return to what they were and the controller's copy   *)
(* is only behind (Older).  When the Job of an operation that has begun is *)
(* absent, the copy says so or carries the cancellation; a command is      *)
(* claimed before it starts (Worked).  An action that is reported as not   *)
(* started, or as cancelled, is past the point where a stale copy could    *)
(* start it (NotRun, Over).                                                *)
(***************************************************************************)
EXTENDS CellActions, TLAPS

Born ==
    /\ action.created = 0 => action = NoAction
    /\ action.created <= 1
    /\ action.created # 0 /\ ~action.exists => row \in Recorded /\ ~InFlight

Older ==
    /\ seen.cancelled => action.cancelled
    /\ seen.status # "none" => action.status # "none"

WorkedJob ==
    kind = "job" =>
       /\ pass # "start"
       /\ process = "deleting" => seen.cancelled
       /\ runs # 0 /\ process = "absent" => seen.status # "none" \/ seen.cancelled

WorkedExec ==
    kind = "exec" =>
       /\ pass # "mark" /\ process # "deleting"
       /\ runs # 0 \/ pass = "start" => action.status # "none"
       /\ pass = "start" => runs = 0
       /\ seen.cancelled /\ seen.status = "none" => runs = 0 /\ pass # "start"

Worked ==
    /\ runs = 0 => process = "absent" /\ pass # "mark"
    /\ runs # 0 => runs = 1
    /\ WorkedJob /\ WorkedExec

Says(phase) == action.status = phase \/ observer = phase \/ row = phase

NotRun ==
    Says("NotStarted") =>
       late /\ runs = 0 /\ pass # "start" /\ action.status # "none"

Over ==
    Says("Cancelled") =>
       /\ action.status # "none" /\ process # "active"
       /\ kind = "job" => seen.cancelled /\ process = "absent"
       /\ kind = "exec" => pass # "start"

IInv ==
    /\ ActionsTypeOK /\ Born /\ Older /\ Worked /\ NotRun /\ Over

-----------------------------------------------------------------------------
\* Before the operation is submitted.
LEMMA InitIInv == ActionsInit => IInv
<1> SUFFICES ASSUME ActionsInit PROVE IInv
  OBVIOUS
<1> USE ActionsAssumption DEF ActionsInit, NoAction
<1>1. ActionsTypeOK
  <2>1. action \in Actions /\ seen \in Actions
    BY DEF Actions
  <2>2. late \in BOOLEAN /\ old \in BOOLEAN
    BY Zenon
  <2> QED
    BY <2>1, <2>2 DEF ActionsTypeOK, Finished, Recorded, Ended, NoAction
<1>2. Born /\ Older /\ Worked
  BY DEF Born, Older, Worked, WorkedJob, WorkedExec
<1>3. NotRun /\ Over
  BY DEF NotRun, Over, Says
<1> QED
  BY <1>1, <1>2, <1>3 DEF IInv

\* What every pass that writes a status does to the action.
LEMMA StatusSet ==
    ASSUME ActionsTypeOK, NEW status \in Ended \union {"Running"}, SetStatus(status)
    PROVE  /\ action' \in Actions
           /\ action'.created = action.created /\ action'.exists = action.exists
           /\ action'.cancelled = action.cancelled
           /\ action'.status = action.status \/ action'.status = status
           /\ action.status # "none" => action'.status # "none"
           /\ action.created = 0 /\ action = NoAction => action' = NoAction
<1> USE DEF SetStatus
<1>1. CASE action.exists
  <2>1. action' = [action EXCEPT !.status = status] /\ action \in Actions
    BY <1>1 DEF ActionsTypeOK
  <2>2. action # NoAction
    BY <1>1 DEF NoAction
  <2> QED
    BY <2>1, <2>2 DEF Actions, Ended
<1>2. CASE ~action.exists
  BY <1>2 DEF ActionsTypeOK
<1> QED
  BY <1>1, <1>2

\* A status that says neither that nothing was run nor that it was cancelled.
LEMMA PlainStatusKeeps ==
    ASSUME IInv, NEW status \in {"Running", "Succeeded", "Failed"}, SetStatus(status),
           pass' \in {pass, "idle"},
           UNCHANGED <<kind, journal, seen, process, runs, clock, faults>>
    PROVE  IInv'
<1> USE DEF IInv, journal, clock
<1>1. /\ action' \in Actions
      /\ action'.created = action.created /\ action'.exists = action.exists
      /\ action'.cancelled = action.cancelled
      /\ action'.status = action.status \/ action'.status = status
      /\ action.status # "none" => action'.status # "none"
      /\ action.created = 0 /\ action = NoAction => action' = NoAction
  BY StatusSet DEF Ended
<1>2. ActionsTypeOK'
  BY <1>1 DEF ActionsTypeOK
<1>3. Born' /\ Older'
  BY <1>1 DEF Born, Older, InFlight
<1>4. Worked'
  BY <1>1 DEF Worked, WorkedJob, WorkedExec
<1>5. NotRun'
  BY <1>1 DEF NotRun, Says
<1>6. Over'
  BY <1>1 DEF Over, Says
<1> QED
  BY <1>2, <1>3, <1>4, <1>5, <1>6

\* Steps that touch neither the action nor what the controller does about it.
LEMMA JournalKeeps ==
    ASSUME IInv,
           \/ \E c \in Clients : CheckRow(c) \/ MarkRunning(c) \/ ClientDies(c)
           \/ Observe \/ RecordObservation \/ ReadForCancel \/ RecordCancel
    PROVE  IInv'
<1> USE DEF IInv, controller, clock, Goto
<1>1. ActionsTypeOK'
  BY DEF ActionsTypeOK, Actions, CheckRow, MarkRunning, ClientDies, Observe, Observation,
     RecordObservation, ReadForCancel, RecordCancel, Settled, Recorded, Ended
<1>2. Born' /\ Older'
  BY DEF Born, Older, InFlight, ActionsTypeOK, CheckRow, MarkRunning, ClientDies, Observe,
     RecordObservation, ReadForCancel, RecordCancel, Settled, Recorded, Ended
<1>3. Worked'
  BY DEF Worked, WorkedJob, WorkedExec, CheckRow, MarkRunning, ClientDies, Observe,
     RecordObservation, ReadForCancel, RecordCancel
<1>4. UNCHANGED <<kind, action, seen, pass, process, runs, late>>
  BY DEF CheckRow, MarkRunning, ClientDies, Observe, RecordObservation, ReadForCancel,
     RecordCancel
<1>5. \A phase \in {"NotStarted", "Cancelled"} : Says(phase)' => Says(phase)
  BY <1>4 DEF Says, ActionsTypeOK, CheckRow, MarkRunning, ClientDies, Observe, Observation,
     RecordObservation, ReadForCancel, RecordCancel, Settled, Recorded, Ended
<1>6. NotRun' /\ Over'
  BY <1>4, <1>5 DEF NotRun, Over
<1> QED
  BY <1>1, <1>2, <1>3, <1>6

LEMMA FreshAction ==
    [created |-> 1, exists |-> TRUE, status |-> "none", cancelled |-> FALSE] \in Actions
BY ActionsAssumption DEF Actions

\* apply_action creates the action when it never existed.
LEMMA ApplyKeeps == ASSUME IInv, NEW c \in Clients, ApplyAction(c) PROVE IInv'
<1> USE ActionsAssumption DEF IInv, controller, Goto
<1>1. CASE action.exists /\ UNCHANGED <<action, late>>
  <2> USE <1>1 DEF ApplyAction
  <2>1. ActionsTypeOK' /\ Born' /\ Older'
    BY DEF ActionsTypeOK, Born, Older
  <2>2. Worked' /\ NotRun' /\ Over'
    BY DEF Worked, WorkedJob, WorkedExec, NotRun, Over, Says
  <2> QED
    BY <2>1, <2>2
<1>2. CASE /\ ~action.exists /\ action.created < MaxCreations
           /\ action' = [NoAction EXCEPT !.created = action.created + 1, !.exists = TRUE]
           /\ late' = FALSE
  <2> USE <1>2 DEF ApplyAction
  <2>0. InFlight
    BY DEF InFlight
  <2>1. action.created = 0 /\ action = NoAction
    BY <2>0 DEF Born
  <2>2. action' = [created |-> 1, exists |-> TRUE, status |-> "none", cancelled |-> FALSE]
    <3>1. action.created + 1 = 1
      BY <2>1
    <3> QED
      BY <3>1 DEF NoAction
  <2>3. ActionsTypeOK'
    <3>1. action' \in Actions
      BY ONLY <2>2, FreshAction
    <3>2. late' \in BOOLEAN
      BY Zenon
    <3> QED
      BY <3>1, <3>2 DEF ActionsTypeOK
  <2>4. Born' /\ Older'
    BY <2>1, <2>2 DEF Born, Older, NoAction
  <2>5. Worked'
    BY <2>1, <2>2 DEF Worked, WorkedJob, WorkedExec, NoAction
  <2>6. NotRun' /\ Over'
    BY <2>1, <2>2 DEF NotRun, Over, Says, NoAction
  <2> QED
    BY <2>3, <2>4, <2>5, <2>6
<1> QED
  BY <1>1, <1>2 DEF ApplyAction

\* request_action_cancellation only adds the annotation.
LEMMA CancelActionKeeps == ASSUME IInv, CancelAction PROVE IInv'
<1> USE DEF IInv, controller, clock, CancelAction
<1>1. /\ action' \in Actions
      /\ action'.created = action.created /\ action'.exists = action.exists
      /\ action'.status = action.status
      /\ action.cancelled => action'.cancelled
      /\ ~action.exists => action' = action
      /\ UNCHANGED <<kind, row, client, observer, seen, pass, process, runs, late, old, faults>>
  BY DEF ActionsTypeOK, Actions
<1>2. ActionsTypeOK'
  BY <1>1 DEF ActionsTypeOK
<1>3. Born' /\ Older'
  BY <1>1 DEF Born, Older, NoAction, InFlight
<1>4. Worked' /\ NotRun' /\ Over'
  BY <1>1 DEF Worked, WorkedJob, WorkedExec, NotRun, Over, Says
<1> QED
  BY <1>2, <1>3, <1>4

\* Deadlines pass, and what runs comes to an end or is lost.
LEMMA TimeKeeps ==
    ASSUME IInv, Prompt,
           \/ StartDeadlinePasses \/ GrowsOld
           \/ ProcessEnds \/ JobDeleted \/ JobReaped \/ ProcessLost
    PROVE  IInv'
<1> USE ActionsAssumption
    DEF IInv, journal, controller, clock, StartDeadlinePasses, GrowsOld, ProcessEnds,
        JobDeleted, JobReaped, ProcessLost, Fault, Finished
<1>0. late' \in BOOLEAN /\ old' \in BOOLEAN
  BY Zenon DEF ActionsTypeOK
<1>1. ActionsTypeOK'
  BY <1>0 DEF ActionsTypeOK
<1>2. Born' /\ Older'
  BY DEF Born, Older, InFlight
<1>3. Worked'
  BY DEF Worked, WorkedJob, WorkedExec, Ended, ActionsTypeOK
<1>4. NotRun'
  BY DEF NotRun, Says, ActionsTypeOK
<1>5. Over'
  BY DEF Over, Says, ActionsTypeOK
<1> QED
  BY <1>1, <1>2, <1>3, <1>4, <1>5

\* The copy becomes the action, by the watch or by a restart.
LEMMA CopyKeeps == ASSUME IInv, Watch \/ CrashController PROVE IInv'
<1> USE DEF IInv, journal, clock, Watch, CrashController, Fault
<1>1. ActionsTypeOK'
  BY ActionsAssumption DEF ActionsTypeOK
<1>2. Born' /\ Older'
  BY DEF Born, Older, InFlight
<1>3. Worked'
  BY DEF Worked, WorkedJob, WorkedExec, Older, ActionsTypeOK
<1>4. NotRun' /\ Over'
  BY DEF NotRun, Over, Says, Older
<1> QED
  BY <1>1, <1>2, <1>3, <1>4

\* Passes that write a status which is neither NotStarted nor Cancelled.
LEMMA PassKeeps ==
    ASSUME IInv, Refuse \/ MarkStarted \/ JobLost \/ ObserveJob PROVE IInv'
<1>1. \E status \in {"Running", "Succeeded", "Failed"} : SetStatus(status)
  BY DEF Refuse, MarkStarted, JobLost, ObserveJob
<1>2. /\ pass' \in {pass, "idle"}
      /\ UNCHANGED <<kind, journal, seen, process, runs, clock, faults>>
  BY DEF Refuse, MarkStarted, JobLost, ObserveJob, controller
<1> QED
  BY <1>1, <1>2, PlainStatusKeeps

\* expire_finished_action: the journal knows the result, and nobody submits.
LEMMA ExpireFinishedKeeps == ASSUME IInv, Prompt, ExpireFinished PROVE IInv'
<1> USE DEF IInv, journal, controller, clock
<1>0. /\ action' = [action EXCEPT !.exists = FALSE] /\ action \in Actions
      /\ action.created = 0 => action = NoAction
      /\ UNCHANGED <<kind, row, client, observer, canceller, seen, pass, process, runs,
                     late, old, faults>>
  BY DEF ExpireFinished, ActionsTypeOK, Born
<1>1. /\ action' \in Actions /\ action'.created = action.created
      /\ action'.status = action.status /\ action'.cancelled = action.cancelled
      /\ action.created = 0 => action' = NoAction
  <2>1. action' \in Actions
    BY ONLY <1>0 DEF Actions
  <2>2. /\ action'.created = action.created /\ action'.status = action.status
        /\ action'.cancelled = action.cancelled
    BY ONLY <1>0 DEF Actions
  <2>3. action.created # 0
    BY <1>0 DEF ExpireFinished, Ended, Older, NoAction
  <2> QED
    BY <1>0, <2>1, <2>2, <2>3
<1>5. row \in Recorded /\ ~InFlight
  BY Zenon DEF ExpireFinished
<1>2. ActionsTypeOK'
  BY <1>0, <1>1 DEF ActionsTypeOK
<1>3. Born' /\ Older'
  BY <1>0, <1>1, <1>5 DEF Born, Older, InFlight
<1>4. Worked' /\ NotRun' /\ Over'
  BY <1>0, <1>1 DEF Worked, WorkedJob, WorkedExec, NotRun, Over, Says
<1> QED
  BY <1>2, <1>3, <1>4

\* The Job is deleted, or the command is told to end.
LEMMA StopProcessKeeps == ASSUME IInv, StopProcess PROVE IInv'
<1> USE DEF IInv, journal, controller, clock, StopProcess, Finished
<1>1. ActionsTypeOK' /\ Born' /\ Older'
  BY DEF ActionsTypeOK, Born, Older, InFlight
<1>2. Worked'
  BY DEF Worked, WorkedJob, WorkedExec
<1>3. NotRun' /\ Over'
  BY DEF NotRun, Over, Says, Worked
<1> QED
  BY <1>1, <1>2, <1>3

\* An action whose Job is gone, or whose command was not claimed when it was
\* cancelled, is over: nothing starts it from then on.
LEMMA CancelUnstartedKeeps == ASSUME IInv, CancelUnstarted PROVE IInv'
<1> USE DEF IInv, journal, controller, clock, CancelUnstarted, Idle
<1>1. /\ action' \in Actions
      /\ action'.created = action.created /\ action'.exists = action.exists
      /\ action'.cancelled = action.cancelled
      /\ action'.status = action.status \/ action'.status = "Cancelled"
      /\ action.status # "none" => action'.status # "none"
      /\ action.created = 0 /\ action = NoAction => action' = NoAction
  BY StatusSet DEF Ended
<1>2. ActionsTypeOK' /\ Born' /\ Older'
  BY <1>1 DEF ActionsTypeOK, Born, Older, InFlight
<1>3. Worked' /\ NotRun'
  BY <1>1 DEF Worked, WorkedJob, WorkedExec, NotRun, Says
<1>4. kind \in {"job", "exec"} /\ seen.status \in Ended \union {"none", "Running"}
  BY ActionsAssumption DEF ActionsTypeOK, Actions
<1>5. /\ process # "active"
      /\ kind = "exec" => pass # "start"
      /\ kind = "job" => process = "absent"
  <2>1. CASE kind = "job"
    BY <2>1 DEF JobIsGone
  <2>2. CASE kind = "exec"
    <3>1. seen.cancelled /\ seen.status = "none"
      BY <1>4, <2>2 DEF ExecutionStarted
    <3> QED
      BY <2>2, <3>1 DEF Worked, WorkedExec
  <2> QED
    BY <1>4, <2>1, <2>2
<1>6. /\ UNCHANGED <<kind, row, observer, seen, pass, process>> /\ seen.cancelled
  OBVIOUS
<1>7. Says("Cancelled")' => action'.status # "none"
  <2>1. CASE action'.status = "Cancelled"
    BY <2>1
  <2>2. CASE action'.status # "Cancelled"
    BY <1>1, <1>6, <2>2 DEF Over, Says
  <2> QED
    BY <2>1, <2>2
<1>8. Over'
  BY <1>5, <1>6, <1>7 DEF Over
<1> QED
  BY <1>2, <1>3, <1>8

\* expire_unstarted_action: the fence makes the copy the action itself.
LEMMA ExpireUnstartedKeeps == ASSUME IInv, ExpireUnstarted PROVE IInv'
<1> USE DEF IInv, journal, controller, clock, ExpireUnstarted, Idle, Works, Due,
            CopyIsCurrent
<1>1. /\ action' \in Actions
      /\ action'.created = action.created /\ action'.exists = action.exists
      /\ action'.cancelled = action.cancelled
      /\ action'.status = action.status \/ action'.status = "NotStarted"
      /\ action.status # "none" => action'.status # "none"
      /\ action.created = 0 /\ action = NoAction => action' = NoAction
  BY StatusSet DEF Ended
<1>2. ActionsTypeOK' /\ Born' /\ Older'
  BY <1>1 DEF ActionsTypeOK, Born, Older, InFlight
<1>3. Worked' /\ Over'
  BY <1>1 DEF Worked, WorkedJob, WorkedExec, Over, Says
<1>4. late /\ action.status = "none" /\ ~action.cancelled /\ action.exists
  BY DEF ActionsTypeOK, Actions, ExecutionStarted
<1>5. runs = 0
  BY <1>4, ActionsAssumption DEF Worked, WorkedJob, WorkedExec, JobIsGone, ActionsTypeOK
<1>6. action'.status = "NotStarted"
  BY <1>4 DEF SetStatus, ActionsTypeOK, Actions
<1>7. NotRun'
  BY <1>4, <1>5, <1>6 DEF NotRun
<1> QED
  BY <1>2, <1>3, <1>7

\* A Job is created only for an action whose copy shows neither a start nor a
\* cancellation, and when there is no Job.
LEMMA CreateJobKeeps == ASSUME IInv, CreateJob PROVE IInv'
<1> USE DEF IInv, journal, controller, clock, CreateJob, Idle, Works
<1>1. /\ kind = "job" /\ process = "absent" /\ ~late /\ ~seen.cancelled
      /\ seen.status = "none"
  BY DEF Due, JobIsGone, ExecutionStarted, ActionsTypeOK, Actions
<1>2. runs = 0
  BY <1>1 DEF Worked, WorkedJob
<1>3. ActionsTypeOK' /\ Born' /\ Older'
  BY <1>2 DEF ActionsTypeOK, Born, Older, InFlight
<1>4. Worked'
  BY <1>1, <1>2 DEF Worked, WorkedJob, WorkedExec
<1>5. NotRun' /\ Over'
  BY <1>1 DEF NotRun, Over, Says
<1> QED
  BY <1>3, <1>4, <1>5

\* A command is claimed by a write that is fenced on an action without a start.
LEMMA ClaimStartKeeps == ASSUME IInv, ClaimStart PROVE IInv'
<1> USE DEF IInv, journal, controller, clock, ClaimStart, Idle, Works, CopyIsCurrent
<1>1. /\ action' \in Actions
      /\ action'.created = action.created /\ action'.exists = action.exists
      /\ action'.cancelled = action.cancelled
      /\ action'.status = action.status \/ action'.status = "Running"
      /\ action.status # "none" => action'.status # "none"
      /\ action.created = 0 /\ action = NoAction => action' = NoAction
  BY StatusSet
<1>2. /\ kind = "exec" /\ action.status = "none" /\ action.exists /\ ~seen.cancelled
      /\ action'.status = "Running"
  BY DEF ExecutionStarted, ActionsTypeOK, Actions, SetStatus
<1>3. runs = 0 /\ process = "absent"
  BY <1>2 DEF Worked, WorkedExec
<1>4. ActionsTypeOK' /\ Born' /\ Older'
  BY <1>1 DEF ActionsTypeOK, Born, Older, InFlight
<1>5. Worked'
  BY <1>2, <1>3 DEF Worked, WorkedJob, WorkedExec
<1>6. ~Says("NotStarted")' /\ ~Says("Cancelled")'
  BY <1>2 DEF NotRun, Over, Says
<1>7. NotRun' /\ Over'
  BY <1>6 DEF NotRun, Over
<1> QED
  BY <1>4, <1>5, <1>7

LEMMA StartCommandKeeps == ASSUME IInv, StartCommand PROVE IInv'
<1> USE DEF IInv, journal, controller, clock, StartCommand, Fault
<1>1. pass = "start" /\ kind = "exec" /\ runs = 0 /\ action.status # "none"
  BY ActionsAssumption DEF Worked, WorkedJob, WorkedExec, ActionsTypeOK
<1>2. ActionsTypeOK' /\ Born' /\ Older'
  BY <1>1, ActionsAssumption DEF ActionsTypeOK, Born, Older, InFlight
<1>3. Worked'
  BY <1>1 DEF Worked, WorkedJob, WorkedExec
<1>4. NotRun' /\ Over'
  BY <1>1 DEF NotRun, Over, Says
<1> QED
  BY <1>2, <1>3, <1>4

\* A receipt is collected from a command that has ended, or that is lost.
LEMMA CollectReceiptKeeps == ASSUME IInv, CollectReceipt PROVE IInv'
<1> USE DEF CollectReceipt, Idle
<1>1. CASE process = "cancelled" /\ SetStatus("Cancelled")
  <2> USE <1>1 DEF IInv, journal, controller, clock
  <2>1. /\ action' \in Actions
        /\ action'.created = action.created /\ action'.exists = action.exists
        /\ action'.cancelled = action.cancelled
        /\ action'.status = action.status \/ action'.status = "Cancelled"
        /\ action.status # "none" => action'.status # "none"
        /\ action.created = 0 /\ action = NoAction => action' = NoAction
    BY StatusSet DEF Ended
  <2>2. ActionsTypeOK' /\ Born' /\ Older'
    BY <2>1 DEF ActionsTypeOK, Born, Older, InFlight
  <2>3. Worked' /\ NotRun'
    BY <2>1 DEF Worked, WorkedJob, WorkedExec, NotRun, Says
  <2>4. action.status # "none"
    BY DEF ExecutionStarted, Older
  <2>5. Over'
    BY <2>1, <2>4 DEF Over
  <2> QED
    BY <2>2, <2>3, <2>5
<1>2. CASE SetStatus("Succeeded") \/ SetStatus("Failed")
  <2>1. pass' \in {pass, "idle"}
        /\ UNCHANGED <<kind, journal, seen, process, runs, clock, faults>>
    BY DEF controller
  <2> QED
    BY <1>2, <2>1, PlainStatusKeeps
<1> QED
  BY <1>1, <1>2

LEMMA StepKeeps == IInv /\ Prompt /\ [ActionsNext]_vars => IInv'
<1> SUFFICES ASSUME IInv, Prompt, [ActionsNext]_vars PROVE IInv'
  OBVIOUS
<1>1. CASE UNCHANGED vars
  <2> USE <1>1 DEF IInv, vars, journal, controller, clock
  <2>1. ActionsTypeOK' /\ Born' /\ Older'
    BY DEF ActionsTypeOK, Born, Older, InFlight
  <2>2. Worked' /\ NotRun' /\ Over'
    BY DEF Worked, WorkedJob, WorkedExec, NotRun, Over, Says
  <2> QED
    BY <2>1, <2>2
<1>2. ASSUME NEW c \in Clients, CheckRow(c) \/ MarkRunning(c) \/ ClientDies(c)
      PROVE  IInv'
  BY <1>2, JournalKeeps
<1>3. CASE Observer \/ ReadForCancel \/ RecordCancel
  BY <1>3, JournalKeeps DEF Observer
<1>4. CASE Pass \/ Refuse
  BY <1>4, PassKeeps, ExpireFinishedKeeps, StopProcessKeeps, CancelUnstartedKeeps,
     ExpireUnstartedKeeps, CreateJobKeeps, ClaimStartKeeps, StartCommandKeeps,
     CollectReceiptKeeps DEF Pass
<1> QED
  BY <1>1, <1>2, <1>3, <1>4, ApplyKeeps, CancelActionKeeps, TimeKeeps, CopyKeeps
     DEF ActionsNext

LEMMA Invariance == ASSUME Prompt PROVE ActionsSpec => []IInv
<1>1. IInv /\ [ActionsNext]_vars => IInv'
  BY StepKeeps
<1> QED
  BY <1>1, InitIInv, PTL DEF ActionsSpec

-----------------------------------------------------------------------------
\* The row, the action, its copy and the work keep their types, and an action
\* is created at most once.
THEOREM ActionsTyped == ASSUME Prompt PROVE ActionsSpec => []ActionsTypeOK
<1>1. IInv => ActionsTypeOK
  BY DEF IInv
<1> QED
  BY <1>1, Invariance, PTL

\* Nothing ran, and nothing will, of an operation that is reported as not
\* started within its deadline (expire_unstarted_action).
THEOREM UnstartedNeverRan == ASSUME Prompt PROVE ActionsSpec => []NotStartedTrue
<1>1. IInv => NotStartedTrue
  BY DEF IInv, NotRun, Says, NotStartedTrue
<1> QED
  BY <1>1, Invariance, PTL

\* However many clients submit and retry, the controller starts the work of an
\* operation at most once (action_execution_started, the start claim).
THEOREM WorkRunsOnce == ASSUME Prompt PROVE ActionsSpec => []RunsOnce
<1>1. IInv => RunsOnce
  BY DEF IInv, Worked, RunsOnce
<1> QED
  BY <1>1, Invariance, PTL

\* Work that is reported as cancelled is over (reconcile_action_cancellation).
THEOREM CancelledWorkIsOver == ASSUME Prompt PROVE ActionsSpec => []CancelledIsOver
<1>1. IInv => CancelledIsOver
  BY ActionsAssumption DEF IInv, Over, Says, CancelledIsOver, Worked, WorkedJob, WorkedExec,
     ActionsTypeOK
<1> QED
  BY <1>1, Invariance, PTL

-----------------------------------------------------------------------------
(* The contract of an operation (OperationContract).  Beyond IInv it needs *)
(* that a success is told only of work that is over.                       *)

Done == Says("Succeeded") => runs # 0 /\ process # "active"

\* Nothing is told at first.
LEMMA DoneInit == ActionsInit => Done
  BY DEF ActionsInit, Done, Says, NoAction

\* Work becomes active only by the creation of a Job or the start of a command,
\* and what was started remains so.
LEMMA WorkMoves ==
    ASSUME IInv, Prompt, [ActionsNext]_vars
    PROVE  /\ runs # 0 => runs' # 0
           /\ process' = "active" => \/ process = "active"
                                     \/ CreateJob \/ StartCommand
<1> USE DEF IInv, ActionsTypeOK
<1>1. CASE UNCHANGED vars
  BY <1>1 DEF vars
<1>2. ASSUME NEW c \in Clients,
             CheckRow(c) \/ ApplyAction(c) \/ MarkRunning(c) \/ ClientDies(c)
      PROVE  UNCHANGED <<process, runs>>
  BY <1>2 DEF CheckRow, ApplyAction, MarkRunning, ClientDies
<1>3. CASE Observer \/ ReadForCancel \/ CancelAction \/ RecordCancel
           \/ StartDeadlinePasses \/ GrowsOld \/ Watch \/ Refuse \/ CrashController
  BY <1>3 DEF Observer, Observe, RecordObservation, ReadForCancel, CancelAction,
              RecordCancel, StartDeadlinePasses, GrowsOld, Watch, Refuse,
              CrashController
<1>4. CASE ProcessEnds \/ JobDeleted \/ JobReaped \/ ProcessLost
  BY <1>4 DEF ProcessEnds, JobDeleted, JobReaped, ProcessLost
<1>5. CASE Pass
  BY <1>5 DEF Pass, ExpireFinished, StopProcess, CancelUnstarted, ExpireUnstarted,
              CreateJob, MarkStarted, JobLost, ObserveJob, ClaimStart, StartCommand,
              CollectReceipt
<1>6. QED
  BY <1>1, <1>2, <1>3, <1>4, <1>5 DEF ActionsNext

\* What starts had never run, and nobody was told that it would not.
LEMMA StartsFresh ==
    ASSUME IInv, Prompt, [ActionsNext]_vars, CreateJob \/ StartCommand
    PROVE  /\ runs = 0 /\ process = "absent"
           /\ ~Says("NotStarted") /\ ~Says("Cancelled")
<1>1. CASE CreateJob
  <2>1. /\ kind = "job" /\ process = "absent" /\ ~late /\ ~seen.cancelled
        /\ seen.status = "none"
    BY <1>1 DEF CreateJob, Works, Due, JobIsGone, ExecutionStarted, IInv, ActionsTypeOK,
                Actions
  <2>2. runs = 0
    BY <2>1 DEF IInv, Worked, WorkedJob
  <2>3. QED
    BY <2>1, <2>2 DEF IInv, NotRun, Over
<1>2. CASE StartCommand
  <2>1. pass = "start" /\ kind = "exec" /\ runs = 0
    BY <1>2, ActionsAssumption DEF StartCommand, IInv, Worked, WorkedJob, WorkedExec,
                                   ActionsTypeOK
  <2>2. QED
    BY <2>1 DEF IInv, NotRun, Over, Worked
<1>3. QED
  BY <1>1, <1>2

\* A success is first told by a pass that finds the work succeeded (observe_job,
\* the receipt of a command); everybody else repeats it.
LEMMA SuccessIsSeen ==
    ASSUME IInv, Prompt, [ActionsNext]_vars, Says("Succeeded")', ~Says("Succeeded")
    PROVE  runs # 0 /\ process = "succeeded" /\ UNCHANGED <<runs, process>>
<1>0. action \in Actions /\ (process # "absent" => runs # 0)
  BY DEF IInv, ActionsTypeOK, Worked
<1> DEFINE Quiet == action'.status = "Succeeded" => action.status = "Succeeded"
<1>1. ASSUME NEW s \in {"Running", "Failed", "NotStarted", "Cancelled"}, SetStatus(s)
      PROVE  Quiet
  BY <1>0, <1>1 DEF SetStatus, Actions
<1>2. CASE UNCHANGED vars
  BY <1>2 DEF vars, journal, Says
<1>3. ASSUME NEW c \in Clients,
             CheckRow(c) \/ ApplyAction(c) \/ MarkRunning(c) \/ ClientDies(c)
      PROVE  FALSE
  <2>1. Quiet
    BY <1>0, <1>3 DEF CheckRow, ApplyAction, MarkRunning, ClientDies, NoAction
  <2>2. QED
    BY <1>3, <2>1 DEF CheckRow, ApplyAction, MarkRunning, ClientDies, Says
<1>4. CASE Observer \/ ReadForCancel \/ RecordCancel
  <2>1. canceller # "Succeeded"
    BY DEF IInv, ActionsTypeOK
  <2>2. QED
    BY <1>4, <2>1 DEF Observer, Observe, RecordObservation, ReadForCancel, RecordCancel,
                      Observation, Settled, Says
<1>5. CASE CancelAction
  <2>1. Quiet
    BY <1>0, <1>5 DEF CancelAction, Actions
  <2>2. QED
    BY <1>5, <2>1 DEF CancelAction, Says
<1>6. CASE \/ StartDeadlinePasses \/ GrowsOld \/ Watch \/ CrashController
           \/ ProcessEnds \/ JobDeleted \/ JobReaped \/ ProcessLost
           \/ StopProcess \/ CreateJob \/ StartCommand
  BY <1>6 DEF StartDeadlinePasses, GrowsOld, Watch, CrashController, ProcessEnds,
              JobDeleted, JobReaped, ProcessLost, StopProcess, CreateJob, StartCommand,
              journal, Says
<1>7. CASE ExpireFinished
  <2>1. Quiet
    BY <1>0, <1>7 DEF ExpireFinished, Actions
  <2>2. QED
    BY <1>7, <2>1 DEF ExpireFinished, journal, Says
<1>8. CASE CancelUnstarted \/ ExpireUnstarted \/ Refuse \/ MarkStarted \/ JobLost
           \/ ClaimStart
  <2>1. Quiet
    BY <1>1, <1>8 DEF CancelUnstarted, ExpireUnstarted, Refuse, MarkStarted, JobLost,
                      ClaimStart
  <2>2. QED
    BY <1>8, <2>1 DEF CancelUnstarted, ExpireUnstarted, Refuse, MarkStarted, JobLost,
                      ClaimStart, journal, Says
<1>9. CASE ObserveJob \/ CollectReceipt
  <2>1. UNCHANGED <<row, observer, runs, process>>
    BY <1>9 DEF ObserveJob, CollectReceipt, journal
  <2>2. ~Quiet
    BY <2>1 DEF Says
  <2>3. process = "succeeded"
    BY <1>1, <1>9, <2>2 DEF ObserveJob, CollectReceipt
  <2>4. QED
    BY <1>0, <2>1, <2>3
<1>10. QED
  BY <1>2, <1>3, <1>4, <1>5, <1>6, <1>7, <1>8, <1>9 DEF ActionsNext, Pass

\* Work that has run is never started, so that a success stays true.
LEMMA DoneKept == IInv /\ Done /\ Prompt /\ [ActionsNext]_vars => Done'
<1> SUFFICES ASSUME IInv, Done, Prompt, [ActionsNext]_vars, Says("Succeeded")'
             PROVE  runs' # 0 /\ process' # "active"
  BY DEF Done
<1>1. CASE Says("Succeeded")
  BY <1>1, WorkMoves, StartsFresh DEF Done
<1>2. CASE ~Says("Succeeded")
  BY <1>2, SuccessIsSeen
<1>3. QED
  BY <1>1, <1>2

\* So it is in every state.
LEMMA DoneHolds == ASSUME Prompt PROVE ActionsSpec => []Done
<1>1. IInv /\ Done /\ [ActionsNext]_vars => Done'
  BY DoneKept
<1>2. QED
  BY <1>1, DoneInit, Invariance, PTL DEF ActionsSpec

\* The row takes one outcome: the observer's, or one about a missing action.
LEMMA RowMoves ==
    ASSUME IInv, [ActionsNext]_vars, row' # row
    PROVE  /\ UNCHANGED <<process, runs>>
           /\ row \notin Recorded
           /\ \/ row' \notin Recorded
              \/ row' \in {"Missing", "Unsubmitted"}
              \/ row' = observer
<1>1. ASSUME NEW c \in Clients,
             CheckRow(c) \/ ApplyAction(c) \/ MarkRunning(c) \/ ClientDies(c)
      PROVE  /\ UNCHANGED <<process, runs>>
             /\ row = "pending" /\ row' = "running"
  BY <1>1 DEF CheckRow, ApplyAction, MarkRunning, ClientDies
<1>2. CASE RecordObservation
  BY <1>2 DEF RecordObservation, Settled
<1>3. CASE RecordCancel
  <2>1. canceller \in {"Missing", "Unsubmitted"}
    BY <1>3 DEF RecordCancel, IInv, ActionsTypeOK, Recorded, Ended
  <2>2. QED
    BY <1>3, <2>1 DEF RecordCancel, Settled
<1>4. row' = row \/ RecordObservation \/ RecordCancel
        \/ \E c \in Clients :
              CheckRow(c) \/ ApplyAction(c) \/ MarkRunning(c) \/ ClientDies(c)
  <2>1. CASE UNCHANGED vars
    BY <2>1 DEF vars, journal
  <2>2. CASE Observe \/ ReadForCancel \/ CancelAction \/ StartDeadlinePasses \/ GrowsOld
             \/ ProcessEnds \/ JobDeleted \/ JobReaped \/ ProcessLost
             \/ Watch \/ Refuse \/ CrashController
    BY <2>2 DEF Observe, ReadForCancel, CancelAction, StartDeadlinePasses, GrowsOld,
                ProcessEnds, JobDeleted, JobReaped, ProcessLost, Watch, Refuse,
                CrashController, journal
  <2>3. CASE Pass
    BY <2>3 DEF Pass, ExpireFinished, StopProcess, CancelUnstarted, ExpireUnstarted,
                CreateJob, MarkStarted, JobLost, ObserveJob, ClaimStart, StartCommand,
                CollectReceipt, journal
  <2>4. QED
    BY <2>1, <2>2, <2>3 DEF ActionsNext, Observer
<1>5. \A r : r \in {"pending", "running"} => r \notin Recorded
  BY DEF Recorded, Ended
<1>6. QED
  BY <1>1, <1>2, <1>3, <1>4, <1>5

\* The work begins once; then it ends, or its Job is deleted.
LEMMA ProcessMoves ==
    ASSUME IInv, Prompt, [ActionsNext]_vars, <<process, runs>>' # <<process, runs>>
    PROVE  \/ /\ CreateJob \/ StartCommand
              /\ process' = "active" /\ runs' = 1
           \/ /\ runs # 0 /\ runs' = runs
              /\ \/ process' \notin {"active", "deleting"}
                 \/ /\ process' = "deleting" /\ process # "deleting"
                    /\ kind = "job" /\ process # "absent"
<1>0. process # "absent" => runs # 0
  BY DEF IInv, Worked
<1>1. ASSUME NEW c \in Clients,
             CheckRow(c) \/ ApplyAction(c) \/ MarkRunning(c) \/ ClientDies(c)
      PROVE  FALSE
  BY <1>1 DEF CheckRow, ApplyAction, MarkRunning, ClientDies
<1>2. CASE \/ Observer \/ ReadForCancel \/ CancelAction \/ RecordCancel
           \/ StartDeadlinePasses \/ GrowsOld \/ Watch \/ Refuse \/ CrashController
           \/ UNCHANGED vars
  BY <1>2 DEF Observer, Observe, RecordObservation, ReadForCancel, CancelAction,
              RecordCancel, StartDeadlinePasses, GrowsOld, Watch, Refuse,
              CrashController, vars
<1>3. CASE ProcessEnds \/ JobDeleted \/ JobReaped \/ ProcessLost
  BY <1>0, <1>3 DEF ProcessEnds, JobDeleted, JobReaped, ProcessLost, Finished
<1>4. CASE StopProcess
  BY <1>0, <1>4 DEF StopProcess, Finished
<1>5. CASE CreateJob \/ StartCommand
  <2>1. runs = 0 /\ process = "absent"
    BY <1>5, StartsFresh
  <2>2. QED
    BY <1>5, <2>1 DEF CreateJob, StartCommand
<1>6. CASE \/ ExpireFinished \/ CancelUnstarted \/ ExpireUnstarted \/ MarkStarted
           \/ JobLost \/ ObserveJob \/ ClaimStart \/ CollectReceipt
  BY <1>6 DEF ExpireFinished, CancelUnstarted, ExpireUnstarted, MarkStarted, JobLost,
              ObserveJob, ClaimStart, CollectReceipt
<1>7. QED
  BY <1>1, <1>2, <1>3, <1>4, <1>5, <1>6 DEF ActionsNext, Pass

\* Nothing has begun and nothing was told.
LEMMA ContractInit == ActionsInit => Contract!Init
  BY DEF ActionsInit, Contract!Init, Work, Recorded, Ended

\* Every step is one of the contract's: a start begins the work, the first
\* outcome is told and is true when it is told.
LEMMA ContractStep ==
    ASSUME IInv, Done, Prompt, [ActionsNext]_vars
    PROVE  [Contract!Next]_Contract!contractVars
<1> DEFINE Told == IF row \in Recorded THEN row ELSE "open"
<1>0. /\ Recorded = Contract!Outcomes /\ "open" \notin Recorded
      /\ {"pending", "running"} \intersect Recorded = {}
  BY DEF Recorded, Ended, Contract!Outcomes
<1>1. CASE UNCHANGED <<row, process, runs>>
  BY <1>1 DEF Work, Contract!contractVars
<1>2. CASE row' # row
  <2>1. Work' = Work /\ Told = "open"
    BY <1>2, RowMoves DEF Work
  <2>2. CASE row' \notin Recorded
    BY <2>1, <2>2 DEF Contract!contractVars
  <2>3. CASE row' \in Recorded
    <3>1. /\ row' = "NotStarted" => Says("NotStarted")
          /\ row' = "Cancelled" => Says("Cancelled")
          /\ row' = "Succeeded" => Says("Succeeded")
      BY <1>2, <2>3, RowMoves DEF Says
    <3>2. Contract!Holds(row')
      <4>1. row' = "NotStarted" => Work = "unbegun"
        BY <3>1 DEF IInv, NotRun, Worked, Work
      <4>2. row' = "Cancelled" => Work \in {"unbegun", "over"}
        BY <3>1, ActionsAssumption
           DEF IInv, Over, Worked, WorkedExec, ActionsTypeOK, Work
      <4>3. row' = "Succeeded" => Work \in {"stopping", "over"}
        BY <3>1 DEF Done, Work
      <4>4. QED
        BY <4>1, <4>2, <4>3 DEF Contract!Holds
    <3>3. Contract!Tell(row')
      BY <2>1, <2>3, <3>2 DEF Contract!Tell
    <3>4. QED
      BY <1>0, <2>3, <3>3 DEF Contract!Next
  <2>4. QED
    BY <2>2, <2>3
<1>3. CASE row' = row /\ <<process, runs>>' # <<process, runs>>
  <2>1. CASE CreateJob \/ StartCommand
    <3>1. Work = "unbegun" /\ ~Says("NotStarted") /\ ~Says("Cancelled")
      BY <2>1, StartsFresh DEF Work
    <3>2. ~Says("Succeeded")
      BY <2>1, StartsFresh DEF Done
    <3>3. process' = "active"
      BY <1>3, <2>1, StartsFresh, ProcessMoves
    <3>4. Work' = "running"
      BY <3>3 DEF Work
    <3>5. Contract!Begin
      BY <1>3, <3>1, <3>2, <3>4 DEF Contract!Begin, Says
    <3>6. QED
      BY <3>5 DEF Contract!Next
  <2>2. CASE ~(CreateJob \/ StartCommand)
    <3>1. /\ runs # 0 /\ runs' = runs
          /\ \/ process' \notin {"active", "deleting"}
             \/ /\ process' = "deleting" /\ process # "deleting"
                /\ kind = "job" /\ process # "absent"
      BY <1>3, <2>2, ProcessMoves
    <3>2. CASE process' \notin {"active", "deleting"}
      <4>1. Work' = "over" /\ Work \in {"running", "stopping", "over"}
        BY <3>1, <3>2 DEF Work
      <4>2. Contract!End \/ UNCHANGED Contract!contractVars
        BY <1>3, <4>1 DEF Contract!End, Contract!contractVars
      <4>3. QED
        BY <4>2 DEF Contract!Next
    <3>3. CASE process' = "deleting" /\ process # "deleting"
               /\ kind = "job" /\ process # "absent"
      <4>1. Work' = "stopping" /\ Work \in {"running", "over"}
        BY <3>1, <3>3 DEF Work
      <4>2. Told # "Cancelled"
        BY <3>3 DEF IInv, Over, Says
      <4>3. Contract!Stop
        BY <1>3, <4>1, <4>2 DEF Contract!Stop
      <4>4. QED
        BY <4>3 DEF Contract!Next
    <3>4. QED
      BY <3>1, <3>2, <3>3
  <2>3. QED
    BY <2>1, <2>2
<1>4. QED
  BY <1>1, <1>2, <1>3

\* Clients, observer, canceller and controller implement the contract of the
\* operation, for any number of them and any number of crashes and losses, as
\* long as nobody is away for longer than records are kept.
THEOREM ActionsImplementContract ==
    ASSUME Prompt PROVE ActionsSpec => OperationKeepsContract
<1>1. IInv /\ Done /\ [ActionsNext]_vars => [Contract!Next]_Contract!contractVars
  BY ContractStep
<1>2. QED
  BY <1>1, ContractInit, Invariance, DoneHolds, PTL
     DEF ActionsSpec, OperationKeepsContract, Contract!Spec
=============================================================================
