------------------------- MODULE ComponentControls --------------------------
(***************************************************************************)
(* Start, stop and restart of one component.                               *)
(*                                                                         *)
(* A control is an action; its reconcile writes what it wants into         *)
(* annotations of the workload object, together with its place in the      *)
(* order of operations, then waits until the pods are there or gone.  The  *)
(* reconcile of the cell renders the same object again and again and has   *)
(* to carry the intent over.  Both read the object, decide, and write it   *)
(* under the version they read; Kubernetes works on the pods meanwhile and *)
(* its status writes change the version too.  A write under an older       *)
(* version is refused and the pass starts over, as it does when the        *)
(* controller restarts: what it had read is as good as never read.         *)
(***************************************************************************)
EXTENDS Naturals, FiniteSets

CONSTANTS
    Controls,   \* actions on the component
    kind,       \* what each of them does
    NoControl,
    Cell,         \* the reconcile of the cell
    Edits,        \* edits of the component, 0 is the cell as it was created
    Replacements  \* those that put another component in its place

ASSUME ControlsAssumption ==
    /\ IsFiniteSet(Controls)
    /\ kind \in [Controls -> {"start", "stop", "restart"}]
    /\ NoControl \notin Controls /\ Cell \notin Controls
    /\ Edits \subseteq Nat \ {0} /\ Replacements \subseteq Edits

VARIABLES
    submitted,  \* how many controls have a place in the order
    seq,        \* the place of every control, 0 before it is submitted
    status,     \* status phase of every control
    pinned,     \* the edit of the component that a control was accepted for
    plan,       \* the last edit of the component
    workload,   \* the workload object
    pods,       \* the pods of the component and the template they run
    readers,    \* reconciles that have read the object and are to write it
    rendering,  \* the edit that the cell renders
    rollouts    \* pods restarted in the name of every control

operations == <<submitted, seq, status, pinned>>
cluster    == <<workload, pods>>
passes     == <<readers, rendering>>
vars       == <<operations, plan, cluster, passes, rollouts>>

-----------------------------------------------------------------------------
Ended == {"Succeeded", "Failed", "Cancelled"}

\* Other edits leave the component what it is, with its data.
SameComponent(i, j) == i = j \/ {i, j} \cap Replacements = {}

MatchesPlan(c) == workload.plan = pinned[c]

\* Faulty variant: controls are not ordered.
NeverSuperseded(c) == FALSE

Superseded(c) == workload.seq > seq[c]

Wanted(c) == IF kind[c] = "stop" THEN "stopped" ELSE "running"

NotRunning(c) ==
    kind[c] = "restart" /\ (workload.replicas = 0 \/ workload.state = "stopped")

Unapplied(c) ==
    \/ workload.seq < seq[c]
    \/ workload.state # Wanted(c)
    \/ kind[c] = "restart" /\ workload.token # c

\* Faulty variant: the replica counter is believed.
CountedConverged(c) ==
    IF kind[c] = "stop" THEN workload.replicas = 0 /\ pods.phase # "up"
    ELSE pods.phase = "up"

\* A stop also waits for pods that are still terminating.
Converged(c) ==
    IF kind[c] = "stop" THEN workload.replicas = 0 /\ pods.phase = "gone"
    ELSE /\ workload.replicas = 1 /\ pods.phase = "up"
         /\ pods.token = workload.token /\ pods.plan = workload.plan

Applied(c) ==
    [workload EXCEPT
        !.state = Wanted(c), !.seq = seq[c],
        !.replicas = IF kind[c] = "stop" THEN 0 ELSE 1,
        !.token = IF kind[c] = "restart" THEN c ELSE @]

\* Faulty variant: rendering forgets who asked for the last restart.
TokenlessPreserved(to) ==
    [workload EXCEPT
        !.plan = to, !.token = NoControl,
        !.state = IF SameComponent(workload.plan, to) \/ @ = "none" THEN @ ELSE "running",
        !.replicas = IF SameComponent(workload.plan, to) /\ workload.state # "none"
                     THEN @ ELSE 1]

\* Rendering carries the intent over to the same component; another component
\* in its place starts running and keeps only the place in the order.
Preserved(to) ==
    [workload EXCEPT
        !.plan = to,
        !.state = IF SameComponent(workload.plan, to) \/ @ = "none" THEN @ ELSE "running",
        !.replicas = IF SameComponent(workload.plan, to) /\ workload.state # "none"
                     THEN @ ELSE 1,
        !.token = IF SameComponent(workload.plan, to) THEN @ ELSE NoControl]

\* Faulty variant: the version that was read is not sent along.
AnyVersion(others) == others

\* Who may still write under the version that it has read, when it changes.
StillCurrent(others) == {}

-----------------------------------------------------------------------------
ControlsInit ==
    /\ submitted = 0
    /\ seq = [c \in Controls |-> 0]
    /\ status = [c \in Controls |-> "absent"]
    /\ pinned = [c \in Controls |-> 0]
    /\ plan = 0
    /\ workload = [state |-> "none", seq |-> 0, replicas |-> 1,
                   token |-> NoControl, plan |-> 0]
    /\ pods = [phase |-> "up", token |-> NoControl, plan |-> 0]
    /\ readers = {}
    /\ rendering = 0
    /\ rollouts = [c \in Controls |-> 0]

Submit(c) ==
    /\ status[c] = "absent"
    /\ submitted' = submitted + 1
    /\ seq' = [seq EXCEPT ![c] = submitted + 1]
    /\ status' = [status EXCEPT ![c] = "none"]
    /\ pinned' = [pinned EXCEPT ![c] = plan]
    /\ UNCHANGED <<plan, cluster, passes, rollouts>>

\* One edit of the cell changes the component or replaces it by another one.
Edit ==
    /\ plan = 0 /\ plan' \in Edits
    /\ UNCHANGED <<operations, cluster, passes, rollouts>>

-----------------------------------------------------------------------------
(* The reconcile of a control.                                             *)

SetStatus(c, phase) ==
    /\ status' = [status EXCEPT ![c] = phase]
    /\ UNCHANGED <<submitted, seq, pinned>>

\* A cancellation, or a component out of the state that the control requires:
\* what has begun may have changed the workload, so it only counts as failed.
Refuse(c) ==
    /\ c \notin readers
    /\ \/ status[c] = "none" /\ \E phase \in {"Failed", "Cancelled"} : SetStatus(c, phase)
       \/ status[c] = "Running" /\ SetStatus(c, "Failed")
    /\ UNCHANGED <<plan, cluster, passes, rollouts>>

Begin(c) ==
    /\ status[c] = "none"
    /\ SetStatus(c, "Running")
    /\ UNCHANGED <<plan, cluster, passes, rollouts>>

ReadWorkload(c) ==
    /\ status[c] = "Running" /\ c \notin readers
    /\ IF ~MatchesPlan(c) \/ Superseded(c) \/ NotRunning(c)
       THEN SetStatus(c, "Failed") /\ UNCHANGED readers
       ELSE IF Unapplied(c)
       THEN readers' = readers \union {c} /\ UNCHANGED operations
       ELSE Converged(c) /\ SetStatus(c, "Succeeded") /\ UNCHANGED readers
    /\ UNCHANGED <<plan, cluster, rendering, rollouts>>

PatchWorkload(c) ==
    /\ c \in readers
    /\ workload' = Applied(c)
    /\ readers' = StillCurrent(readers \ {c})
    /\ UNCHANGED <<operations, plan, pods, rendering, rollouts>>

-----------------------------------------------------------------------------
(* The reconcile of the cell, and Kubernetes.                              *)

ReadForRendering ==
    /\ Cell \notin readers
    /\ readers' = readers \union {Cell}
    /\ rendering' = plan
    /\ UNCHANGED <<operations, plan, cluster, rollouts>>

\* Rendering what is there already makes no new version.
Render ==
    /\ Cell \in readers
    /\ workload' = Preserved(rendering)
    /\ readers' = IF workload' = workload THEN readers \ {Cell}
                  ELSE StillCurrent(readers \ {Cell})
    /\ rendering' = 0
    /\ UNCHANGED <<operations, plan, pods, rollouts>>

Roll ==
    pods' = [phase |-> "up", token |-> workload.token, plan |-> workload.plan]

\* Pods that run an older template are replaced.
ReplacePods ==
    /\ workload.replicas = 1 /\ pods.phase = "up"
    /\ pods.token # workload.token \/ pods.plan # workload.plan
    /\ Roll
    /\ rollouts' = [c \in Controls |->
                      rollouts[c] + IF c = workload.token /\ pods.token # c
                                    THEN 1 ELSE 0]

StartPods ==
    /\ workload.replicas = 1 /\ pods.phase = "gone"
    /\ Roll
    /\ UNCHANGED rollouts

StopPods ==
    /\ \/ pods.phase = "up" /\ workload.replicas = 0
       \/ pods.phase = "ending"
    /\ pods' = [pods EXCEPT !.phase = IF @ = "up" THEN "ending" ELSE "gone"]
    /\ UNCHANGED rollouts

\* What becomes of the pods is written into the status of the object.
Kubernetes ==
    /\ ReplacePods \/ StartPods \/ StopPods
    /\ readers' = StillCurrent(readers)
    /\ UNCHANGED <<operations, plan, workload, rendering>>

-----------------------------------------------------------------------------
Reconcile(c) ==
    \/ Begin(c) \/ ReadWorkload(c) \/ PatchWorkload(c)

ControlsNext ==
    \/ \E c \in Controls : Submit(c) \/ Refuse(c) \/ Reconcile(c)
    \/ Edit \/ ReadForRendering \/ Render
    \/ Kubernetes

\* Passes are requeued until the control has ended, the cell is reconciled
\* again and again, and Kubernetes works on what the object says.
ControlsFairness ==
    /\ \A c \in Controls : WF_vars(Reconcile(c))
    /\ WF_vars(ReadForRendering) /\ WF_vars(Render)
    /\ WF_vars(Kubernetes)

ControlsSpec == ControlsInit /\ [][ControlsNext]_vars /\ ControlsFairness

-----------------------------------------------------------------------------
Objects ==
    [state : {"none", "running", "stopped"}, seq : Nat, replicas : {0, 1},
     token : Controls \union {NoControl}, plan : Nat]

PodStates ==
    [phase : {"up", "ending", "gone"}, token : Controls \union {NoControl},
     plan : Nat]

\* The actions, the workload object with its pods and what passes hold of it:
\* a component has no more than the replicas of its plan.
ControlsTypeOK ==
    /\ submitted \in Nat
    /\ seq \in [Controls -> Nat]
    /\ status \in [Controls -> Ended \union {"absent", "none", "Running"}]
    /\ pinned \in [Controls -> Nat] /\ plan \in Edits \union {0}
    /\ workload \in Objects /\ pods \in PodStates
    /\ readers \subseteq Controls \union {Cell}
    /\ rendering \in Edits \union {0}
    /\ rollouts \in [Controls -> Nat]

\* reconcile_workload and preserve_observed: whatever interleaves, a component
\* that is marked stopped has no replicas, so that it is not brought back by an
\* edit or a rendering that read it before the stop.
StoppedStaysDown == workload.state = "stopped" => workload.replicas = 0

\* The control whose place the workload carries.
Controlling(c) == seq[c] # 0 /\ workload.seq = seq[c]

\* The sequence fence of reconcile_workload: the place that the object carries
\* never falls, and as long as the component is the same its intent changes
\* only to what the control with the place then carried wants.
NewestControlWins ==
    [][/\ workload'.seq >= workload.seq
       /\ (workload'.state # workload.state
           /\ SameComponent(workload.plan, workload'.plan))
          => \E c \in Controls : seq[c] = workload'.seq /\ workload'.state = Wanted(c)]_vars

\* A stop that is reported as done is done: no pod of the component is left,
\* not even one that is terminating, until a later control or a replacement.
StopIsComplete ==
    \A c \in Controls :
       (/\ status[c] = "Succeeded" /\ kind[c] = "stop"
        /\ Controlling(c) /\ SameComponent(pinned[c], workload.plan))
       => pods.phase = "gone"

\* The restart token: passes that repeat the patch of a restart, and edits of
\* the component meanwhile, do not roll its pods a second time.
RestartsOnce == \A c \in Controls : rollouts[c] <= 1

\* Every control that is submitted ends, also when others compete with it.
ControlsEnd == \A c \in Controls : status[c] = "none" ~> status[c] \in Ended
=============================================================================
