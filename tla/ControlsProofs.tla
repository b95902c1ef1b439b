--------------------------- MODULE ControlsProofs ---------------------------
(***************************************************************************)
(* What ComponentControls promises for every set of controls and edits.    *)
(*                                                                         *)
(* The argument rests on the version fence: a reconcile that may still     *)
(* write has read the object as it is now, so that what it decided is      *)
(* still true (Seen).  From there, a place in the order that the object    *)
(* carries was written under the plan the control was accepted for         *)
(* (Carried), and a restart whose token was ever seen is spent: it cannot  *)
(* be written again (Restarted).                                           *)
(***************************************************************************)
EXTENDS ComponentControls, TLAPS

\* Places are given out once, and the object carries one of them.
Order ==
    /\ \A c \in Controls : /\ seq[c] <= submitted
                           /\ seq[c] = 0 <=> status[c] = "absent"
    /\ \A c, d \in Controls : seq[c] = seq[d] /\ seq[c] # 0 => c = d
    /\ workload.seq <= submitted

\* There is one edit, and the object never goes back to what was before it.
Edited ==
    /\ workload.plan \in {0, plan} /\ rendering \in {0, plan}
    /\ \A c \in Controls : pinned[c] \in {0, plan}
    /\ Cell \in readers /\ rendering = 0 => workload.plan = 0

\* The version fence: what a reader decided is true of the present object.
Seen ==
    \A c \in Controls \cap readers :
       status[c] = "Running" /\ MatchesPlan(c) /\ ~Superseded(c) /\ Unapplied(c)

Carried ==
    \A c \in Controls :
       Controlling(c) /\ pinned[c] # 0 => workload.plan = pinned[c]

StopDone ==
    \A c \in Controls :
       (/\ status[c] = "Succeeded" /\ kind[c] = "stop"
        /\ Controlling(c) /\ SameComponent(pinned[c], workload.plan))
       => workload.state = "stopped" /\ workload.replicas = 0 /\ pods.phase = "gone"

\* The restart cannot be written to the object again.
Spent(c) ==
    /\ seq[c] # 0
    /\ \/ workload.seq > seq[c]
       \/ workload.seq = seq[c] /\ workload.token = c /\ workload.state = "running"
       \/ pinned[c] = 0 /\ workload.plan # 0

Restarted ==
    \A c \in Controls :
       /\ workload.token = c => kind[c] = "restart"
       /\ workload.token = c \/ pods.token = c \/ rollouts[c] # 0 => Spent(c)
       /\ rollouts[c] # 0 => rollouts[c] = 1
       /\ rollouts[c] # 0 /\ workload.token = c => pods.token = c

IInv ==
    /\ ControlsTypeOK /\ Order /\ Edited /\ Seen /\ Carried
    /\ StoppedStaysDown /\ StopDone /\ Restarted

-----------------------------------------------------------------------------
\* The component as it is created, before any control.
LEMMA InitIInv == ControlsInit => IInv
<1> SUFFICES ASSUME ControlsInit PROVE IInv
  OBVIOUS
<1> USE ControlsAssumption DEF ControlsInit
<1>1. ControlsTypeOK
  BY DEF ControlsTypeOK, Objects, PodStates, Ended
<1>2. Order /\ Edited /\ Seen /\ Carried
  BY DEF Order, Edited, Seen, Carried, Controlling
<1>3. StoppedStaysDown /\ StopDone /\ Restarted
  BY DEF StoppedStaysDown, StopDone, Restarted, Controlling
<1> QED
  BY <1>1, <1>2, <1>3 DEF IInv

\* submission.rs gives a control the next place in the order.
LEMMA SubmitKeeps ==
    ASSUME IInv, NEW c \in Controls, Submit(c) PROVE IInv'
<1> USE ControlsAssumption DEF IInv, Submit, cluster, passes
<1>1. /\ status[c] = "absent" /\ seq[c] = 0
      /\ submitted \in Nat /\ plan \in Nat
      /\ \A d \in Controls : d # c => /\ seq'[d] = seq[d] /\ status'[d] = status[d]
                                      /\ pinned'[d] = pinned[d]
      /\ seq'[c] = submitted + 1 /\ status'[c] = "none" /\ pinned'[c] = plan
      /\ workload.seq <= submitted /\ workload.seq \in Nat
      /\ UNCHANGED <<plan, workload, pods, readers, rendering, rollouts>>
  BY DEF ControlsTypeOK, Order, Objects
<1>2. ControlsTypeOK'
  BY <1>1 DEF ControlsTypeOK, Ended
<1>3. Order'
  BY <1>1 DEF Order, ControlsTypeOK
<1>4. Edited'
  BY <1>1 DEF Edited
<1>5. c \notin readers
  BY <1>1 DEF Seen
<1>6. Seen'
  BY <1>1, <1>5 DEF Seen, MatchesPlan, Superseded, Unapplied, Wanted
<1>7. ~Controlling(c)' /\ \A d \in Controls : d # c => Controlling(d)' = Controlling(d)
  BY <1>1 DEF Controlling
<1>8. Carried' /\ StoppedStaysDown'
  BY <1>1, <1>7 DEF Carried, StoppedStaysDown
<1>9. StopDone'
  BY <1>1, <1>7 DEF StopDone, SameComponent
<1>10. ~Spent(c) /\ \A d \in Controls : d # c => Spent(d)' = Spent(d)
  BY <1>1 DEF Spent
<1>11. Restarted'
  BY <1>1, <1>10 DEF Restarted
<1> QED
  BY <1>2, <1>3, <1>4, <1>6, <1>8, <1>9, <1>11

\* An edit leaves the object alone until the cell is rendered.
LEMMA EditKeeps == ASSUME IInv, Edit PROVE IInv'
<1> USE ControlsAssumption DEF IInv, Edit, operations, cluster, passes
<1>1. ControlsTypeOK'
  BY DEF ControlsTypeOK
<1>2. Order' /\ StoppedStaysDown'
  BY DEF Order, StoppedStaysDown
<1>3. Edited'
  BY DEF Edited
<1>4. Seen' /\ Carried'
  BY DEF Seen, Carried, MatchesPlan, Superseded, Unapplied, Wanted, Controlling
<1>5. StopDone' /\ Restarted'
  BY DEF StopDone, Restarted, Controlling, SameComponent, Spent
<1> QED
  BY <1>1, <1>2, <1>3, <1>4, <1>5

\* A control that begins or ends other than by success, and whose pass is not
\* about to write.
LEMMA StatusKeeps ==
    ASSUME IInv, NEW c \in Controls, c \notin readers, status[c] \in {"none", "Running"},
           NEW phase \in {"Running", "Failed", "Cancelled"}, SetStatus(c, phase),
           UNCHANGED <<plan, cluster, passes, rollouts>>
    PROVE  IInv'
<1> USE ControlsAssumption DEF IInv, SetStatus, cluster, passes
<1>1. /\ status'[c] = phase
      /\ \A d \in Controls : d # c => status'[d] = status[d]
      /\ UNCHANGED <<submitted, seq, pinned, plan, workload, pods, readers, rendering,
                     rollouts>>
  BY DEF ControlsTypeOK
<1>2. ControlsTypeOK'
  BY <1>1 DEF ControlsTypeOK, Ended
<1>3. Order' /\ Edited' /\ StoppedStaysDown'
  BY <1>1 DEF Order, Edited, StoppedStaysDown
<1>4. Seen' /\ Carried'
  BY <1>1 DEF Seen, Carried, MatchesPlan, Superseded, Unapplied, Wanted, Controlling
<1>5. StopDone'
  BY <1>1 DEF StopDone, Controlling, SameComponent
<1>6. Restarted'
  BY <1>1 DEF Restarted, Spent
<1> QED
  BY <1>2, <1>3, <1>4, <1>5, <1>6

\* reconcile_workload gives up, holds what it is to write, or finds it done.
LEMMA ReadKeeps ==
    ASSUME IInv, NEW c \in Controls, ReadWorkload(c) PROVE IInv'
<1> USE ControlsAssumption
<1> USE DEF ReadWorkload
<1>1. CASE ~MatchesPlan(c) \/ Superseded(c) \/ NotRunning(c)
  <2>1. SetStatus(c, "Failed") /\ UNCHANGED <<plan, cluster, passes, rollouts>>
    BY <1>1 DEF passes
  <2> QED
    BY <2>1, StatusKeeps
<1>2. CASE ~(~MatchesPlan(c) \/ Superseded(c) \/ NotRunning(c)) /\ Unapplied(c)
  <2> USE <1>2 DEF IInv, operations, cluster
  <2>1. /\ readers' = readers \union {c} /\ status[c] = "Running"
        /\ UNCHANGED <<operations, plan, cluster, rendering, rollouts>>
    OBVIOUS
  <2>2. ControlsTypeOK'
    BY <2>1 DEF ControlsTypeOK
  <2>3. Order' /\ StoppedStaysDown'
    BY <2>1 DEF Order, StoppedStaysDown
  <2>4. Edited'
    BY <2>1 DEF Edited
  <2>5. Seen'
    BY <2>1 DEF Seen, MatchesPlan, Superseded, Unapplied, Wanted
  <2>6. Carried' /\ StopDone' /\ Restarted'
    BY <2>1 DEF Carried, StopDone, Restarted, Controlling, SameComponent, Spent
  <2> QED
    BY <2>2, <2>3, <2>4, <2>5, <2>6
<1>3. CASE ~(~MatchesPlan(c) \/ Superseded(c) \/ NotRunning(c)) /\ ~Unapplied(c)
  <2> USE <1>3 DEF IInv, SetStatus, cluster
  <2>1. /\ status'[c] = "Succeeded" /\ c \notin readers /\ Converged(c)
        /\ status[c] = "Running"
        /\ \A d \in Controls : d # c => status'[d] = status[d]
        /\ UNCHANGED <<submitted, seq, pinned, plan, workload, pods, readers, rendering,
                       rollouts>>
    BY DEF ControlsTypeOK
  <2>2. ControlsTypeOK'
    BY <2>1 DEF ControlsTypeOK, Ended
  <2>3. Order' /\ Edited' /\ StoppedStaysDown'
    BY <2>1 DEF Order, Edited, StoppedStaysDown
  <2>4. Seen' /\ Carried'
    BY <2>1 DEF Seen, Carried, MatchesPlan, Superseded, Unapplied, Wanted, Controlling
  <2>5. StopDone'
    BY <2>1 DEF StopDone, Controlling, SameComponent, Converged, Unapplied, Wanted
  <2>6. Restarted'
    BY <2>1 DEF Restarted, Spent
  <2> QED
    BY <2>2, <2>3, <2>4, <2>5, <2>6
<1> QED
  BY <1>1, <1>2, <1>3

\* patch_action_workload writes what was decided, and no reader is left.
LEMMA PatchKeeps ==
    ASSUME IInv, NEW c \in Controls, PatchWorkload(c) PROVE IInv'
<1> USE ControlsAssumption DEF IInv, PatchWorkload, operations, StillCurrent
<1>1. /\ status[c] = "Running" /\ MatchesPlan(c) /\ ~Superseded(c) /\ Unapplied(c)
      /\ seq[c] # 0 /\ seq[c] \in Nat /\ workload.seq \in Nat /\ workload.seq <= seq[c]
      /\ workload \in Objects
      /\ workload'.seq = seq[c] /\ workload'.state = Wanted(c)
      /\ workload'.plan = workload.plan
      /\ workload'.replicas = IF kind[c] = "stop" THEN 0 ELSE 1
      /\ workload'.token = IF kind[c] = "restart" THEN c ELSE workload.token
      /\ readers' = {}
      /\ UNCHANGED <<submitted, seq, status, pinned, plan, pods, rendering, rollouts>>
  <2>1. status[c] = "Running" /\ MatchesPlan(c) /\ ~Superseded(c) /\ Unapplied(c)
    BY DEF Seen
  <2>2. seq[c] # 0 /\ seq[c] \in Nat /\ workload.seq \in Nat /\ workload.seq <= seq[c]
    BY <2>1 DEF ControlsTypeOK, Objects, Order, Superseded
  <2> QED
    BY <2>1, <2>2 DEF ControlsTypeOK, Objects, Applied
<1>0. workload' \in Objects
  BY <1>1 DEF Objects, Applied, Wanted
<1>2. ControlsTypeOK'
  BY <1>1, <1>0 DEF ControlsTypeOK
<1>3. Order' /\ Edited' /\ Seen'
  BY <1>1 DEF Order, Edited, Seen
<1>4. \A d \in Controls : Controlling(d)' => d = c
  BY <1>1 DEF Controlling, Order
<1>5. Carried'
  BY <1>1, <1>4 DEF Carried, MatchesPlan
<1>6. StoppedStaysDown'
  BY <1>1 DEF StoppedStaysDown, Wanted
<1>7. StopDone'
  BY <1>1, <1>4 DEF StopDone
<1>8. kind[c] = "restart" => ~Spent(c)
  BY <1>1 DEF Spent, Unapplied, Wanted, MatchesPlan
<1>9. kind[c] = "restart" => Spent(c)'
  BY <1>1 DEF Spent, Wanted
<1>10. ASSUME NEW d \in Controls, d # c, Spent(d)
       PROVE  Spent(d)'
  BY <1>1, <1>10 DEF Spent, Order, ControlsTypeOK
<1>11. ASSUME NEW d \in Controls
       PROVE  /\ workload'.token = d => kind[d] = "restart"
              /\ workload'.token = d \/ pods'.token = d \/ rollouts'[d] # 0 => Spent(d)'
              /\ rollouts'[d] # 0 => rollouts'[d] = 1
              /\ rollouts'[d] # 0 /\ workload'.token = d => pods'.token = d
  <2>1. CASE d # c
    BY <2>1, <1>1, <1>10 DEF Restarted
  <2>2. CASE d = c /\ kind[c] = "restart"
    BY <2>2, <1>1, <1>8, <1>9 DEF Restarted
  <2>3. CASE d = c /\ kind[c] # "restart"
    <3>1. workload.token # c /\ (pods.token = c \/ rollouts[c] # 0 => Spent(c))
      BY <2>3 DEF Restarted
    <3>2. ~Spent(c)
      BY <2>3, <3>1, <1>1 DEF Spent, MatchesPlan
    <3> QED
      BY <2>3, <3>1, <3>2, <1>1 DEF Restarted
  <2> QED
    BY <2>1, <2>2, <2>3
<1>12. Restarted'
  BY <1>11 DEF Restarted
<1> QED
  BY <1>2, <1>3, <1>5, <1>6, <1>7, <1>12

\* preserve reads the object that apply_cell is to render.
LEMMA ReadForRenderingKeeps == ASSUME IInv, ReadForRendering PROVE IInv'
<1> USE ControlsAssumption DEF IInv, ReadForRendering, operations, cluster
<1>1. ControlsTypeOK' /\ Order' /\ StoppedStaysDown'
  BY DEF ControlsTypeOK, Order, StoppedStaysDown
<1>2. Edited'
  BY DEF Edited
<1>3. Seen' /\ Carried'
  BY DEF Seen, Carried, MatchesPlan, Superseded, Unapplied, Wanted, Controlling
<1>4. StopDone' /\ Restarted'
  BY DEF StopDone, Restarted, Controlling, SameComponent, Spent
<1> QED
  BY <1>1, <1>2, <1>3, <1>4

\* What rendering makes of the object: it stays, or is of the edit from then on.
LEMMA Rendered ==
    ASSUME IInv, Render
    PROVE  /\ workload \in Objects /\ workload' \in Objects
           /\ workload'.seq = workload.seq /\ workload'.plan = rendering
           /\ workload.plan \in {0, rendering} /\ rendering \in {0, plan}
           /\ SameComponent(workload.plan, rendering)
              => workload'.state = workload.state /\ workload'.token = workload.token
           /\ SameComponent(workload.plan, rendering) /\ workload.state # "none"
              => workload'.replicas = workload.replicas
           /\ ~SameComponent(workload.plan, rendering)
              => workload'.state \in {"none", "running"} /\ workload'.token = NoControl
           /\ UNCHANGED <<submitted, seq, status, pinned, plan, pods, rollouts>>
           /\ rendering' = 0 /\ Cell \notin readers'
           /\ readers' = {} \/ (workload' = workload /\ readers' \subseteq readers)
<1> USE ControlsAssumption DEF IInv, Render, operations, StillCurrent
<1>1. workload \in Objects /\ rendering \in Nat /\ NoControl \notin Controls
  BY DEF ControlsTypeOK
<1>2. workload.plan \in {0, rendering} /\ rendering \in {0, plan}
  BY DEF Edited
<1> QED
  BY <1>1, <1>2 DEF Objects, Preserved

LEMMA RenderKeeps == ASSUME IInv, Render PROVE IInv'
<1> USE ControlsAssumption DEF IInv
<1>1. ControlsTypeOK'
  BY Rendered DEF ControlsTypeOK
<1>2. Order' /\ Edited'
  BY Rendered DEF Order, Edited
<1>3. Seen'
  <2>1. CASE readers' = {}
    BY <2>1 DEF Seen
  <2>2. CASE workload' = workload /\ readers' \subseteq readers
    BY <2>2, Rendered DEF Seen, MatchesPlan, Superseded, Unapplied, Wanted
  <2> QED
    BY <2>1, <2>2, Rendered
<1>4. Carried'
  BY Rendered DEF Carried, Controlling, Edited
<1>5. StoppedStaysDown'
  BY Rendered DEF StoppedStaysDown
<1>6. StopDone'
  <2> SUFFICES ASSUME NEW c \in Controls,
                      status[c] = "Succeeded", kind[c] = "stop", Controlling(c),
                      SameComponent(pinned[c], rendering)
               PROVE  workload'.state = "stopped" /\ workload'.replicas = 0
                      /\ pods.phase = "gone"
    BY Rendered DEF StopDone, Controlling
  <2>1. SameComponent(pinned[c], workload.plan) /\ SameComponent(workload.plan, rendering)
    <3>1. pinned[c] # 0 => workload.plan = pinned[c]
      BY DEF Carried
    <3>2. pinned[c] = 0 => SameComponent(pinned[c], workload.plan)
      BY Rendered DEF SameComponent
    <3>3. pinned[c] = 0 => SameComponent(workload.plan, rendering)
      BY Rendered DEF SameComponent
    <3> QED
      BY <3>1, <3>2, <3>3 DEF SameComponent
  <2> QED
    BY <2>1, Rendered DEF StopDone
<1>7. Restarted'
  <2> SUFFICES ASSUME NEW c \in Controls
               PROVE  /\ workload'.token = c => kind[c] = "restart"
                      /\ workload'.token = c \/ pods.token = c \/ rollouts[c] # 0
                         => Spent(c)'
                      /\ rollouts[c] # 0 => rollouts[c] = 1
                      /\ rollouts[c] # 0 /\ workload'.token = c => pods.token = c
    BY Rendered DEF Restarted
  <2>1. workload'.token = c => workload.token = c
    BY Rendered
  <2>2. Spent(c) => Spent(c)'
    <3>1. CASE SameComponent(workload.plan, rendering)
      BY <3>1, Rendered DEF Spent
    <3>2. CASE ~SameComponent(workload.plan, rendering)
      <4>1. workload.plan = 0 /\ rendering # 0
        BY <3>2, Rendered DEF SameComponent
      <4>2. seq[c] # 0 /\ workload.seq = seq[c] => pinned[c] = 0
        BY <4>1 DEF Carried, Controlling
      <4> QED
        BY <4>1, <4>2, Rendered DEF Spent
    <3> QED
      BY <3>1, <3>2
  <2> QED
    BY <2>1, <2>2 DEF Restarted
<1> QED
  BY <1>1, <1>2, <1>3, <1>4, <1>5, <1>6, <1>7

\* Pods follow the object, and their status makes a new version of it.
LEMMA KubernetesKeeps == ASSUME IInv, Kubernetes PROVE IInv'
<1> USE ControlsAssumption DEF IInv, Kubernetes, operations, StillCurrent
<1>1. ControlsTypeOK'
  BY DEF ControlsTypeOK, ReplacePods, StartPods, StopPods, Roll, Objects, PodStates
<1>2. Order' /\ Edited' /\ Seen' /\ Carried' /\ StoppedStaysDown'
  BY DEF Order, Edited, Seen, Carried, StoppedStaysDown, Controlling
<1>3. pods.phase = "gone" /\ workload.replicas = 0 => pods' = pods
  BY DEF ReplacePods, StartPods, StopPods
<1>4. StopDone'
  BY <1>3 DEF StopDone, Controlling
<1>5. ASSUME NEW c \in Controls
      PROVE  /\ workload'.token = c => kind[c] = "restart"
             /\ workload'.token = c \/ pods'.token = c \/ rollouts'[c] # 0 => Spent(c)'
             /\ rollouts'[c] # 0 => rollouts'[c] = 1
             /\ rollouts'[c] # 0 /\ workload'.token = c => pods'.token = c
  <2>1. Spent(c)' = Spent(c) /\ workload' = workload
    BY DEF Spent
  <2>2. CASE ReplacePods
    <3>1. pods'.token = workload.token /\ rollouts[c] \in Nat
      BY <2>2 DEF ReplacePods, Roll, ControlsTypeOK
    <3>2. CASE workload.token = c /\ pods.token # c
      <4>1. rollouts[c] = 0
        BY <3>2 DEF Restarted
      <4>2. rollouts'[c] = 1
        BY <4>1, <3>2, <2>2 DEF ReplacePods
      <4> QED
        BY <4>2, <3>1, <3>2, <2>1 DEF Restarted
    <3>3. CASE ~(workload.token = c /\ pods.token # c)
      <4>1. rollouts'[c] = rollouts[c]
        BY <3>1, <3>3, <2>2 DEF ReplacePods
      <4> QED
        BY <4>1, <3>1, <3>3, <2>1 DEF Restarted
    <3> QED
      BY <3>2, <3>3
  <2>3. CASE StartPods
    BY <2>1, <2>3 DEF StartPods, Roll, Restarted
  <2>4. CASE StopPods
    <3>1. pods'.token = pods.token /\ rollouts' = rollouts
      BY <2>4 DEF StopPods, ControlsTypeOK, PodStates
    <3> QED
      BY <2>1, <3>1 DEF Restarted
  <2> QED
    BY <2>2, <2>3, <2>4
<1>6. Restarted'
  BY <1>5 DEF Restarted
<1> QED
  BY <1>1, <1>2, <1>4, <1>6

LEMMA StepKeeps == IInv /\ [ControlsNext]_vars => IInv'
<1> SUFFICES ASSUME IInv, [ControlsNext]_vars PROVE IInv'
  OBVIOUS
<1>1. ASSUME NEW c \in Controls, Refuse(c) PROVE IInv'
  BY <1>1, StatusKeeps DEF Refuse
<1>2. ASSUME NEW c \in Controls, Begin(c) PROVE IInv'
  <2>1. c \notin readers
    BY <1>2 DEF Begin, IInv, Seen
  <2> QED
    BY <1>2, <2>1, StatusKeeps DEF Begin
<1>3. CASE UNCHANGED vars
  <2> USE <1>3 DEF IInv, vars, operations, cluster, passes
  <2>1. ControlsTypeOK' /\ Order' /\ Edited' /\ StoppedStaysDown'
    BY DEF ControlsTypeOK, Order, Edited, StoppedStaysDown
  <2>2. Seen' /\ Carried'
    BY DEF Seen, Carried, MatchesPlan, Superseded, Unapplied, Wanted, Controlling
  <2>3. StopDone' /\ Restarted'
    BY DEF StopDone, Restarted, Controlling, SameComponent, Spent
  <2> QED
    BY <2>1, <2>2, <2>3
<1> QED
  BY <1>1, <1>2, <1>3, SubmitKeeps, EditKeeps, ReadKeeps, PatchKeeps,
     ReadForRenderingKeeps, RenderKeeps, KubernetesKeeps DEF ControlsNext, Reconcile

LEMMA Invariance == ControlsSpec => []IInv
<1> QED
  BY InitIInv, StepKeeps, PTL DEF ControlsSpec

-----------------------------------------------------------------------------
\* The workload object keeps its shape: one replica or none, a token of a
\* control of this component.
THEOREM ControlsTyped == ControlsSpec => []ControlsTypeOK
<1>1. IInv => ControlsTypeOK
  BY DEF IInv
<1> QED
  BY <1>1, Invariance, PTL

\* No rendering and no late patch brings back a component that is marked as
\* stopped (preserve_observed).
THEOREM StoppedComponentsStayDown == ControlsSpec => []StoppedStaysDown
<1>1. IInv => StoppedStaysDown
  BY DEF IInv
<1> QED
  BY <1>1, Invariance, PTL

\* A stop that is reported as done has left no pod (LifecycleWorkload::converged).
THEOREM StopsAreComplete == ControlsSpec => []StopIsComplete
<1>1. IInv => StopIsComplete
  BY DEF IInv, StopDone, StopIsComplete
<1> QED
  BY <1>1, Invariance, PTL

\* The pods of a component are replaced at most once for one restart, whatever
\* competes with it.
THEOREM RestartsHappenOnce == ControlsSpec => []RestartsOnce
<1>1. IInv => RestartsOnce
  BY DEF IInv, Restarted, RestartsOnce, ControlsTypeOK
<1> QED
  BY <1>1, Invariance, PTL

\* Every change of the intent is made by a control, in the order of submission,
\* and never by a rendering of the same component.
THEOREM NewestWins == ControlsSpec => NewestControlWins
<1>1. ASSUME IInv, [ControlsNext]_vars
      PROVE  [/\ workload'.seq >= workload.seq
              /\ (workload'.state # workload.state
                  /\ SameComponent(workload.plan, workload'.plan))
                 => \E c \in Controls : seq[c] = workload'.seq
                                        /\ workload'.state = Wanted(c)]_vars
  <2>1. workload.seq \in Nat
    BY <1>1 DEF IInv, ControlsTypeOK, Objects
  <2>2. CASE workload' = workload
    BY <2>1, <2>2
  <2>3. ASSUME NEW c \in Controls, PatchWorkload(c)
        PROVE  /\ workload'.seq >= workload.seq
               /\ seq[c] = workload'.seq /\ workload'.state = Wanted(c)
    BY <1>1, <2>1, <2>3 DEF IInv, PatchWorkload, Seen, Superseded, Applied,
       ControlsTypeOK, Objects
  <2>4. CASE Render
    BY <1>1, <2>1, <2>4, Rendered
  <2>5. workload' = workload \/ Render \/ \E c \in Controls : PatchWorkload(c)
    BY <1>1 DEF ControlsNext, Reconcile, Submit, Refuse, Begin, ReadWorkload, Edit,
       ReadForRendering, Kubernetes, vars, cluster
  <2> QED
    BY <2>2, <2>3, <2>4, <2>5
<1> QED
  BY <1>1, Invariance, PTL DEF ControlsSpec, NewestControlWins
=============================================================================
