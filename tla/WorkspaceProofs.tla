--------------------------- MODULE WorkspaceProofs --------------------------
(***************************************************************************)
(* What WorkspaceTasks promises for every number of tasks, calls, policies *)
(* and faults.                                                             *)
(*                                                                         *)
(* A task has left the phases before its launch when it is launched        *)
(* (Launched).  A lease without a child, or whose call was answered as     *)
(* undispatched, is untouched: it is in no list and no policy, and the     *)
(* admission refuses it even if its child appears later (Refused).  A      *)
(* release is marked before the list of leases is taken, lists are taken   *)
(* and written under a mutex (Holder), and so the lease is in no list and  *)
(* in no policy when its release is recorded as verified (Healed).  The    *)
(* final report of a task was written when the task had ended (Reporting)  *)
(* from a list of the children after which no more were created but late   *)
(* ones, so that it counts every lease that is not settled (Accounted).    *)
(***************************************************************************)
EXTENDS WorkspaceTasks, TLAPS, FiniteSetTheorems

\* Every record is a record of its kind, whatever the field that is changed.
LEMMA LettersChange ==
    ASSUME NEW l \in Letters, NEW answer \in Terminal \union {"none", "undispatched"}
    PROVE  /\ [l EXCEPT !.submitted = TRUE] \in Letters
           /\ [l EXCEPT !.claimed = TRUE] \in Letters
           /\ [l EXCEPT !.answer = answer] \in Letters
BY DEF Letters

LEMMA ChildrenChange ==
    ASSUME NEW k \in Children, NEW phase \in Terminal \union {"none", "Running"},
           NEW e \in BOOLEAN
    PROVE  /\ [k EXCEPT !.exists = e] \in Children
           /\ [k EXCEPT !.cancelled = TRUE] \in Children
           /\ [k EXCEPT !.released = TRUE] \in Children
           /\ [k EXCEPT !.verified = e] \in Children
           /\ [k EXCEPT !.phase = phase] \in Children
BY DEF Children

\* Who starts, stops and ends tasks, and what the bridge has the manager do.
LEMMA WorkspaceTypes ==
    ASSUME TasksTypeOK, [TasksNext]_vars PROVE WorkspaceTypeOK'
<1> USE DEF TasksTypeOK, WorkspaceTypeOK, kubernetes, bridge, mutex, history, Fault
<1>1. ASSUME NEW t \in Tasks, StartTask(t) \/ LaunchTask(t) \/ StopTask(t) \/ EndTask(t)
      PROVE  WorkspaceTypeOK'
  BY <1>1 DEF StartTask, LaunchTask, StopTask, EndTask, Phases, Alive, Ended
<1>2. ASSUME NEW c \in Calls, SubmitCall(c) PROVE WorkspaceTypeOK'
  <2>1. mailbox' \in [Calls -> Letters]
    BY <1>2, LettersChange DEF SubmitCall
  <2> QED
    BY <1>2, <2>1 DEF SubmitCall
<1>3. CASE RestartManager
  BY <1>3 DEF RestartManager, Recovered, Phases, Alive, Ended
<1>4. ASSUME NEW t \in Tasks, PollTask(t) PROVE WorkspaceTypeOK'
  BY <1>4 DEF PollTask, Closed, Phases, Alive
<1>5. ASSUME NEW t \in Tasks, CancelAndReport(t) PROVE WorkspaceTypeOK'
  <2>1. Cardinality(pass[t].owed) \in Nat
    <3>1. pass[t].owed \subseteq Calls
      BY DEF BridgeTypeOK, Passes, Calls
    <3> QED
      BY <3>1, WorkspaceAssumption, FS_Subset, FS_CardinalityType
  <2>2. CleanupReport(t) \in Reports
    BY <2>1 DEF CleanupReport, Reports
  <2>3. report' \in [Tasks -> Reports]
    BY <1>5, <2>2 DEF CancelAndReport
  <2> QED
    BY <1>5, <2>3 DEF CancelAndReport
<1>6. ASSUME NEW t \in Tasks, AnswerCall(t) PROVE WorkspaceTypeOK'
  <2>1. PICK c \in pass[t].pending :
           mailbox' = [mailbox EXCEPT ![c].answer =
                          IF @ = "none" THEN Outcome(t, c) ELSE @]
    BY <1>6 DEF AnswerCall
  <2>2. c \in Calls
    BY DEF BridgeTypeOK, Passes
  <2>3. Outcome(t, c) \in Terminal \union {"none", "undispatched"}
    BY DEF Outcome
  <2>4. mailbox[c] \in Letters /\ mailbox[c].answer \in Terminal \union {"none", "undispatched"}
    BY <2>2 DEF Letters
  <2>5. mailbox' \in [Calls -> Letters]
    BY <2>1, <2>2, <2>3, <2>4, LettersChange
  <2> QED
    BY <1>6, <2>5 DEF AnswerCall
<1>7. ASSUME NEW t \in Tasks, ClaimCall(t) PROVE WorkspaceTypeOK'
  <2>1. CASE UNCHANGED <<mailbox, report>>
    BY <1>7, <2>1 DEF ClaimCall
  <2>2. ASSUME NEW c \in pass[t].pending,
               mailbox' = [mailbox EXCEPT ![c].claimed = TRUE],
               report' = [report EXCEPT ![t] = DebitedReport(t, c)]
        PROVE  WorkspaceTypeOK'
    <3>1. c \in Calls
      BY DEF BridgeTypeOK, Passes
    <3>2. DebitedReport(t, c) \in Reports
      BY DEF DebitedReport, Reports
    <3>3. mailbox' \in [Calls -> Letters] /\ report' \in [Tasks -> Reports]
      BY <2>2, <3>1, <3>2, LettersChange
    <3> QED
      BY <1>7, <3>3 DEF ClaimCall
  <2> QED
    BY <1>7, <2>1, <2>2 DEF ClaimCall
<1>8. CASE UNCHANGED workspace
  BY <1>8 DEF workspace
<1>9. ASSUME NEW t \in Tasks, Revoke(t) \/ Bridge(t) \/ PollLost(t) \/ FailPass(t)
      PROVE  WorkspaceTypeOK'
  BY <1>9, <1>4, <1>5, <1>6, <1>7, <1>8 DEF Bridge, Revoke, ListChildren, EndPass,
     CreateChild, PollLost, FailPass
<1>10. ASSUME NEW c \in Calls, Child(c) \/ FailChild(c) \/ ListLeases(c)
       PROVE  WorkspaceTypeOK'
  BY <1>10, <1>8 DEF Child, ReconcileLease, RecordActivation, MarkReleased, RecordCleanup,
     ReconcileHeal, ConfirmHeal, FailChild, ListLeases
<1>11. ASSUME NEW p \in Partitions, Expire(p) PROVE WorkspaceTypeOK'
  BY <1>11, <1>8 DEF Expire
<1>12. ASSUME NEW m \in Components, WritePolicy(m) PROVE WorkspaceTypeOK'
  BY <1>12, <1>8 DEF WritePolicy
<1>13. CASE RefreshPolicies \/ CrashController
  BY <1>13, <1>8 DEF RefreshPolicies, CrashController
<1>14. ASSUME NEW r \in flying, DelayedCreate(r) \/ DelayedWrite(r) PROVE WorkspaceTypeOK'
  BY <1>14, <1>8 DEF DelayedCreate, DelayedWrite
<1>15. CASE UNCHANGED vars
  BY <1>15, <1>8 DEF vars
<1> QED
  BY <1>1, <1>2, <1>3, <1>9, <1>10, <1>11, <1>12, <1>13, <1>14, <1>15 DEF TasksNext

\* Children are created by the bridge and changed by their reconciles, and the
\* policies hold leases and partitions of the cell.
LEMMA KubernetesTypes ==
    ASSUME TasksTypeOK, [TasksNext]_vars PROVE KubernetesTypeOK'
<1> USE DEF TasksTypeOK, KubernetesTypeOK, workspace, bridge, mutex, history
<1>0. \A c \in Calls : Subject(c) \in Calls
  BY WorkspaceAssumption DEF Subject, Calls
<1>1. CASE UNCHANGED kubernetes
  BY <1>1 DEF kubernetes
<1>2. ASSUME NEW t \in Tasks, Revoke(t) PROVE KubernetesTypeOK'
  BY <1>2 DEF Revoke
<1>3. ASSUME NEW p \in Partitions, Expire(p) PROVE KubernetesTypeOK'
  BY <1>3 DEF Expire
<1>4. ASSUME NEW t \in Tasks, CancelAndReport(t) PROVE KubernetesTypeOK'
  <2>1. \A c \in Calls : child'[c] \in Children
    BY <1>4, ChildrenChange DEF CancelAndReport
  <2> QED
    BY <1>4, <2>1 DEF CancelAndReport
<1>5. ASSUME NEW X, child' = [c \in Calls |-> [child[c] EXCEPT !.exists = @ \/ c \in X]]
      PROVE  child' \in [Calls -> Children]
  <2>1. ASSUME NEW c \in Calls PROVE child'[c] \in Children
    <3>1. (child[c].exists \/ c \in X) \in BOOLEAN
      OBVIOUS
    <3>2. child'[c] = [child[c] EXCEPT !.exists = child[c].exists \/ c \in X]
      BY <1>5, Zenon
    <3>3. child[c] \in Children
      OBVIOUS
    <3> QED
      BY <3>2, <3>3, ChildrenChange
  <2> QED
    BY <1>5, <2>1
<1>6. ASSUME NEW t \in Tasks, CreateChild(t) PROVE KubernetesTypeOK'
  BY <1>6, <1>5 DEF CreateChild
<1>7. ASSUME NEW c \in Calls, Marked(c) PROVE child' \in [Calls -> Children]
  BY <1>0, <1>7, ChildrenChange DEF Marked
<1>8. ASSUME NEW c \in Calls, NEW phase \in Terminal \union {"none", "Running"},
             SetPhase(c, phase)
      PROVE  child' \in [Calls -> Children]
  BY <1>8, ChildrenChange DEF SetPhase
<1>9. ASSUME NEW c \in Calls, ReconcileLease(c) PROVE KubernetesTypeOK'
  <2>1. CASE UNCHANGED child
    BY <1>9, <2>1 DEF ReconcileLease
  <2>2. CASE SetPhase(c, "Running") \/ Marked(c)
    BY <1>7, <1>8, <1>9, <2>2 DEF ReconcileLease
  <2> QED
    BY <1>9, <2>1, <2>2 DEF ReconcileLease
<1>10. ASSUME NEW c \in Calls, RecordActivation(c) PROVE KubernetesTypeOK'
  <2>1. child' = [child EXCEPT ![c] = [[child[c] EXCEPT !.phase = "Succeeded"]
                                          EXCEPT !.verified = FALSE]]
    BY <1>10 DEF RecordActivation
  <2>2. child' \in [Calls -> Children]
    BY <2>1, ChildrenChange DEF Terminal
  <2> QED
    BY <1>10, <2>2 DEF RecordActivation
<1>11. ASSUME NEW c \in Calls, MarkReleased(c) PROVE KubernetesTypeOK'
  BY <1>7, <1>11 DEF MarkReleased
<1>12. ASSUME NEW c \in Calls, RecordCleanup(c) PROVE KubernetesTypeOK'
  <2>1. job[c].end \in Terminal \union {"none"}
    BY DEF WorkTypeOK, Jobs
  <2>2. child' = [child EXCEPT ![Subject(c)] =
                    [[child[Subject(c)] EXCEPT !.phase = job[c].end]
                        EXCEPT !.verified = TRUE]]
    BY <1>12 DEF RecordCleanup
  <2>3. child' \in [Calls -> Children]
    BY <1>0, <2>1, <2>2, ChildrenChange
  <2> QED
    BY <1>12, <2>3 DEF RecordCleanup
<1>13. ASSUME NEW c \in Calls, ReconcileHeal(c) \/ ConfirmHeal(c) PROVE KubernetesTypeOK'
  <2>1. CASE UNCHANGED child
    BY <1>13, <2>1 DEF ReconcileHeal, ConfirmHeal
  <2>2. CASE SetPhase(c, "Failed") \/ SetPhase(c, "Succeeded")
    BY <1>8, <1>13, <2>2 DEF ReconcileHeal, ConfirmHeal, Terminal
  <2> QED
    BY <1>13, <2>1, <2>2 DEF ReconcileHeal, ConfirmHeal
<1>14. ASSUME NEW m \in Components, WritePolicy(m) PROVE KubernetesTypeOK'
  BY <1>14 DEF WritePolicy, Excluded, WorkTypeOK
<1>15. CASE RefreshPolicies
  BY <1>15 DEF RefreshPolicies, Excluded, ActivePartitions
<1>16. ASSUME NEW r \in flying, DelayedCreate(r) PROVE KubernetesTypeOK'
  BY <1>5, <1>16 DEF DelayedCreate
<1>17. ASSUME NEW r \in flying, DelayedWrite(r) PROVE KubernetesTypeOK'
  <2>1. r.leases \subseteq Partitions \union Standing
    BY <1>17 DEF DelayedWrite, WorkTypeOK, Requests
  <2> QED
    BY <1>17, <2>1 DEF DelayedWrite
<1>18. ASSUME NEW t \in Tasks,
              \/ StartTask(t) \/ LaunchTask(t) \/ StopTask(t) \/ EndTask(t)
              \/ PollLost(t) \/ FailPass(t)
       PROVE  KubernetesTypeOK'
  BY <1>1, <1>18 DEF StartTask, LaunchTask, StopTask, EndTask, PollLost, FailPass
<1>19. ASSUME NEW t \in Tasks, Bridge(t) PROVE KubernetesTypeOK'
  BY <1>1, <1>4, <1>6, <1>19 DEF Bridge, ListChildren, PollTask, EndPass, AnswerCall,
     ClaimCall, kubernetes
<1>20. ASSUME NEW c \in Calls, SubmitCall(c) \/ FailChild(c) \/ ListLeases(c)
       PROVE  KubernetesTypeOK'
  BY <1>1, <1>20 DEF SubmitCall, FailChild, ListLeases
<1>21. CASE RestartManager \/ CrashController \/ UNCHANGED vars
  BY <1>1, <1>21 DEF RestartManager, CrashController, vars
<1> QED
  BY <1>2, <1>3, <1>9, <1>10, <1>11, <1>12, <1>13, <1>14, <1>15, <1>16, <1>17, <1>18,
     <1>19, <1>20, <1>21 DEF TasksNext, Child

LEMMA PassesMove ==
    ASSUME NEW q \in Passes,
           NEW at \in {"idle", "listed", "polled", "reported", "claimed"}
    PROVE  [q EXCEPT !.at = at] \in Passes
BY DEF Passes

LEMMA NoPassIsPass == NoPass \in Passes
BY DEF NoPass, Passes

\* The passes of the bridge, from its list to the child that it creates.
LEMMA BridgeTypes ==
    ASSUME TasksTypeOK, [TasksNext]_vars PROVE BridgeTypeOK'
<1> USE DEF TasksTypeOK, BridgeTypeOK, workspace, kubernetes, mutex, history
<1>1. CASE UNCHANGED bridge
  BY <1>1 DEF bridge
<1>2. ASSUME NEW t \in Tasks, NEW q \in Passes, Step(t, q)
      PROVE  pass' \in [Tasks -> Passes]
  BY <1>2 DEF Step
<1>3. ASSUME NEW t \in Tasks, Revoke(t) PROVE BridgeTypeOK'
  BY <1>3 DEF Revoke
<1>4. ASSUME NEW t \in Tasks, ListChildren(t) PROVE BridgeTypeOK'
  <2>1. PICK S \in SUBSET Calls, L \in SUBSET Partitions, b \in BOOLEAN :
           Step(t, [NoPass EXCEPT !.at = "listed", !.living = S, !.owed = L, !.open = b])
    <3>1. {c \in CallsOf(t) : child[c].exists /\
             (NeedsCleanup(c) \/ child[c].phase \notin Terminal)} \in SUBSET Calls
      BY DEF CallsOf
    <3>2. {p \in LeasesOf(t) : NeedsCleanup(p)} \in SUBSET Partitions
      BY DEF LeasesOf
    <3>3. (t \notin revoked) \in BOOLEAN
      OBVIOUS
    <3> QED
      BY <1>4, <3>1, <3>2, <3>3, Zenon DEF ListChildren
  <2>2. [NoPass EXCEPT !.at = "listed", !.living = S, !.owed = L, !.open = b] \in Passes
    BY NoPassIsPass DEF Passes
  <2> QED
    BY <1>2, <1>4, <2>1, <2>2 DEF ListChildren
<1>5. ASSUME NEW t \in Tasks, PollTask(t) PROVE BridgeTypeOK'
  <2>1. PICK S \in SUBSET Calls, b \in BOOLEAN, e \in BOOLEAN :
           Step(t, [pass[t] EXCEPT !.at = "polled", !.reply = TRUE, !.open = FALSE,
                      !.active = b, !.stopping = e, !.pending = S])
    <3>1. PICK next \in IF Pending(t) = {} THEN {{}} ELSE {{c} : c \in Pending(t)} :
             Step(t, [pass[t] EXCEPT !.at = "polled", !.reply = TRUE, !.open = FALSE,
                        !.active = Active(t), !.stopping = task[t] = "stopping",
                        !.pending = next])
      BY <1>5, Zenon DEF PollTask
    <3>2. next \in SUBSET Calls
      BY DEF Pending, Claimed, Unanswered, CallsOf
    <3>3. Active(t) \in BOOLEAN /\ (task[t] = "stopping") \in BOOLEAN
      BY DEF Active
    <3> QED
      BY <3>1, <3>2, <3>3, Zenon
  <2>2. pass[t] \in Passes
    OBVIOUS
  <2>3. [pass[t] EXCEPT !.at = "polled", !.reply = TRUE, !.open = FALSE,
           !.active = b, !.stopping = e, !.pending = S] \in Passes
    BY <2>2 DEF Passes
  <2> QED
    BY <1>2, <1>5, <2>1, <2>3 DEF PollTask
<1>6. ASSUME NEW t \in Tasks, PollLost(t) PROVE BridgeTypeOK'
  <2>1. pass[t] \in Passes
    OBVIOUS
  <2>2. [pass[t] EXCEPT !.at = "polled", !.open = FALSE] \in Passes
    BY <2>1 DEF Passes
  <2> QED
    BY <1>2, <1>6, <2>2 DEF PollLost
<1>7. ASSUME NEW t \in Tasks, CancelAndReport(t) PROVE BridgeTypeOK'
  <2>1. pass[t] \in Passes
    OBVIOUS
  <2>2. [pass[t] EXCEPT !.at = "reported", !.living = {}] \in Passes
    BY <2>1 DEF Passes
  <2> QED
    BY <1>2, <1>7, <2>2, NoPassIsPass DEF CancelAndReport
<1>8. ASSUME NEW t \in Tasks, EndPass(t) PROVE BridgeTypeOK'
  <2>1. Rests(t) \in BOOLEAN
    BY DEF Rests
  <2> QED
    BY <1>2, <1>8, <2>1, NoPassIsPass DEF EndPass
<1>9. ASSUME NEW t \in Tasks, AnswerCall(t) \/ CreateChild(t) \/ FailPass(t)
      PROVE  BridgeTypeOK'
  BY <1>2, <1>9, NoPassIsPass DEF AnswerCall, CreateChild, FailPass
<1>10. ASSUME NEW t \in Tasks, ClaimCall(t) PROVE BridgeTypeOK'
  <2>1. pass[t] \in Passes
    OBVIOUS
  <2>2. [pass[t] EXCEPT !.at = "claimed"] \in Passes
    BY <2>1, PassesMove
  <2>3. Step(t, NoPass) \/ Step(t, [pass[t] EXCEPT !.at = "claimed"])
    BY <1>10 DEF ClaimCall
  <2> QED
    BY <1>2, <1>10, <2>2, <2>3, NoPassIsPass DEF ClaimCall
<1>11. CASE CrashController
  BY <1>11, NoPassIsPass DEF CrashController
<1>12. ASSUME NEW t \in Tasks, Bridge(t) PROVE BridgeTypeOK'
  BY <1>4, <1>5, <1>7, <1>8, <1>9, <1>10, <1>12 DEF Bridge
<1>13. ASSUME NEW t \in Tasks, StartTask(t) \/ LaunchTask(t) \/ StopTask(t) \/ EndTask(t)
       PROVE  BridgeTypeOK'
  BY <1>1, <1>13 DEF StartTask, LaunchTask, StopTask, EndTask
<1>14. ASSUME NEW c \in Calls, SubmitCall(c) \/ Child(c) \/ FailChild(c) \/ ListLeases(c)
       PROVE  BridgeTypeOK'
  BY <1>1, <1>14 DEF Child, ReconcileLease, RecordActivation, MarkReleased, RecordCleanup,
     ReconcileHeal, ConfirmHeal, FailChild, ListLeases, SubmitCall
<1>15. ASSUME NEW p \in Partitions, Expire(p) PROVE BridgeTypeOK'
  BY <1>1, <1>15 DEF Expire
<1>16. ASSUME NEW m \in Components, WritePolicy(m) PROVE BridgeTypeOK'
  BY <1>1, <1>16 DEF WritePolicy
<1>17. CASE RefreshPolicies \/ RestartManager \/ UNCHANGED vars
  BY <1>1, <1>17 DEF RefreshPolicies, RestartManager, vars
<1>18. ASSUME NEW r \in flying, DelayedCreate(r) \/ DelayedWrite(r) PROVE BridgeTypeOK'
  BY <1>1, <1>18 DEF DelayedCreate, DelayedWrite
<1> QED
  BY <1>3, <1>6, <1>9, <1>11, <1>12, <1>13, <1>14, <1>15, <1>16, <1>17, <1>18 DEF TasksNext

LEMMA JobsMove ==
    ASSUME NEW j \in Jobs,
           NEW at \in {"idle", "apply", "activated", "mark", "heal", "healed", "confirm"}
    PROVE  [j EXCEPT !.at = at] \in Jobs
BY DEF Jobs

\* Only a reconcile that applies the policies holds their mutex.
Holder == writer # Nobody => job[writer].at \in {"apply", "heal"}

\* The reconciles, the application of the policies and what a crash leaves over.
LEMMA WorkTypes ==
    ASSUME TasksTypeOK, Holder, [TasksNext]_vars PROVE WorkTypeOK'
<1> USE WorkspaceAssumption
    DEF TasksTypeOK, WorkTypeOK, workspace, kubernetes, bridge, mutex, history, Fault
<1>1. ASSUME UNCHANGED <<job, mutex, history>>, Fault \/ UNCHANGED faults PROVE WorkTypeOK'
  BY <1>1
<1>2. ASSUME NEW c \in Calls,
             NEW at \in {"idle", "apply", "activated", "mark", "heal", "healed", "confirm"},
             Work(c, at)
      PROVE  job' \in [Calls -> Jobs]
  BY <1>2, JobsMove DEF Work
<1>3. ASSUME NEW c \in Calls, Marked(c) PROVE job' \in [Calls -> Jobs]
  <2>1. Subject(c) \in Calls
    BY DEF Subject, Calls
  <2>2. [at |-> "heal",
         end |-> IF child[Subject(c)].phase \in Terminal
                 THEN child[Subject(c)].phase ELSE "Cancelled"] \in Jobs
    BY DEF Jobs, Terminal
  <2> QED
    BY <1>3, <2>2 DEF Marked
<1>4. ASSUME NEW c \in Calls, ReconcileLease(c) PROVE WorkTypeOK'
  <2>1. job' \in [Calls -> Jobs]
    BY <1>2, <1>3, <1>4 DEF ReconcileLease
  <2> QED
    BY <1>4, <2>1 DEF ReconcileLease
<1>5. ASSUME NEW c \in Calls, RecordActivation(c) \/ MarkReleased(c) PROVE WorkTypeOK'
  BY <1>2, <1>3, <1>5 DEF RecordActivation, MarkReleased
<1>6. ASSUME NEW c \in Calls, RecordCleanup(c) PROVE WorkTypeOK'
  <2>1. [at |-> IF c \in Heals THEN "confirm" ELSE "idle", end |-> "none"] \in Jobs
    BY DEF Jobs
  <2> QED
    BY <1>6, <2>1 DEF RecordCleanup
<1>7. ASSUME NEW c \in Calls, ReconcileHeal(c) \/ ConfirmHeal(c) PROVE WorkTypeOK'
  <2>1. job' \in [Calls -> Jobs]
    BY <1>2, <1>7 DEF ReconcileHeal, ConfirmHeal
  <2> QED
    BY <1>7, <2>1 DEF ReconcileHeal, ConfirmHeal
<1>8. ASSUME NEW c \in Calls, ListLeases(c) PROVE WorkTypeOK'
  BY <1>8 DEF ListLeases, ActivePartitions
<1>9. ASSUME NEW m \in Components, WritePolicy(m) PROVE WorkTypeOK'
  <2>1. flying' \subseteq Requests
    BY <1>9 DEF WritePolicy, StillCurrent
  <2>2. CASE left = {m}
    <3>1. writer \in Calls /\ job' = Applied(writer)
      BY <1>9, <2>2 DEF WritePolicy
    <3>2. ASSUME job[writer].at = "apply" PROVE job' \in [Calls -> Jobs]
      <4>1. job' = [job EXCEPT ![writer].at =
                       IF writer \in active THEN "activated" ELSE "mark"]
        BY <3>1, <3>2 DEF Applied
      <4>2. Work(writer, "activated") \/ Work(writer, "mark")
        BY <4>1 DEF Work
      <4> QED
        BY <1>2, <3>1, <4>2
    <3>3. ASSUME job[writer].at = "heal" PROVE job' \in [Calls -> Jobs]
      <4>1. job' = [job EXCEPT ![writer].at =
                       IF Subject(writer) \in active THEN "idle" ELSE "healed"]
        BY <3>1, <3>3 DEF Applied
      <4>2. Work(writer, "idle") \/ Work(writer, "healed")
        BY <4>1 DEF Work
      <4> QED
        BY <1>2, <3>1, <4>2
    <3>4. job' \in [Calls -> Jobs]
      BY <1>9, <3>2, <3>3 DEF Holder, WritePolicy
    <3> QED
      BY <1>9, <2>1, <2>2, <3>4 DEF WritePolicy
  <2>3. CASE left # {m}
    BY <1>9, <2>1, <2>3 DEF WritePolicy
  <2> QED
    BY <2>2, <2>3
<1>10. CASE RefreshPolicies
  BY <1>10 DEF RefreshPolicies
<1>11. ASSUME NEW c \in Calls, FailChild(c) PROVE WorkTypeOK'
  BY <1>11 DEF FailChild, Released, NoJob, Jobs
<1>12. CASE CrashController
  <2>1. InFlight \subseteq Requests
    BY DEF InFlight, Requests, BridgeTypeOK, Passes
  <2>2. flying' \subseteq Requests
    BY <1>12, <2>1 DEF CrashController
  <2> QED
    BY <1>12, <2>2 DEF CrashController, NoJob, Jobs
<1>13. ASSUME NEW r \in flying, DelayedCreate(r) PROVE WorkTypeOK'
  <2>1. r.leases \subseteq Calls
    BY <1>13 DEF DelayedCreate, Requests
  <2> QED
    BY <1>13, <2>1 DEF DelayedCreate
<1>14. ASSUME NEW r \in flying, DelayedWrite(r) PROVE WorkTypeOK'
  BY <1>14 DEF DelayedWrite, StillCurrent
<1>15. ASSUME NEW t \in Tasks,
              \/ StartTask(t) \/ LaunchTask(t) \/ StopTask(t) \/ EndTask(t)
              \/ Revoke(t) \/ PollLost(t) \/ FailPass(t)
       PROVE  WorkTypeOK'
  BY <1>1, <1>15 DEF StartTask, LaunchTask, StopTask, EndTask, Revoke, PollLost, FailPass
<1>16. ASSUME NEW t \in Tasks, Bridge(t) PROVE WorkTypeOK'
  BY <1>1, <1>16 DEF Bridge, ListChildren, PollTask, CancelAndReport, EndPass, AnswerCall,
     ClaimCall, CreateChild
<1>17. ASSUME NEW c \in Calls, SubmitCall(c) PROVE WorkTypeOK'
  BY <1>1, <1>17 DEF SubmitCall
<1>18. ASSUME NEW p \in Partitions, Expire(p) PROVE WorkTypeOK'
  BY <1>1, <1>18 DEF Expire
<1>19. CASE RestartManager \/ UNCHANGED vars
  BY <1>1, <1>19 DEF RestartManager, vars
<1> QED
  BY <1>4, <1>5, <1>6, <1>7, <1>8, <1>9, <1>10, <1>11, <1>12, <1>13, <1>14, <1>15, <1>16,
     <1>17, <1>18, <1>19 DEF TasksNext, Child

-----------------------------------------------------------------------------
\* What was started has left the phases that precede a launch.
Launched ==
    \A t \in Tasks : /\ launches[t] <= 1
                     /\ task[t] \in {"absent", "starting"} => launches[t] = 0

LEMMA LaunchedKeeps ==
    ASSUME TasksTypeOK, Launched, [TasksNext]_vars PROVE Launched'
<1> USE DEF TasksTypeOK, WorkspaceTypeOK, Launched, workspace
<1>1. CASE UNCHANGED <<task, launches>>
  BY <1>1
<1>2. ASSUME NEW t \in Tasks, StartTask(t) \/ LaunchTask(t) \/ StopTask(t) \/ EndTask(t)
      PROVE  Launched'
  BY <1>2 DEF StartTask, LaunchTask, StopTask, EndTask
<1>3. CASE RestartManager
  BY <1>3 DEF RestartManager, Recovered, Alive
<1>4. ASSUME NEW t \in Tasks, PollTask(t) PROVE Launched'
  BY <1>4 DEF PollTask, Closed
<1>5. ASSUME NEW t \in Tasks, Bridge(t) \/ Revoke(t) \/ PollLost(t) \/ FailPass(t)
      PROVE  Launched'
  BY <1>1, <1>4, <1>5 DEF Bridge, ListChildren, CancelAndReport, EndPass, AnswerCall,
     ClaimCall, CreateChild, Revoke, PollLost, FailPass
<1>6. ASSUME NEW c \in Calls, SubmitCall(c) \/ Child(c) \/ FailChild(c) \/ ListLeases(c)
      PROVE  Launched'
  BY <1>1, <1>6 DEF Child, ReconcileLease, RecordActivation, MarkReleased, RecordCleanup,
     ReconcileHeal, ConfirmHeal, FailChild, ListLeases, SubmitCall
<1>7. ASSUME NEW p \in Partitions, Expire(p) PROVE Launched'
  BY <1>1, <1>7 DEF Expire
<1>8. ASSUME NEW m \in Components, WritePolicy(m) PROVE Launched'
  BY <1>1, <1>8 DEF WritePolicy
<1>9. CASE RefreshPolicies \/ CrashController \/ UNCHANGED vars
  BY <1>1, <1>9 DEF RefreshPolicies, CrashController, vars
<1>10. ASSUME NEW r \in flying, DelayedCreate(r) \/ DelayedWrite(r) PROVE Launched'
  BY <1>1, <1>10 DEF DelayedCreate, DelayedWrite
<1> QED
  BY <1>2, <1>3, <1>5, <1>6, <1>7, <1>8, <1>9, <1>10 DEF TasksNext

LEMMA HolderKeeps ==
    ASSUME TasksTypeOK, Holder, [TasksNext]_vars PROVE Holder'
<1> USE WorkspaceAssumption
    DEF TasksTypeOK, WorkTypeOK, Holder, Jobs, mutex, workspace, kubernetes, bridge, history
<1>1. CASE UNCHANGED <<job, mutex>>
  BY <1>1
<1>2. ASSUME NEW c \in Calls, Child(c) PROVE Holder'
  <2>1. /\ UNCHANGED mutex /\ job[c].at \notin {"apply", "heal"}
        /\ \A d \in Calls : d # c => job'[d] = job[d]
    BY <1>2 DEF Child, ReconcileLease, RecordActivation, MarkReleased, RecordCleanup,
       ReconcileHeal, ConfirmHeal, Work, Marked
  <2> QED
    BY <2>1
<1>3. ASSUME NEW c \in Calls, ListLeases(c) PROVE Holder'
  BY <1>3 DEF ListLeases
<1>4. ASSUME NEW c \in Calls, FailChild(c) PROVE Holder'
  BY <1>4 DEF FailChild, Released
<1>5. ASSUME NEW m \in Components, WritePolicy(m) PROVE Holder'
  BY <1>5 DEF WritePolicy
<1>6. CASE CrashController
  BY <1>6 DEF CrashController
<1>7. ASSUME NEW t \in Tasks,
             \/ StartTask(t) \/ LaunchTask(t) \/ StopTask(t) \/ EndTask(t)
             \/ Revoke(t) \/ Bridge(t) \/ PollLost(t) \/ FailPass(t)
      PROVE  Holder'
  BY <1>1, <1>7 DEF StartTask, LaunchTask, StopTask, EndTask, Revoke, PollLost, FailPass,
     Bridge, ListChildren, PollTask, CancelAndReport, EndPass, AnswerCall, ClaimCall,
     CreateChild
<1>8. ASSUME NEW c \in Calls, SubmitCall(c) PROVE Holder'
  BY <1>1, <1>8 DEF SubmitCall
<1>9. ASSUME NEW p \in Partitions, Expire(p) PROVE Holder'
  BY <1>1, <1>9 DEF Expire
<1>10. CASE RefreshPolicies \/ RestartManager \/ UNCHANGED vars
  BY <1>1, <1>10 DEF RefreshPolicies, RestartManager, vars
<1>11. ASSUME NEW r \in flying, DelayedCreate(r) \/ DelayedWrite(r) PROVE Holder'
  BY <1>1, <1>11 DEF DelayedCreate, DelayedWrite
<1> QED
  BY <1>2, <1>3, <1>4, <1>5, <1>6, <1>7, <1>8, <1>9, <1>10, <1>11 DEF TasksNext

-----------------------------------------------------------------------------
\* Nothing of the lease is enforced, and nobody is about to enforce it.
Untouched(p) ==
    /\ child[p].phase \notin {"Running", "Succeeded"}
    /\ job[p].at \notin {"apply", "activated"}
    /\ \A m \in Components : p \notin policy[m]
    /\ p \notin active
    /\ \A c \in Calls : Subject(c) = p => job[c].end # "Succeeded"
    /\ \A r \in flying : r.kind = "write" => p \notin r.leases

Refused ==
    \A p \in Partitions :
       ~child[p].exists \/ mailbox[p].answer = "undispatched" => Untouched(p)

LEMMA Subjects ==
    \A c \in Calls : /\ Subject(c) \in Partitions
                     /\ c \in Partitions => Subject(c) = c
BY WorkspaceAssumption DEF Subject, Calls

\* What the bridge does to calls and children: an answer that says that nothing
\* was dispatched is given only while there is no child.
LEMMA RefusedByBridge ==
    ASSUME TasksTypeOK, Refused,
           NEW t \in Tasks, CancelAndReport(t) \/ AnswerCall(t) \/ ClaimCall(t) \/ CreateChild(t)
    PROVE  Refused'
<1> USE DEF TasksTypeOK, WorkspaceTypeOK, KubernetesTypeOK, workspace, kubernetes, mutex,
            history, Refused
<1>1. UNCHANGED <<job, policy, active, flying>>
  BY DEF CancelAndReport, AnswerCall, ClaimCall, CreateChild
<1>2. \A p \in Partitions : /\ child'[p].phase = child[p].phase
                            /\ child[p].exists => child'[p].exists
  BY DEF CancelAndReport, AnswerCall, ClaimCall, CreateChild, Calls, Children
<1>3. \A p \in Partitions : Untouched(p) => Untouched(p)'
  BY <1>1, <1>2 DEF Untouched, Subject
<1>4. \A p \in Partitions :
         mailbox'[p].answer = "undispatched" => \/ mailbox[p].answer = "undispatched"
                                                \/ ~child[p].exists
  <2>1. CASE AnswerCall(t)
    <3>1. PICK c \in pass[t].pending :
             mailbox' = [mailbox EXCEPT ![c].answer =
                            IF @ = "none" THEN Outcome(t, c) ELSE @]
      BY <2>1 DEF AnswerCall
    <3>2. Outcome(t, c) = "undispatched" => ~child[c].exists
      BY DEF Outcome, Terminal
    <3> QED
      BY <3>1, <3>2 DEF Letters, Calls
  <2>2. CASE ~AnswerCall(t)
    BY <2>2 DEF CancelAndReport, ClaimCall, CreateChild, Letters, Calls
  <2> QED
    BY <2>1, <2>2
<1> QED
  BY <1>2, <1>3, <1>4

\* The reconcile of a child: a call that has been answered is not admitted.
LEMMA RefusedByChild ==
    ASSUME TasksTypeOK, Refused, NEW c \in Calls, Child(c)
    PROVE  Refused'
<1> USE Subjects
    DEF TasksTypeOK, KubernetesTypeOK, WorkTypeOK, workspace, kubernetes, mutex, history
<1>1. UNCHANGED <<mailbox, policy, active, flying>>
  BY DEF Child, ReconcileLease, RecordActivation, MarkReleased, RecordCleanup, ReconcileHeal,
     ConfirmHeal
<1>2. \A p \in Partitions : child'[p].exists = child[p].exists
  BY DEF Child, ReconcileLease, RecordActivation, MarkReleased, RecordCleanup, ReconcileHeal,
     ConfirmHeal, Marked, SetPhase, Calls, Children
<1> SUFFICES ASSUME NEW p \in Partitions, Untouched(p),
                    ~child[p].exists \/ mailbox[p].answer = "undispatched"
             PROVE  Untouched(p)'
  BY <1>1, <1>2 DEF Refused
<1>3. ASSUME /\ child'[p].phase \notin {"Running", "Succeeded"}
             /\ job'[p].at \notin {"apply", "activated"}
             /\ \A d \in Calls : Subject(d) = p => job'[d].end # "Succeeded"
      PROVE  Untouched(p)'
  BY <1>1, <1>3 DEF Untouched, Subject
<1>4. p \in Calls
  BY DEF Calls
<1>5. ASSUME Marked(c) PROVE Untouched(p)'
  <2>1. child'[p].phase = child[p].phase
    BY <1>4, <1>5 DEF Marked, Children
  <2>2. job'[c] = [at |-> "heal", end |-> IF child[Subject(c)].phase \in Terminal
                                          THEN child[Subject(c)].phase ELSE "Cancelled"]
        /\ \A d \in Calls : d # c => job'[d] = job[d]
    BY <1>5 DEF Marked, Jobs
  <2> QED
    BY <1>3, <1>4, <2>1, <2>2 DEF Untouched
<1>6. ASSUME NEW d \in Calls, NEW at \in {"idle", "mark"}, Work(d, at)
      PROVE  /\ job'[p].at \notin {"apply", "activated"}
             /\ \A e \in Calls : Subject(e) = p => job'[e].end # "Succeeded"
  BY <1>4, <1>6 DEF Work, Jobs, Untouched
<1>7. ASSUME UNCHANGED job
      PROVE  /\ job'[p].at \notin {"apply", "activated"}
             /\ \A e \in Calls : Subject(e) = p => job'[e].end # "Succeeded"
  BY <1>7 DEF Untouched
<1>8. CASE ReconcileLease(c)
  <2>1. c = p => ~AdmitChild(c) /\ child[p].exists
    BY <1>8 DEF ReconcileLease, NeedsCleanup, AdmitChild, Claimed, Unanswered, WorkspaceTypeOK
  <2>2. CASE Marked(c)
    BY <1>5, <2>2
  <2>3. CASE ~Marked(c)
    <3>1. /\ c # p
          /\ \/ SetPhase(c, "Running") /\ UNCHANGED job
             \/ Work(c, "apply") /\ UNCHANGED child
      BY <1>8, <2>1, <2>3 DEF ReconcileLease
    <3>2. child'[p] = child[p]
      BY <1>4, <3>1 DEF SetPhase
    <3>3. job'[p] = job[p] /\ \A d \in Calls : job'[d].end = job[d].end
      BY <1>4, <3>1 DEF Work, Jobs
    <3> QED
      BY <1>3, <3>2, <3>3 DEF Untouched
  <2> QED
    BY <2>2, <2>3
<1>9. CASE RecordActivation(c)
  <2>1. c # p
    BY <1>9 DEF RecordActivation, Untouched
  <2>2. child'[p] = child[p]
    BY <1>4, <1>9, <2>1 DEF RecordActivation
  <2> QED
    BY <1>3, <1>6, <1>9, <2>2 DEF RecordActivation, Untouched
<1>10. CASE MarkReleased(c)
  BY <1>5, <1>10 DEF MarkReleased
<1>11. CASE RecordCleanup(c)
  <2>1. child'[p].phase = IF Subject(c) = p THEN job[c].end ELSE child[p].phase
    BY <1>4, <1>11 DEF RecordCleanup, Children
  <2>2. job[c].end \in Terminal \union {"none"}
    BY DEF Jobs
  <2>3. child'[p].phase \notin {"Running", "Succeeded"}
    BY <2>1, <2>2 DEF Untouched, Terminal
  <2>4. /\ \A d \in Calls : d # c => job'[d] = job[d]
        /\ job'[c].end = "none" /\ job'[c].at \in {"idle", "confirm"}
    BY <1>11 DEF RecordCleanup
  <2> QED
    BY <1>3, <1>4, <2>3, <2>4 DEF Untouched
<1>12. CASE ReconcileHeal(c) \/ ConfirmHeal(c)
  <2>1. c # p
    BY <1>12, WorkspaceAssumption DEF ReconcileHeal, ConfirmHeal
  <2>2. child'[p] = child[p]
    BY <1>4, <1>12, <2>1 DEF ReconcileHeal, ConfirmHeal, SetPhase
  <2>3. UNCHANGED job \/ Work(c, "mark") \/ Work(c, "idle")
    BY <1>12 DEF ReconcileHeal, ConfirmHeal
  <2> QED
    BY <1>3, <1>6, <1>7, <2>2, <2>3 DEF Untouched
<1> QED
  BY <1>8, <1>9, <1>10, <1>11, <1>12 DEF Child

\* A list of leases never holds one that is untouched, so that no policy that is
\* written from it does, not even by a request that is carried out late.
LEMMA RefusedByPolicies ==
    ASSUME TasksTypeOK, Refused, Holder,
           \/ \E c \in Calls : ListLeases(c) \/ FailChild(c)
           \/ \E m \in Components : WritePolicy(m)
           \/ RefreshPolicies \/ CrashController
           \/ \E r \in flying : DelayedCreate(r) \/ DelayedWrite(r)
    PROVE  Refused'
<1> USE WorkspaceAssumption, Subjects
    DEF TasksTypeOK, KubernetesTypeOK, WorkTypeOK, workspace, kubernetes, bridge, history
<1>1. /\ UNCHANGED mailbox
      /\ \A p \in Partitions : /\ child'[p].phase = child[p].phase
                               /\ child[p].exists => child'[p].exists
  BY DEF ListLeases, FailChild, WritePolicy, RefreshPolicies, CrashController, DelayedCreate,
     DelayedWrite, Calls, Children
<1> SUFFICES ASSUME NEW p \in Partitions, Untouched(p)
             PROVE  Untouched(p)'
  BY <1>1 DEF Refused
<1>2. p \in Calls /\ p \notin ActivePartitions
  BY DEF ActivePartitions, IsActive, Untouched, Calls
<1>3. ASSUME UNCHANGED job, p \notin active',
             \A m \in Components : p \notin policy'[m],
             \A r \in flying' : r.kind = "write" => p \notin r.leases
      PROVE  Untouched(p)'
  BY <1>1, <1>3 DEF Untouched, Subject
<1>4. ASSUME NEW c \in Calls, ListLeases(c) PROVE Untouched(p)'
  BY <1>2, <1>3, <1>4 DEF ListLeases, Untouched
<1>5. ASSUME NEW c \in Calls, FailChild(c) PROVE Untouched(p)'
  <2>1. job'[p].at \notin {"apply", "activated"}
        /\ \A d \in Calls : Subject(d) = p => job'[d].end # "Succeeded"
    BY <1>2, <1>5 DEF FailChild, NoJob, Untouched
  <2>2. p \notin active' /\ UNCHANGED <<child, policy, flying>>
    BY <1>5 DEF FailChild, Released, mutex, Untouched
  <2> QED
    BY <2>1, <2>2 DEF Untouched, Subject
<1>6. ASSUME NEW m \in Components, WritePolicy(m) PROVE Untouched(p)'
  <2>1. /\ p \notin active'
        /\ \A n \in Components : p \notin policy'[n]
        /\ \A r \in flying' : r.kind = "write" => p \notin r.leases
    BY <1>6 DEF WritePolicy, Excluded, StillCurrent, Untouched
  <2>2. CASE UNCHANGED job
    BY <1>3, <2>1, <2>2
  <2>3. CASE job' = Applied(writer)
    <3>1. writer \in Calls /\ job[writer].at \in {"apply", "heal"}
      BY <1>6 DEF WritePolicy, Holder
    <3>2. /\ job'[p].at \notin {"apply", "activated"}
          /\ \A d \in Calls : job'[d].end = job[d].end
      BY <1>2, <2>3, <3>1 DEF Applied, Jobs, Untouched
    <3> QED
      BY <1>1, <2>1, <3>2 DEF Untouched, Subject
  <2> QED
    BY <1>6, <2>2, <2>3 DEF WritePolicy
<1>7. CASE RefreshPolicies
  BY <1>2, <1>3, <1>7 DEF RefreshPolicies, mutex, Excluded, StillCurrent, Untouched
<1>8. CASE CrashController
  <2>1. \A r \in InFlight : r.kind = "write" => p \notin r.leases
    BY DEF InFlight, Untouched
  <2>2. \A r \in flying' : r.kind = "write" => p \notin r.leases
    BY <1>8, <2>1 DEF CrashController, Untouched
  <2>3. /\ p \notin active' /\ UNCHANGED <<child, policy>>
        /\ job' = [c \in Calls |-> NoJob]
    BY <1>8 DEF CrashController
  <2> QED
    BY <1>2, <2>2, <2>3 DEF Untouched, NoJob, Subject
<1>9. ASSUME NEW r \in flying, DelayedCreate(r) PROVE Untouched(p)'
  BY <1>3, <1>9 DEF DelayedCreate, mutex, Untouched
<1>10. ASSUME NEW r \in flying, DelayedWrite(r) PROVE Untouched(p)'
  <2>1. \A m \in Components : p \notin policy'[m]
    BY <1>10 DEF DelayedWrite, Untouched
  <2>2. \A s \in flying' : s.kind = "write" => p \notin s.leases
    BY <1>10 DEF DelayedWrite, StillCurrent, Untouched
  <2> QED
    BY <1>3, <1>10, <2>1, <2>2 DEF DelayedWrite, mutex, Untouched
<1> QED
  BY <1>4, <1>5, <1>6, <1>7, <1>8, <1>9, <1>10

LEMMA RefusedKeeps ==
    ASSUME TasksTypeOK, Refused, Holder, [TasksNext]_vars PROVE Refused'
<1> USE DEF TasksTypeOK, WorkspaceTypeOK, workspace, kubernetes, mutex, history
<1>1. ASSUME UNCHANGED <<child, job, policy, active, flying>>,
             \A p \in Partitions : mailbox'[p].answer = mailbox[p].answer
      PROVE  Refused'
  BY <1>1 DEF Refused, Untouched, Subject
<1>2. ASSUME NEW c \in Calls, SubmitCall(c) PROVE Refused'
  BY <1>1, <1>2 DEF SubmitCall, Letters, Calls
<1>3. ASSUME NEW t \in Tasks,
             \/ StartTask(t) \/ LaunchTask(t) \/ StopTask(t) \/ EndTask(t)
             \/ Revoke(t) \/ ListChildren(t) \/ PollTask(t) \/ EndPass(t)
             \/ PollLost(t) \/ FailPass(t)
      PROVE  Refused'
  BY <1>1, <1>3 DEF StartTask, LaunchTask, StopTask, EndTask, Revoke, ListChildren,
     PollTask, EndPass, PollLost, FailPass
<1>4. ASSUME NEW p \in Partitions, Expire(p) PROVE Refused'
  BY <1>1, <1>4 DEF Expire
<1>5. CASE RestartManager \/ UNCHANGED vars
  BY <1>1, <1>5 DEF RestartManager, vars
<1> QED
  BY <1>2, <1>3, <1>4, <1>5, RefusedByBridge, RefusedByChild, RefusedByPolicies
     DEF TasksNext, Bridge

-----------------------------------------------------------------------------
\* The marker of a release precedes everything that is done to heal the lease.
Marks ==
    /\ \A c \in Calls : job[c].at \in {"heal", "healed"} => child[Subject(c)].released
    /\ \A p \in Partitions : child[p].verified => child[p].released

Gone(p) == p \notin active /\ \A m \in Components : p \notin policy[m]

\* The lease leaves the policies one by one while its reconcile holds the mutex.
Healing ==
    writer # Nobody /\ job[writer].at = "heal"
    => /\ Subject(writer) \notin active
       /\ \A m \in Components \ left : Subject(writer) \notin policy[m]

Healed ==
    /\ Marks /\ Healing
    /\ \A c \in Calls : job[c].at = "healed" => Gone(Subject(c))
    /\ \A p \in Partitions : child[p].verified => Gone(p)

NoWrites == \A r \in flying : r.kind # "write"

\* The reconcile of a child never takes back the marker of a release.
LEMMA ReleasedByChild ==
    ASSUME TasksTypeOK, NEW c \in Calls, Child(c)
    PROVE  \A p \in Calls : child[p].released => child'[p].released
<1> USE WorkspaceAssumption, Subjects DEF TasksTypeOK, KubernetesTypeOK
<1>1. CASE Marked(c)
  <2>1. child' = [child EXCEPT ![Subject(c)] = [child[Subject(c)] EXCEPT !.released = TRUE]]
    BY <1>1 DEF Marked
  <2>2. \A p \in Calls : p # Subject(c) => child'[p] = child[p]
    BY <2>1
  <2>3. Subject(c) \in Calls /\ child[Subject(c)] \in Children
    BY DEF Calls
  <2>4. child'[Subject(c)].released
    BY <2>1, <2>3 DEF Children
  <2> QED
    BY <2>2, <2>4
<1>2. CASE \E phase \in {"Running", "Succeeded", "Failed"} : SetPhase(c, phase)
  BY <1>2 DEF SetPhase, Children
<1>3. CASE RecordActivation(c)
  BY <1>3 DEF RecordActivation, Children
<1>4. CASE RecordCleanup(c)
  BY <1>4 DEF RecordCleanup, Children
<1>5. CASE UNCHANGED child
  BY <1>5
<1> QED
  BY <1>1, <1>2, <1>3, <1>4, <1>5 DEF Child, ReconcileLease, MarkReleased, ReconcileHeal,
     ConfirmHeal

\* The reconcile of a child writes no policy, and verifies only what is gone.
LEMMA HealedByChild ==
    ASSUME TasksTypeOK, Holder, Healed, NEW c \in Calls, Child(c)
    PROVE  Healed'
<1> USE WorkspaceAssumption, Subjects
    DEF TasksTypeOK, KubernetesTypeOK, WorkTypeOK, workspace, kubernetes, mutex, history
<1>1. UNCHANGED <<policy, writer, active, left>>
  BY DEF Child, ReconcileLease, RecordActivation, MarkReleased, RecordCleanup, ReconcileHeal,
     ConfirmHeal
<1>2. \A d \in Calls : d # c => job'[d] = job[d]
  BY DEF Child, ReconcileLease, RecordActivation, MarkReleased, RecordCleanup, ReconcileHeal,
     ConfirmHeal, Work, Marked
<1>3. \A p \in Calls : child[p].released => child'[p].released
  BY ReleasedByChild
<1>4. writer # c
  BY DEF Child, ReconcileLease, RecordActivation, MarkReleased, RecordCleanup, ReconcileHeal,
     ConfirmHeal, Holder
<1>5. Healing'
  <2>1. writer # Nobody => writer \in Calls /\ job'[writer] = job[writer]
    BY <1>2, <1>4
  <2> QED
    BY <1>1, <2>1 DEF Healing, Healed, Subject
<1>6. job'[c].at # "healed" /\ (job'[c].at = "heal" => child'[Subject(c)].released)
  BY DEF Child, ReconcileLease, RecordActivation, MarkReleased, RecordCleanup, ReconcileHeal,
     ConfirmHeal, Work, Marked, Jobs, Children, Calls
<1>7. \A d \in Calls : Subject(d) \in Calls /\ Subject(d)' = Subject(d)
  BY DEF Subject, Calls
<1>8. \A d \in Calls : /\ job'[d].at \in {"heal", "healed"} => child'[Subject(d)].released
                       /\ job'[d].at = "healed" => Gone(Subject(d))'
  BY <1>1, <1>2, <1>3, <1>6, <1>7 DEF Healed, Marks, Gone
<1>9. ASSUME NEW p \in Partitions, child'[p].verified
      PROVE  child[p].verified \/ \E d \in Calls : Subject(d) = p /\ job[d].at = "healed"
  <2>1. p \in Calls
    BY DEF Calls
  <2>2. CASE RecordCleanup(c)
    BY <1>9, <2>1, <2>2 DEF RecordCleanup, Children
  <2>3. CASE RecordActivation(c)
    BY <1>9, <2>1, <2>3 DEF RecordActivation, Children
  <2>4. CASE ReconcileLease(c) \/ MarkReleased(c) \/ ReconcileHeal(c) \/ ConfirmHeal(c)
    BY <1>9, <2>1, <2>4 DEF ReconcileLease, MarkReleased, ReconcileHeal, ConfirmHeal,
       Marked, SetPhase, Children
  <2> QED
    BY <2>2, <2>3, <2>4 DEF Child
<1>10. \A p \in Partitions : child'[p].verified => child'[p].released /\ Gone(p)'
  BY <1>1, <1>3, <1>9 DEF Healed, Marks, Gone, Calls
<1> QED
  BY <1>5, <1>7, <1>8, <1>10 DEF Healed, Marks

\* A list that is taken after the marker does not hold the lease.
LEMMA HealedByPolicies ==
    ASSUME TasksTypeOK, Holder, Healed, NoWrites,
           \/ \E c \in Calls : ListLeases(c) \/ FailChild(c)
           \/ \E m \in Components : WritePolicy(m)
           \/ RefreshPolicies \/ CrashController
           \/ \E r \in flying : DelayedWrite(r)
    PROVE  Healed'
<1> USE WorkspaceAssumption, Subjects
    DEF TasksTypeOK, KubernetesTypeOK, WorkTypeOK, workspace, kubernetes, bridge, history
<1>1. UNCHANGED child
  BY DEF ListLeases, FailChild, WritePolicy, RefreshPolicies, CrashController, DelayedWrite
<1>2. \A p \in Partitions : child[p].released => p \notin ActivePartitions
  BY DEF ActivePartitions, IsActive, Calls
<1>3. \A d \in Calls : Subject(d)' = Subject(d)
  BY DEF Subject
<1>4. ASSUME NEW c \in Calls, ListLeases(c) PROVE Healed'
  <2>1. /\ writer' = c /\ active' = ActivePartitions /\ left' = Components
        /\ UNCHANGED <<job, policy>>
    BY <1>4 DEF ListLeases
  <2>2. Marks'
    BY <1>1, <1>3, <2>1 DEF Healed, Marks
  <2>3. Healing'
    BY <1>2, <1>3, <2>1 DEF Healing, Healed, Marks
  <2>4. \A p \in Partitions : child[p].released /\ Gone(p) => Gone(p)'
    BY <1>2, <2>1 DEF Gone
  <2> QED
    BY <1>1, <1>3, <2>1, <2>2, <2>3, <2>4 DEF Healed, Marks
<1>5. ASSUME NEW c \in Calls, FailChild(c) PROVE Healed'
  <2>1. /\ UNCHANGED policy /\ job'[c] = NoJob
        /\ \A d \in Calls : d # c => job'[d] = job[d]
    BY <1>5 DEF FailChild
  <2>2. \/ writer' = Nobody /\ active' = {}
        \/ writer # c /\ UNCHANGED mutex
    BY <1>5 DEF FailChild, Released
  <2>3. \A p \in Partitions : Gone(p) => Gone(p)'
    BY <2>1, <2>2 DEF Gone, mutex
  <2>4. Marks'
    BY <1>1, <1>3, <2>1 DEF Healed, Marks, NoJob
  <2>5. Healing'
    BY <1>3, <2>1, <2>2 DEF Healing, Healed, mutex
  <2> QED
    BY <1>1, <1>3, <2>1, <2>3, <2>4, <2>5 DEF Healed, NoJob
<1>6. ASSUME NEW m \in Components, WritePolicy(m) PROVE Healed'
  <2>1. /\ writer \in Calls /\ job[writer].at \in {"apply", "heal"}
        /\ policy' = [policy EXCEPT ![m] = Excluded(m, active)]
    BY <1>6 DEF WritePolicy, Holder
  <2>2. \A p \in Partitions : Gone(p) => Gone(p)'
    BY <1>6, <2>1 DEF WritePolicy, Excluded, Gone
  <2>3. CASE left = {m}
    <3>1. job' = Applied(writer) /\ writer' = Nobody /\ active' = {}
      BY <1>6, <2>3 DEF WritePolicy
    <3>2. \A d \in Calls : d # writer => job'[d] = job[d]
      BY <3>1 DEF Applied
    <3>3. /\ job'[writer].at # "heal"
          /\ job'[writer].at = "healed" => job[writer].at = "heal"
      BY <2>1, <3>1 DEF Applied, Jobs
    <3>4. \A d \in Calls : d = writer /\ job[d].at = "heal" => Gone(Subject(d))'
      BY <2>1, <2>3, <3>1 DEF Healed, Healing, Gone, Excluded
    <3>5. Marks'
      BY <1>1, <1>3, <2>1, <3>2, <3>3 DEF Healed, Marks
    <3>6. Healing'
      BY <3>1 DEF Healing
    <3> QED
      BY <1>1, <1>3, <2>2, <3>2, <3>3, <3>4, <3>5, <3>6 DEF Healed
  <2>4. CASE left # {m}
    <3>1. left' = left \ {m} /\ UNCHANGED <<writer, active, job>>
      BY <1>6, <2>4 DEF WritePolicy
    <3>2. Marks'
      BY <1>1, <1>3, <3>1 DEF Healed, Marks
    <3>3. Healing'
      BY <1>3, <2>1, <3>1 DEF Healed, Healing, Excluded
    <3> QED
      BY <1>1, <1>3, <2>2, <3>1, <3>2, <3>3 DEF Healed
  <2> QED
    BY <2>3, <2>4
<1>7. CASE RefreshPolicies
  <2>1. /\ UNCHANGED <<job, writer, active, left>> /\ writer = Nobody
        /\ policy' = [m \in Components |-> Excluded(m, ActivePartitions)]
    BY <1>7 DEF RefreshPolicies, mutex
  <2>2. \A p \in Partitions : child[p].released /\ Gone(p) => Gone(p)'
    BY <1>2, <2>1 DEF Gone, Excluded
  <2>3. Marks' /\ Healing'
    BY <1>1, <1>3, <2>1 DEF Healed, Marks, Healing
  <2> QED
    BY <1>1, <1>3, <2>1, <2>2, <2>3 DEF Healed, Marks
<1>8. CASE CrashController
  <2>1. /\ job' = [c \in Calls |-> NoJob] /\ writer' = Nobody /\ active' = {}
        /\ UNCHANGED policy
    BY <1>8 DEF CrashController
  <2>2. Marks' /\ Healing'
    BY <1>1, <2>1 DEF Healed, Marks, Healing, NoJob
  <2> QED
    BY <1>1, <2>1, <2>2 DEF Healed, Gone, NoJob
<1>9. ~\E r \in flying : DelayedWrite(r)
  BY DEF NoWrites, DelayedWrite
<1> QED
  BY <1>4, <1>5, <1>6, <1>7, <1>8, <1>9

LEMMA HealedKeeps ==
    ASSUME TasksTypeOK, Holder, Healed, NoWrites, [TasksNext]_vars PROVE Healed'
<1> USE DEF TasksTypeOK, KubernetesTypeOK, workspace, bridge, mutex, history
<1>1. ASSUME UNCHANGED <<policy, job, writer, active, left>>,
             \A c \in Calls : /\ child'[c].released = child[c].released
                              /\ child'[c].verified = child[c].verified
      PROVE  Healed'
  <2>1. \A p \in Partitions : Gone(p)' = Gone(p)
    BY <1>1 DEF Gone
  <2>2. \A c \in Calls : Subject(c)' = Subject(c) /\ Subject(c) \in Calls
    BY Subjects DEF Subject, Calls
  <2>3. Marks'
    BY <1>1, <2>2 DEF Healed, Marks, Calls
  <2>4. Healing'
    BY <1>1, <2>2 DEF Healed, Healing, Subject
  <2> QED
    BY <1>1, <2>1, <2>2, <2>3, <2>4, Subjects DEF Healed, Calls
<1>2. ASSUME NEW t \in Tasks,
             \/ StartTask(t) \/ LaunchTask(t) \/ StopTask(t) \/ EndTask(t)
             \/ Revoke(t) \/ PollLost(t) \/ FailPass(t)
      PROVE  Healed'
  BY <1>1, <1>2 DEF StartTask, LaunchTask, StopTask, EndTask, Revoke, PollLost, FailPass,
     kubernetes
<1>3. ASSUME NEW t \in Tasks, CancelAndReport(t) PROVE Healed'
  <2>1. \A c \in Calls : /\ child'[c].released = child[c].released
                         /\ child'[c].verified = child[c].verified
    BY <1>3 DEF CancelAndReport, Children
  <2> QED
    BY <1>1, <1>3, <2>1 DEF CancelAndReport
<1>4. ASSUME NEW t \in Tasks, CreateChild(t) PROVE Healed'
  <2>1. \A c \in Calls : /\ child'[c].released = child[c].released
                         /\ child'[c].verified = child[c].verified
    BY <1>4 DEF CreateChild, Children
  <2> QED
    BY <1>1, <1>4, <2>1 DEF CreateChild
<1>5. ASSUME NEW t \in Tasks, Bridge(t) PROVE Healed'
  BY <1>1, <1>3, <1>4, <1>5 DEF Bridge, ListChildren, PollTask, EndPass, AnswerCall,
     ClaimCall, kubernetes
<1>6. ASSUME NEW c \in Calls, SubmitCall(c) PROVE Healed'
  BY <1>1, <1>6 DEF SubmitCall, kubernetes
<1>7. ASSUME NEW p \in Partitions, Expire(p) PROVE Healed'
  BY <1>1, <1>7 DEF Expire
<1>8. CASE RestartManager \/ UNCHANGED vars
  BY <1>1, <1>8 DEF RestartManager, vars, kubernetes
<1>9. ASSUME NEW r \in flying, DelayedCreate(r) PROVE Healed'
  <2>1. \A c \in Calls : /\ child'[c].released = child[c].released
                         /\ child'[c].verified = child[c].verified
    BY <1>9 DEF DelayedCreate, Children
  <2> QED
    BY <1>1, <1>9, <2>1 DEF DelayedCreate
<1> QED
  BY <1>2, <1>5, <1>6, <1>7, <1>8, <1>9, HealedByChild, HealedByPolicies DEF TasksNext

LEMMA NoWritesKeeps ==
    ASSUME "write" \notin Outlive, NoWrites, [TasksNext]_vars PROVE NoWrites'
<1> USE DEF NoWrites, history
<1>1. CASE flying' \subseteq flying
  BY <1>1
<1>2. CASE CrashController
  BY <1>2 DEF CrashController
<1>3. ASSUME NEW t \in Tasks,
             \/ StartTask(t) \/ LaunchTask(t) \/ StopTask(t) \/ EndTask(t)
             \/ Revoke(t) \/ Bridge(t) \/ PollLost(t) \/ FailPass(t)
      PROVE  NoWrites'
  BY <1>1, <1>3 DEF StartTask, LaunchTask, StopTask, EndTask, Revoke, PollLost, FailPass,
     Bridge, ListChildren, PollTask, CancelAndReport, EndPass, AnswerCall, ClaimCall,
     CreateChild
<1>4. ASSUME NEW c \in Calls, SubmitCall(c) \/ Child(c) \/ FailChild(c) \/ ListLeases(c)
      PROVE  NoWrites'
  BY <1>1, <1>4 DEF Child, ReconcileLease, RecordActivation, MarkReleased, RecordCleanup,
     ReconcileHeal, ConfirmHeal, FailChild, ListLeases, SubmitCall
<1>5. ASSUME NEW p \in Partitions, Expire(p) PROVE NoWrites'
  BY <1>1, <1>5 DEF Expire
<1>6. ASSUME NEW m \in Components, WritePolicy(m) PROVE NoWrites'
  BY <1>6 DEF WritePolicy, StillCurrent
<1>7. CASE RefreshPolicies \/ RestartManager \/ UNCHANGED vars
  BY <1>1, <1>7 DEF RefreshPolicies, RestartManager, vars
<1>8. ASSUME NEW r \in flying, DelayedCreate(r) \/ DelayedWrite(r) PROVE NoWrites'
  BY <1>8 DEF DelayedCreate, DelayedWrite, StillCurrent
<1> QED
  BY <1>2, <1>3, <1>4, <1>5, <1>6, <1>7, <1>8 DEF TasksNext

-----------------------------------------------------------------------------
IInv == TasksTypeOK /\ Holder /\ Launched /\ Refused

\* Before any task is started, when only the cell's own partitions are enforced.
LEMMA InitIInv == TasksInit => IInv /\ Healed /\ NoWrites
<1> SUFFICES ASSUME TasksInit PROVE IInv /\ Healed /\ NoWrites
  OBVIOUS
<1> USE WorkspaceAssumption DEF TasksInit
<1>1. WorkspaceTypeOK /\ KubernetesTypeOK
  BY DEF WorkspaceTypeOK, KubernetesTypeOK, Letters, Reports, Children, Phases
<1>2. BridgeTypeOK
  BY NoPassIsPass DEF BridgeTypeOK
<1>3. WorkTypeOK
  BY DEF WorkTypeOK, NoJob, Jobs
<1>4. Holder /\ Launched
  BY DEF Holder, Launched
<1>5. \A p \in Partitions : p \in Calls /\ p \notin Standing
  BY DEF Calls
<1>6. Refused
  BY <1>5 DEF Refused, Untouched, NoJob
<1>7. Healed
  BY <1>5 DEF Healed, Marks, Healing, NoJob
<1>8. NoWrites
  BY DEF NoWrites
<1> QED
  BY <1>1, <1>2, <1>3, <1>4, <1>6, <1>7, <1>8 DEF IInv, TasksTypeOK

LEMMA Invariance == TasksSpec => []IInv
<1>1. IInv /\ [TasksNext]_vars => IInv'
  BY WorkspaceTypes, KubernetesTypes, BridgeTypes, WorkTypes, HolderKeeps, LaunchedKeeps,
     RefusedKeeps DEF IInv, TasksTypeOK
<1> QED
  BY <1>1, InitIInv, PTL DEF TasksSpec

-----------------------------------------------------------------------------
\* The files of the workspaces, the actions, the policies and the passes of the
\* controller keep their types, whatever fails.
THEOREM TasksTyped == TasksSpec => []TasksTypeOK
<1>1. IInv => TasksTypeOK
  BY DEF IInv
<1> QED
  BY <1>1, Invariance, PTL

\* No restart of the manager makes it start a task again (Manager::start).
THEOREM TasksLaunchOnce == TasksSpec => []LaunchedOnce
<1>1. IInv => LaunchedOnce
  BY DEF IInv, Launched, LaunchedOnce
<1> QED
  BY <1>1, Invariance, PTL

\* An answer that says that nothing was dispatched stays true, also when the
\* child is created after all by a controller that has died (admit).
THEOREM UndispatchedStaysTrue == TasksSpec => []UndispatchedNeverActs
<1>1. IInv => UndispatchedNeverActs
  BY DEF IInv, Refused, Untouched, UndispatchedNeverActs, Blocking
<1> QED
  BY <1>1, Invariance, PTL

\* A lease whose cleanup is verified blocks nothing, for any number of policies
\* that are written one by one, if no write outlives its controller (heal).
THEOREM VerifiedIsHealed ==
    ASSUME "write" \notin Outlive PROVE TasksSpec => []VerifiedStaysHealed
<1> DEFINE HInv == IInv /\ Healed /\ NoWrites
<1>1. TasksInit => HInv
  BY InitIInv
<1>2. HInv /\ [TasksNext]_vars => HInv'
  BY WorkspaceTypes, KubernetesTypes, BridgeTypes, WorkTypes, HolderKeeps, LaunchedKeeps,
     RefusedKeeps, HealedKeeps, NoWritesKeeps DEF IInv, TasksTypeOK
<1>3. HInv => VerifiedStaysHealed
  BY DEF Healed, Gone, VerifiedStaysHealed, Blocking
<1> QED
  BY <1>1, <1>2, <1>3, PTL DEF TasksSpec

-----------------------------------------------------------------------------
\* The phase of a report is final: it was written after the task had ended, and
\* no task that has ended runs again or has a call claimed.
Reporting ==
    \A t \in Tasks :
       /\ pass[t].pending \subseteq CallsOf(t)
       /\ report[t].phase \in Ended => task[t] = report[t].phase
       /\ pass[t].at = "claimed" => report[t].phase \notin Ended

\* There is no such lease, or it is gone and its marker keeps it from coming
\* back, even if an activation that was under way is recorded after its heal.
Settled(p) == child[p].exists => child[p].released /\ Gone(p)

\* A pass knows of every lease of its task that is not settled, from its list of
\* the children until its report, and so does the final report from then on.
Accounted ==
    \A t \in Tasks : \A p \in LeasesOf(t) \ late :
       /\ pass[t].at \in {"listed", "polled"} => p \in pass[t].owed \/ Settled(p)
       /\ report[t].phase \in Ended /\ report[t].pending = 0 => Settled(p)

\* What the steps of a pass leave of it and of the report.
LEMMA PassFields ==
    ASSUME TasksTypeOK, NEW t \in Tasks
    PROVE  /\ ListChildren(t) =>
                /\ pass[t].at = "idle"
                /\ pass'[t].at = "listed" /\ pass'[t].pending = {}
                /\ pass'[t].owed = {p \in LeasesOf(t) : NeedsCleanup(p)}
                /\ UNCHANGED <<task, report>>
           /\ PollTask(t) =>
                /\ pass[t].at = "listed" /\ pass'[t].at = "polled"
                /\ pass'[t].owed = pass[t].owed
                /\ pass'[t].pending \subseteq Pending(t)
                /\ UNCHANGED report
           /\ PollLost(t) =>
                /\ pass[t].at = "listed" /\ pass'[t].at = "polled"
                /\ pass'[t].owed = pass[t].owed
                /\ pass'[t].pending = pass[t].pending
                /\ UNCHANGED <<task, report>>
           /\ CancelAndReport(t) =>
                /\ pass[t].at = "polled" /\ pass'[t].at \in {"reported", "idle"}
                /\ pass'[t].pending \in {pass[t].pending, {}}
                /\ report'[t] \in {report[t], CleanupReport(t)}
                /\ UNCHANGED task
           /\ ClaimCall(t) =>
                /\ pass[t].at = "reported" /\ pass'[t].at \in {"claimed", "idle"}
                /\ pass'[t].pending \in {pass[t].pending, {}}
                /\ UNCHANGED task
<1> USE DEF TasksTypeOK, WorkspaceTypeOK, BridgeTypeOK, workspace, Step
<1>1. pass[t] \in Passes /\ NoPass.at = "idle" /\ NoPass.pending = {}
  BY DEF NoPass
<1>2. ASSUME ListChildren(t)
      PROVE  /\ pass[t].at = "idle"
             /\ pass'[t].at = "listed" /\ pass'[t].pending = {}
             /\ pass'[t].owed = {p \in LeasesOf(t) : NeedsCleanup(p)}
             /\ UNCHANGED <<task, report>>
  BY <1>2 DEF ListChildren, NoPass
<1>3. ASSUME PollTask(t)
      PROVE  /\ pass[t].at = "listed" /\ pass'[t].at = "polled"
             /\ pass'[t].owed = pass[t].owed
             /\ pass'[t].pending \subseteq Pending(t)
             /\ UNCHANGED report
  <2>1. PICK next \in IF Pending(t) = {} THEN {{}} ELSE {{c} : c \in Pending(t)} :
           pass' = [pass EXCEPT ![t] =
                      [pass[t] EXCEPT !.at = "polled", !.reply = TRUE, !.open = FALSE,
                         !.active = Active(t), !.stopping = task[t] = "stopping",
                         !.pending = next]]
    BY <1>3 DEF PollTask
  <2>2. next \subseteq Pending(t)
    OBVIOUS
  <2>3. /\ pass'[t].at = "polled" /\ pass'[t].owed = pass[t].owed
        /\ pass'[t].pending = next
    BY <1>1, <2>1 DEF Passes
  <2> QED
    BY <1>3, <2>2, <2>3 DEF PollTask
<1>4. ASSUME PollLost(t)
      PROVE  /\ pass[t].at = "listed" /\ pass'[t].at = "polled"
             /\ pass'[t].owed = pass[t].owed
             /\ pass'[t].pending = pass[t].pending
             /\ UNCHANGED <<task, report>>
  BY <1>1, <1>4 DEF PollLost, Passes
<1>5. ASSUME CancelAndReport(t)
      PROVE  /\ pass[t].at = "polled" /\ pass'[t].at \in {"reported", "idle"}
             /\ pass'[t].pending \in {pass[t].pending, {}}
             /\ report'[t] \in {report[t], CleanupReport(t)}
             /\ UNCHANGED task
  <2>1. \/ pass'[t] = [pass[t] EXCEPT !.at = "reported", !.living = {}]
        \/ pass'[t] = NoPass
    BY <1>5 DEF CancelAndReport
  <2>2. pass'[t].at \in {"reported", "idle"} /\ pass'[t].pending \in {pass[t].pending, {}}
    BY <1>1, <2>1 DEF Passes
  <2>3. report'[t] \in {report[t], CleanupReport(t)}
    BY <1>5 DEF CancelAndReport
  <2> QED
    BY <1>5, <2>2, <2>3 DEF CancelAndReport
<1>6. ASSUME ClaimCall(t)
      PROVE  /\ pass[t].at = "reported" /\ pass'[t].at \in {"claimed", "idle"}
             /\ pass'[t].pending \in {pass[t].pending, {}}
             /\ UNCHANGED task
  <2>1. pass'[t] = [pass[t] EXCEPT !.at = "claimed"] \/ pass'[t] = NoPass
    BY <1>6 DEF ClaimCall
  <2>2. pass'[t].at \in {"claimed", "idle"} /\ pass'[t].pending \in {pass[t].pending, {}}
    BY <1>1, <2>1 DEF Passes
  <2> QED
    BY <1>6, <2>2 DEF ClaimCall
<1> QED
  BY <1>2, <1>3, <1>4, <1>5, <1>6

\* A task that has ended stays in the phase in which it ended.
LEMMA EndedStays ==
    ASSUME TasksTypeOK, [TasksNext]_vars, NEW t \in Tasks, task[t] \in Ended
    PROVE  task'[t] = task[t]
<1> USE DEF TasksTypeOK, WorkspaceTypeOK, workspace, Ended
<1>1. CASE UNCHANGED task
  BY <1>1
<1>2. ASSUME NEW u \in Tasks, StartTask(u) \/ LaunchTask(u) \/ StopTask(u) \/ EndTask(u)
      PROVE  task'[t] = task[t]
  BY <1>2 DEF StartTask, LaunchTask, StopTask, EndTask
<1>3. CASE RestartManager
  BY <1>3 DEF RestartManager, Recovered, Alive
<1>4. ASSUME NEW u \in Tasks, PollTask(u) PROVE task'[t] = task[t]
  BY <1>4 DEF PollTask, Closed
<1>5. ASSUME NEW u \in Tasks, Bridge(u) \/ Revoke(u) \/ PollLost(u) \/ FailPass(u)
      PROVE  task'[t] = task[t]
  BY <1>1, <1>4, <1>5 DEF Bridge, ListChildren, CancelAndReport, EndPass, AnswerCall,
     ClaimCall, CreateChild, Revoke, PollLost, FailPass
<1>6. ASSUME NEW c \in Calls, SubmitCall(c) \/ Child(c) \/ FailChild(c) \/ ListLeases(c)
      PROVE  task'[t] = task[t]
  BY <1>1, <1>6 DEF Child, ReconcileLease, RecordActivation, MarkReleased, RecordCleanup,
     ReconcileHeal, ConfirmHeal, FailChild, ListLeases, SubmitCall
<1>7. ASSUME NEW p \in Partitions, Expire(p) PROVE task'[t] = task[t]
  BY <1>1, <1>7 DEF Expire
<1>8. ASSUME NEW m \in Components, WritePolicy(m) PROVE task'[t] = task[t]
  BY <1>1, <1>8 DEF WritePolicy
<1>9. CASE RefreshPolicies \/ CrashController \/ UNCHANGED vars
  BY <1>1, <1>9 DEF RefreshPolicies, CrashController, vars
<1>10. ASSUME NEW r \in flying, DelayedCreate(r) \/ DelayedWrite(r)
       PROVE  task'[t] = task[t]
  BY <1>1, <1>10 DEF DelayedCreate, DelayedWrite
<1> QED
  BY <1>2, <1>3, <1>5, <1>6, <1>7, <1>8, <1>9, <1>10 DEF TasksNext

\* What a step may do to a pass and to its report.
LEMMA PassSteps ==
    ASSUME TasksTypeOK, [TasksNext]_vars, NEW t \in Tasks
    PROVE  \/ pass'[t] = pass[t] /\ report'[t] = report[t]
           \/ pass'[t] = NoPass /\ report'[t] = report[t]
           \/ ListChildren(t) \/ PollTask(t) \/ PollLost(t) \/ CancelAndReport(t)
           \/ ClaimCall(t)
<1> USE DEF TasksTypeOK, WorkspaceTypeOK, BridgeTypeOK, workspace, bridge, Step
<1> DEFINE Goal == \/ pass'[t] = pass[t] /\ report'[t] = report[t]
                   \/ pass'[t] = NoPass /\ report'[t] = report[t]
                   \/ ListChildren(t) \/ PollTask(t) \/ PollLost(t) \/ CancelAndReport(t)
                   \/ ClaimCall(t)
<1>1. ASSUME UNCHANGED <<pass, report>> PROVE Goal
  BY <1>1
<1>2. ASSUME NEW u \in Tasks, StartTask(u) \/ LaunchTask(u) \/ StopTask(u) \/ EndTask(u)
                              \/ Revoke(u)
      PROVE  Goal
  BY <1>1, <1>2 DEF StartTask, LaunchTask, StopTask, EndTask, Revoke
<1>3. ASSUME NEW u \in Tasks, u # t,
             \/ ListChildren(u) \/ PollTask(u) \/ PollLost(u) \/ CancelAndReport(u)
             \/ ClaimCall(u)
      PROVE  Goal
  <2>1. pass'[t] = pass[t] /\ report'[t] = report[t]
    BY <1>3 DEF ListChildren, PollTask, PollLost, CancelAndReport, ClaimCall
  <2> QED
    BY <2>1
<1>4. ASSUME NEW u \in Tasks, EndPass(u) \/ AnswerCall(u) \/ CreateChild(u) \/ FailPass(u)
      PROVE  Goal
  <2>1. pass' = [pass EXCEPT ![u] = NoPass] /\ UNCHANGED report
    BY <1>4 DEF EndPass, AnswerCall, CreateChild, FailPass
  <2> QED
    BY <2>1
<1>5. ASSUME NEW c \in Calls, SubmitCall(c) \/ Child(c) \/ FailChild(c) \/ ListLeases(c)
      PROVE  Goal
  BY <1>1, <1>5 DEF Child, ReconcileLease, RecordActivation, MarkReleased, RecordCleanup,
     ReconcileHeal, ConfirmHeal, FailChild, ListLeases, SubmitCall
<1>6. ASSUME NEW p \in Partitions, Expire(p) PROVE Goal
  BY <1>1, <1>6 DEF Expire
<1>7. ASSUME NEW m \in Components, WritePolicy(m) PROVE Goal
  BY <1>1, <1>7 DEF WritePolicy
<1>8. ASSUME RefreshPolicies \/ RestartManager \/ UNCHANGED vars PROVE Goal
  BY <1>1, <1>8 DEF RefreshPolicies, RestartManager, vars
<1>9. ASSUME CrashController PROVE Goal
  BY <1>9 DEF CrashController
<1>10. ASSUME NEW r \in flying, DelayedCreate(r) \/ DelayedWrite(r) PROVE Goal
  BY <1>1, <1>10 DEF DelayedCreate, DelayedWrite
<1> HIDE DEF Goal
<1>11. ASSUME NEW u \in Tasks, Bridge(u) \/ PollLost(u) \/ FailPass(u) PROVE Goal
  <2>1. CASE u = t
    BY <1>4, <1>11, <2>1 DEF Bridge, Goal
  <2>2. CASE u # t
    BY <1>3, <1>4, <1>11, <2>2 DEF Bridge
  <2> QED
    BY <2>1, <2>2
<1>12. Goal
  BY <1>2, <1>5, <1>6, <1>7, <1>8, <1>9, <1>10, <1>11 DEF TasksNext
<1> QED
  BY <1>12 DEF Goal

\* Every step keeps the reports and the claims in that order.
LEMMA ReportingKeeps ==
    ASSUME TasksTypeOK, Reporting, [TasksNext]_vars PROVE Reporting'
<1> SUFFICES ASSUME NEW t \in Tasks
             PROVE  /\ pass'[t].pending \subseteq CallsOf(t)
                    /\ report'[t].phase \in Ended => task'[t] = report'[t].phase
                    /\ pass'[t].at = "claimed" => report'[t].phase \notin Ended
  BY DEF Reporting, CallsOf
<1> USE DEF TasksTypeOK, WorkspaceTypeOK, BridgeTypeOK, Step
<1>0. pass[t] \in Passes /\ report[t] \in Reports /\ NoPass.at = "idle" /\ NoPass.pending = {}
  BY DEF NoPass
<1>1. task[t] \in Ended => task'[t] = task[t]
  BY EndedStays
<1>2. CASE pass'[t] \in {pass[t], NoPass} /\ report'[t] = report[t]
  BY <1>0, <1>1, <1>2 DEF Reporting
<1>3. CASE ListChildren(t)
  BY <1>3, PassFields DEF Reporting
<1>4. CASE PollTask(t)
  <2>1. Pending(t) \subseteq CallsOf(t)
    BY DEF Pending, Claimed, Unanswered
  <2> QED
    BY <1>1, <1>4, <2>1, PassFields DEF Reporting
<1>5. CASE PollLost(t)
  BY <1>5, PassFields DEF Reporting
<1>6. CASE CancelAndReport(t)
  BY <1>6, PassFields DEF Reporting, CleanupReport
<1>7. CASE ClaimCall(t)
  <2>1. pass'[t].pending \subseteq CallsOf(t) /\ task'[t] = task[t]
    BY <1>7, PassFields DEF Reporting
  <2>2. CASE task[t] = "running"
    <3>1. report[t].phase \notin Ended
      BY <2>2 DEF Reporting, Ended
    <3>2. report'[t].phase \in {report[t].phase, "running"}
      BY <1>7, <2>2 DEF ClaimCall, DebitedReport
    <3> QED
      BY <2>1, <3>1, <3>2 DEF Ended
  <2>3. CASE task[t] # "running"
    <3>1. pass'[t] = NoPass /\ report'[t] = report[t]
      BY <1>7, <2>3 DEF ClaimCall
    <3> QED
      BY <1>0, <2>1, <3>1 DEF Reporting
  <2> QED
    BY <2>2, <2>3
<1> QED
  BY <1>2, <1>3, <1>4, <1>5, <1>6, <1>7, PassSteps

\* The marker of a release is never taken back.
LEMMA ReleasedStays ==
    ASSUME TasksTypeOK, [TasksNext]_vars, NEW p \in Calls, child[p].released
    PROVE  child'[p].released
<1> USE DEF workspace, kubernetes
<1>1. child[p] \in Children /\ child \in [Calls -> Children]
  BY DEF TasksTypeOK, KubernetesTypeOK
<1>2. CASE UNCHANGED child
  BY <1>2
<1>3. ASSUME NEW c \in Calls, Child(c) PROVE child'[p].released
  BY <1>3, ReleasedByChild
<1>4. ASSUME NEW t \in Tasks,
             \/ StartTask(t) \/ LaunchTask(t) \/ StopTask(t) \/ EndTask(t)
             \/ Revoke(t) \/ Bridge(t) \/ PollLost(t) \/ FailPass(t)
      PROVE  child'[p].released
  <2>1. CASE CancelAndReport(t)
    <3>1. child'[p] = [child[p] EXCEPT !.cancelled = TRUE] \/ child'[p] = child[p]
      BY <2>1 DEF CancelAndReport
    <3> QED
      BY <1>1, <3>1 DEF Children
  <2>2. CASE CreateChild(t)
    <3>1. child'[p] = [child[p] EXCEPT !.exists = @ \/ p \in pass[t].pending]
      BY <2>2 DEF CreateChild
    <3> QED
      BY <1>1, <3>1 DEF Children
  <2>3. CASE ~CancelAndReport(t) /\ ~CreateChild(t)
    BY <1>2, <1>4, <2>3 DEF StartTask, LaunchTask, StopTask, EndTask, Revoke, PollLost,
       FailPass, Bridge, ListChildren, PollTask, EndPass, AnswerCall, ClaimCall
  <2> QED
    BY <2>1, <2>2, <2>3
<1>5. ASSUME NEW c \in Calls, SubmitCall(c) \/ FailChild(c) \/ ListLeases(c)
      PROVE  child'[p].released
  BY <1>2, <1>5 DEF SubmitCall, FailChild, ListLeases
<1>6. ASSUME NEW q \in Partitions, Expire(q) PROVE child'[p].released
  BY <1>2, <1>6 DEF Expire
<1>7. ASSUME NEW m \in Components, WritePolicy(m) PROVE child'[p].released
  BY <1>2, <1>7 DEF WritePolicy
<1>8. CASE RefreshPolicies \/ RestartManager \/ CrashController \/ UNCHANGED vars
  BY <1>2, <1>8 DEF RefreshPolicies, RestartManager, CrashController, vars
<1>9. ASSUME NEW r \in flying, DelayedCreate(r) \/ DelayedWrite(r)
      PROVE  child'[p].released
  BY <1>1, <1>2, <1>9 DEF DelayedCreate, DelayedWrite, Children
<1> QED
  BY <1>3, <1>4, <1>5, <1>6, <1>7, <1>8, <1>9 DEF TasksNext

\* A child is created by the pass that claimed its call, or late.
LEMMA CreatedBy ==
    ASSUME TasksTypeOK, Reporting, [TasksNext]_vars,
           NEW p \in Partitions, ~child[p].exists, child'[p].exists
    PROVE  pass[owner[p]].at = "claimed" \/ p \in late'
<1> USE DEF TasksTypeOK, KubernetesTypeOK, workspace, kubernetes, history
<1>1. p \in Calls /\ child[p] \in Children
  BY DEF Calls
<1>2. ~UNCHANGED child
  OBVIOUS
<1>3. ASSUME NEW c \in Calls, Child(c) PROVE FALSE
  <2>1. child'[p].exists = child[p].exists
    BY <1>1, <1>3 DEF Child, ReconcileLease, RecordActivation, MarkReleased, RecordCleanup,
       ReconcileHeal, ConfirmHeal, Marked, SetPhase, Children
  <2> QED
    BY <2>1
<1>4. ASSUME NEW t \in Tasks,
             \/ StartTask(t) \/ LaunchTask(t) \/ StopTask(t) \/ EndTask(t)
             \/ Revoke(t) \/ PollLost(t) \/ FailPass(t)
             \/ ListChildren(t) \/ PollTask(t) \/ EndPass(t) \/ AnswerCall(t) \/ ClaimCall(t)
      PROVE  FALSE
  BY <1>2, <1>4 DEF StartTask, LaunchTask, StopTask, EndTask, Revoke, PollLost, FailPass,
     ListChildren, PollTask, EndPass, AnswerCall, ClaimCall
<1>5. ASSUME NEW t \in Tasks, CancelAndReport(t) PROVE FALSE
  BY <1>1, <1>5 DEF CancelAndReport, Children
<1>6. ASSUME NEW t \in Tasks, CreateChild(t) PROVE pass[owner[p]].at = "claimed"
  <2>1. child'[p].exists = (child[p].exists \/ p \in pass[t].pending)
    BY <1>1, <1>6 DEF CreateChild, Children
  <2>2. p \in CallsOf(t)
    BY <2>1 DEF Reporting
  <2> QED
    BY <1>6, <2>2 DEF CreateChild, CallsOf
<1>7. ASSUME NEW c \in Calls, SubmitCall(c) \/ FailChild(c) \/ ListLeases(c) PROVE FALSE
  BY <1>2, <1>7 DEF SubmitCall, FailChild, ListLeases
<1>8. ASSUME NEW q \in Partitions, Expire(q) PROVE FALSE
  BY <1>2, <1>8 DEF Expire
<1>9. ASSUME NEW m \in Components, WritePolicy(m) PROVE FALSE
  BY <1>2, <1>9 DEF WritePolicy
<1>10. CASE RefreshPolicies \/ RestartManager \/ CrashController \/ UNCHANGED vars
  BY <1>2, <1>10 DEF RefreshPolicies, RestartManager, CrashController, vars
<1>11. ASSUME NEW r \in flying, DelayedCreate(r) PROVE p \in late'
  BY <1>1, <1>11 DEF DelayedCreate, Children
<1>12. ASSUME NEW r \in flying, DelayedWrite(r) PROVE FALSE
  BY <1>2, <1>12 DEF DelayedWrite
<1> QED
  BY <1>3, <1>4, <1>5, <1>6, <1>7, <1>8, <1>9, <1>10, <1>11, <1>12 DEF TasksNext, Bridge

\* What is gone and released stays out of every list and of every policy.
LEMMA GoneStays ==
    ASSUME TasksTypeOK, NoWrites, [TasksNext]_vars,
           NEW p \in Partitions, child[p].released, Gone(p)
    PROVE  Gone(p)'
<1> USE WorkspaceAssumption
    DEF TasksTypeOK, KubernetesTypeOK, WorkTypeOK, workspace, kubernetes, bridge, history, mutex
<1>1. p \notin ActivePartitions
  BY DEF ActivePartitions, IsActive, Calls
<1>2. CASE UNCHANGED <<policy, active>>
  BY <1>2 DEF Gone
<1>3. ASSUME NEW c \in Calls, ListLeases(c) \/ FailChild(c) PROVE Gone(p)'
  BY <1>1, <1>3 DEF ListLeases, FailChild, Released, Gone
<1>4. ASSUME NEW m \in Components, WritePolicy(m) PROVE Gone(p)'
  BY <1>4 DEF WritePolicy, Excluded, Gone
<1>5. CASE RefreshPolicies
  BY <1>1, <1>5 DEF RefreshPolicies, Excluded, Gone
<1>6. CASE CrashController
  BY <1>6 DEF CrashController, Gone
<1>7. ASSUME NEW t \in Tasks,
             \/ StartTask(t) \/ LaunchTask(t) \/ StopTask(t) \/ EndTask(t)
             \/ Revoke(t) \/ Bridge(t) \/ PollLost(t) \/ FailPass(t)
      PROVE  Gone(p)'
  BY <1>2, <1>7 DEF StartTask, LaunchTask, StopTask, EndTask, Revoke, PollLost, FailPass,
     Bridge, ListChildren, PollTask, CancelAndReport, EndPass, AnswerCall, ClaimCall,
     CreateChild
<1>8. ASSUME NEW c \in Calls, SubmitCall(c) \/ Child(c) PROVE Gone(p)'
  BY <1>2, <1>8 DEF Child, ReconcileLease, RecordActivation, MarkReleased, RecordCleanup,
     ReconcileHeal, ConfirmHeal, SubmitCall
<1>9. ASSUME NEW q \in Partitions, Expire(q) PROVE Gone(p)'
  BY <1>2, <1>9 DEF Expire
<1>10. CASE RestartManager \/ UNCHANGED vars
  BY <1>2, <1>10 DEF RestartManager, vars
<1>11. ASSUME NEW r \in flying, DelayedCreate(r) PROVE Gone(p)'
  BY <1>2, <1>11 DEF DelayedCreate
<1>12. ASSUME NEW r \in flying, DelayedWrite(r) PROVE Gone(p)'
  BY <1>12 DEF NoWrites, DelayedWrite
<1> QED
  BY <1>3, <1>4, <1>5, <1>6, <1>7, <1>8, <1>9, <1>10, <1>11, <1>12 DEF TasksNext

\* The calls whose children were created late are never forgotten.
LEMMA LateStays ==
    ASSUME [TasksNext]_vars PROVE late \subseteq late'
<1> USE DEF history
<1>1. CASE UNCHANGED late
  BY <1>1
<1>2. ASSUME NEW t \in Tasks,
             \/ StartTask(t) \/ LaunchTask(t) \/ StopTask(t) \/ EndTask(t)
             \/ Revoke(t) \/ Bridge(t) \/ PollLost(t) \/ FailPass(t)
      PROVE  late \subseteq late'
  BY <1>1, <1>2 DEF StartTask, LaunchTask, StopTask, EndTask, Revoke, PollLost, FailPass,
     Bridge, ListChildren, PollTask, CancelAndReport, EndPass, AnswerCall, ClaimCall,
     CreateChild
<1>3. ASSUME NEW c \in Calls, SubmitCall(c) \/ Child(c) \/ FailChild(c) \/ ListLeases(c)
      PROVE  late \subseteq late'
  BY <1>1, <1>3 DEF Child, ReconcileLease, RecordActivation, MarkReleased, RecordCleanup,
     ReconcileHeal, ConfirmHeal, FailChild, ListLeases, SubmitCall
<1>4. ASSUME NEW p \in Partitions, Expire(p) PROVE late \subseteq late'
  BY <1>1, <1>4 DEF Expire
<1>5. ASSUME NEW m \in Components, WritePolicy(m) PROVE late \subseteq late'
  BY <1>1, <1>5 DEF WritePolicy
<1>6. CASE RefreshPolicies \/ RestartManager \/ CrashController \/ UNCHANGED vars
  BY <1>1, <1>6 DEF RefreshPolicies, RestartManager, CrashController, vars
<1>7. ASSUME NEW r \in flying, DelayedCreate(r) \/ DelayedWrite(r)
      PROVE  late \subseteq late'
  BY <1>1, <1>7 DEF DelayedCreate, DelayedWrite
<1> QED
  BY <1>2, <1>3, <1>4, <1>5, <1>6, <1>7 DEF TasksNext

\* A settled lease stays settled unless its child is being created.
LEMMA SettledStays ==
    ASSUME TasksTypeOK, Reporting, NoWrites, [TasksNext]_vars,
           NEW p \in Partitions \ late', Settled(p), pass[owner[p]].at # "claimed"
    PROVE  Settled(p)'
<1>1. CASE ~child[p].exists
  BY <1>1, CreatedBy DEF Settled
<1>2. CASE child[p].exists
  BY <1>2, ReleasedStays, GoneStays DEF Settled, Calls
<1> QED
  BY <1>1, <1>2

\* Every step keeps the account: a lease enters it when its pass claims the
\* call, and leaves it when a list has shown its cleanup.
LEMMA AccountedKeeps ==
    ASSUME TasksTypeOK, Healed, NoWrites, Reporting, Accounted, [TasksNext]_vars
    PROVE  Accounted'
<1> USE DEF TasksTypeOK, WorkspaceTypeOK, BridgeTypeOK, Step
<1> SUFFICES ASSUME NEW t \in Tasks, NEW p \in LeasesOf(t) \ late'
             PROVE  /\ pass'[t].at \in {"listed", "polled"}
                          => p \in pass'[t].owed \/ Settled(p)'
                    /\ report'[t].phase \in Ended /\ report'[t].pending = 0 => Settled(p)'
  BY DEF Accounted, LeasesOf
<1>0. /\ pass[t] \in Passes /\ report[t] \in Reports /\ NoPass.at = "idle"
      /\ p \in Partitions /\ owner[p] = t /\ p \in LeasesOf(t) \ late
  BY LateStays DEF NoPass, LeasesOf
<1>1. Settled(p) /\ pass[t].at # "claimed" => Settled(p)'
  BY <1>0, SettledStays
<1>2. report[t].phase \in Ended /\ report[t].pending = 0 => Settled(p)'
  BY <1>0, <1>1 DEF Accounted, Reporting
<1>3. pass[t].at \in {"listed", "polled"} => p \in pass[t].owed \/ Settled(p)'
  BY <1>0, <1>1 DEF Accounted
<1>4. CASE pass'[t] \in {pass[t], NoPass} /\ report'[t] = report[t]
  BY <1>0, <1>2, <1>3, <1>4
<1>5. CASE ListChildren(t)
  <2>1. NeedsCleanup(p) \/ Settled(p)
    BY <1>0 DEF NeedsCleanup, Settled, Healed, Marks
  <2> QED
    BY <1>0, <1>1, <1>2, <1>5, <2>1, PassFields
<1>6. CASE PollTask(t) \/ PollLost(t)
  BY <1>2, <1>3, <1>6, PassFields
<1>7. CASE CancelAndReport(t)
  <2>1. IsFiniteSet(pass[t].owed)
    <3>1. pass[t].owed \subseteq Calls
      BY <1>0 DEF Passes, Calls
    <3> QED
      BY <3>1, WorkspaceAssumption, FS_Subset
  <2>2. Cardinality(pass[t].owed) = 0 => pass[t].owed = {}
    BY <2>1, FS_EmptySet
  <2> QED
    BY <1>2, <1>3, <1>7, <2>2, PassFields DEF CleanupReport
<1>8. CASE ClaimCall(t)
  <2>1. report'[t] = report[t] \/ report'[t].phase = "running"
    BY <1>8 DEF ClaimCall, DebitedReport
  <2> QED
    BY <1>2, <1>8, <2>1, PassFields DEF Ended
<1> QED
  BY <1>4, <1>5, <1>6, <1>7, <1>8, PassSteps

\* A final report of nothing pending stays true: no lease of the task blocks the
\* network any more, except one that a controller created which had died, if no
\* write outlives its controller (cleanup_report).
THEOREM FinalReportsAreTrue ==
    ASSUME "write" \notin Outlive PROVE TasksSpec => []CleanupReportTrue
<1> DEFINE FInv == IInv /\ Healed /\ NoWrites /\ Reporting /\ Accounted
<1>1. TasksInit => FInv
  <2> SUFFICES ASSUME TasksInit PROVE Reporting /\ Accounted
    BY InitIInv
  <2>1. Reporting
    BY DEF TasksInit, Reporting, NoPass, Ended
  <2>2. Accounted
    BY DEF TasksInit, Accounted, NoPass, Ended
  <2> QED
    BY <2>1, <2>2
<1>2. FInv /\ [TasksNext]_vars => FInv'
  BY WorkspaceTypes, KubernetesTypes, BridgeTypes, WorkTypes, HolderKeeps, LaunchedKeeps,
     RefusedKeeps, HealedKeeps, NoWritesKeeps, ReportingKeeps, AccountedKeeps
     DEF IInv, TasksTypeOK
<1>3. FInv => CleanupReportTrue
  <2> SUFFICES ASSUME FInv, NEW t \in Tasks, task[t] \in Ended,
                      report[t] = [pending |-> 0, phase |-> task[t]],
                      NEW p \in LeasesOf(t) \ late
               PROVE  ~Blocking(p)
    BY DEF CleanupReportTrue
  <2>1. p \in Partitions /\ Settled(p)
    BY DEF Accounted, LeasesOf
  <2>2. CASE ~child[p].exists
    BY <2>1, <2>2 DEF IInv, Refused, Untouched, Blocking
  <2>3. CASE child[p].exists
    BY <2>1, <2>3 DEF Settled, Gone, Blocking
  <2> QED
    BY <2>2, <2>3
<1> QED
  BY <1>1, <1>2, <1>3, PTL DEF TasksSpec
=============================================================================
