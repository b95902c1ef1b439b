------------------------ MODULE ProbeSchedulerProofs ------------------------
(***************************************************************************)
(* Proofs about the scheduler of protocol checks, for every set of cells,  *)
(* components, workers and runtimes, and every bound.                      *)
(***************************************************************************)
EXTENDS ProbeScheduler, FiniteSetTheorems, TLAPS

(* The identities of a registration and of no registration differ.         *)
LEMMA Distinct ==
    /\ NoWorker \notin Workers
    /\ NoTarget \notin Runtimes
    /\ Eligible \in [Cells -> SUBSET Targets]
    /\ Interval \in [Components -> Nat]
    /\ JobTimeout \in Nat /\ Ttl \in Nat /\ JobTimeout <= Ttl
    BY SchedulerAssumption

(* The order of turns stays a sequence of cells when one cell leaves it.   *)
LEMMA WithoutType ==
    ASSUME SchedulerTypeOK, NEW c \in Cells
    PROVE  Without(c) \in Seq(Cells)
<1>1. order \in Seq(Cells) /\ Len(order) \in Nat
  BY DEF SchedulerTypeOK
<1>2. \A h \in 1..(Len(order) - 1) : order[h] \in Cells /\ order[h + 1] \in Cells
  BY <1>1
<1>3. Without(c) \in [1..(Len(order) - 1) -> Cells]
  BY <1>2 DEF Without
<1>4. CASE Len(order) = 0
  <2>1. 1..(Len(order) - 1) = 1..0
    BY <1>4
  <2>2. QED
    BY <1>3, <2>1
<1>5. CASE Len(order) # 0
  <2>1. Len(order) - 1 \in Nat
    BY <1>1, <1>5
  <2>2. QED
    BY <1>3, <2>1
<1>6. QED
  BY <1>4, <1>5

(* It stays one when the cells that had their chance go to the back.       *)
LEMMA RotatedType ==
    ASSUME SchedulerTypeOK, NEW i \in 1..Len(order)
    PROVE  /\ Rotated(i) \in Seq(Cells)
           /\ Len(Rotated(i)) = Len(order)
           /\ order[i] \in Cells
<1>1. order \in Seq(Cells) /\ Len(order) \in Nat
  BY DEF SchedulerTypeOK
<1>2. \A h \in 1..Len(order) :
         /\ h + i <= Len(order) => order[h + i] \in Cells
         /\ ~(h + i <= Len(order)) => order[h + i - Len(order)] \in Cells
  BY <1>1
<1>3. Rotated(i) \in [1..Len(order) -> Cells]
  BY <1>2 DEF Rotated
<1>4. QED
  BY <1>1, <1>3 DEF Rotated

(* A job names its cell, what it checks and for which generations.         *)
LEMMA JobType ==
    ASSUME SchedulerTypeOK, NEW c \in Cells, NEW S \in SUBSET Ripe(c)
    PROVE  JobOf(c, S) \in Jobs
<1>1. S \subseteq Components
  BY DEF Ripe, SchedulerTypeOK
<1>2. 0 \in 0..JobTimeout
  BY Distinct
<1>3. QED
  BY <1>1, <1>2 DEF JobOf, Jobs, SchedulerTypeOK

(* An observation may be forgotten.                                        *)
LEMMA UnknownType == Unknown \in Observations
    BY Distinct DEF Unknown, Observations

-----------------------------------------------------------------------------
(* Type correctness: whatever is registered and whatever the workers       *)
(* answer, the scheduler's tables keep their shape, only targets wait for  *)
(* a check, and a target has a generation that was given out.              *)
LEMMA TypeInit == SchedulerInit => SchedulerTypeOK
<1> SUFFICES ASSUME SchedulerInit PROVE SchedulerTypeOK
  OBVIOUS
<1>1. NoTargets \in Targets /\ [c \in Cells |-> NoTargets] \in [Cells -> Targets]
  BY DEF NoTargets, Targets
<1>2. observation \in [Cells -> [Components -> Observations]]
  BY UnknownType DEF SchedulerInit
<1>3. order \in Seq(Cells) /\ inflight \subseteq Jobs
  BY DEF SchedulerInit
<1>4. QED
  BY <1>1, <1>2, <1>3 DEF SchedulerInit, SchedulerTypeOK, NoTargets

LEMMA TypeRegister ==
    ASSUME SchedulerTypeOK, NEW c \in Cells, NEW w \in Workers,
           NEW T \in Eligible[c], Register(c, w, T)
    PROVE  SchedulerTypeOK'
<1> USE DEF SchedulerTypeOK, Register, Set
<1>1. T \in Targets /\ T \in [Components -> Runtimes \union {NoTarget}]
  BY Distinct DEF Targets
<1>2. Changed(c, w, T) \subseteq Components
  BY DEF Changed
<1>3. order' \in Seq(Cells)
  BY DEF Turns
<1>4. worker' \in [Cells -> Workers \union {NoWorker}] /\ sequence' \in Nat
  BY SMT
<1>5. generation' \in [Cells -> Nat]
  BY SMT
<1>6. target' \in [Cells -> Targets]
  BY <1>1
<1>7. targetGen' \in [Cells -> [Components -> Nat]]
  <2>1. [k \in Components |->
             IF k \notin Changed(c, w, T) THEN targetGen[c][k]
             ELSE IF T[k] # NoTarget THEN sequence + 1 ELSE 0] \in [Components -> Nat]
    BY SMT
  <2>2. QED
    BY <2>1
<1>8. queued' \in [Cells -> SUBSET Components]
  BY <1>2
<1>9. due' \in [Cells -> [Components -> Int]]
  <2>1. [k \in Components |-> IF k \in Changed(c, w, T) THEN 0 ELSE due[c][k]]
            \in [Components -> Int]
    BY SMT
  <2>2. QED
    BY <2>1
<1>10. observation' \in [Cells -> [Components -> Observations]]
  <2>1. [k \in Components |-> IF k \in Changed(c, w, T) THEN Unknown
                               ELSE observation[c][k]] \in [Components -> Observations]
    BY UnknownType
  <2>2. QED
    BY <2>1
<1>11. ASSUME NEW d \in Cells
       PROVE  queued'[d] \subseteq {k \in Components : target'[d][k] # NoTarget}
  BY <1>1, <1>2 DEF Changed, TargetsIn
<1>12. ASSUME NEW d \in Cells, NEW k \in Components
       PROVE  /\ targetGen'[d][k] <= sequence'
              /\ targetGen'[d][k] = 0 <=> target'[d][k] = NoTarget
  <2>1. CASE d = c
    <3>1. /\ target'[d][k] = T[k]
          /\ targetGen'[d][k] = IF k \notin Changed(c, w, T) THEN targetGen[c][k]
                                ELSE IF T[k] # NoTarget THEN sequence + 1 ELSE 0
      BY <2>1
    <3>2. k \notin Changed(c, w, T) => target[c][k] = T[k]
      BY DEF Changed
    <3>3. QED
      BY <3>1, <3>2, <2>1
  <2>2. CASE d # c
    BY <2>2
  <2>3. QED
    BY <2>1, <2>2
<1>13. inflight' \subseteq Jobs
  BY SMT
<1>14. QED
  BY <1>3, <1>4, <1>5, <1>6, <1>7, <1>8, <1>9, <1>10, <1>11, <1>12, <1>13

LEMMA TypeRemove ==
    ASSUME SchedulerTypeOK, NEW c \in Cells, Remove(c)
    PROVE  SchedulerTypeOK'
<1> USE DEF SchedulerTypeOK, Remove, Set
<1>1. NoTargets \in Targets /\ \A k \in Components : NoTargets[k] = NoTarget
  BY DEF NoTargets, Targets
<1>2. order' \in Seq(Cells)
  BY WithoutType
<1>3. target' \in [Cells -> Targets]
  BY <1>1
<1>4. observation' \in [Cells -> [Components -> Observations]]
  BY UnknownType
<1>5. /\ worker' \in [Cells -> Workers \union {NoWorker}]
      /\ generation' \in [Cells -> Nat]
      /\ targetGen' \in [Cells -> [Components -> Nat]]
      /\ queued' \in [Cells -> SUBSET Components]
      /\ due' \in [Cells -> [Components -> Int]]
  BY SMT
<1>6. \A d \in Cells : queued'[d] \subseteq {k \in Components : target'[d][k] # NoTarget}
  BY SMT
<1>7. \A d \in Cells, k \in Components :
         /\ targetGen'[d][k] <= sequence'
         /\ targetGen'[d][k] = 0 <=> target'[d][k] = NoTarget
  BY <1>1
<1>8. QED
  BY <1>2, <1>3, <1>4, <1>5, <1>6, <1>7

LEMMA TypeDispatch ==
    ASSUME SchedulerTypeOK, Dispatch
    PROVE  SchedulerTypeOK'
<1>1. PICK i \in 1..Len(order) :
        /\ order' = Rotated(i)
        /\ \E S \in SUBSET Ripe(order[i]) :
             /\ inflight' = inflight \union {JobOf(order[i], S)}
             /\ queued' = Set(queued, order[i], queued[order[i]] \ S)
             /\ due' = Set(due, order[i],
                  [k \in Components |-> IF k \in S THEN 0 ELSE due[order[i]][k]])
  BY DEF Dispatch
<1>2. PICK S \in SUBSET Ripe(order[i]) :
        /\ inflight' = inflight \union {JobOf(order[i], S)}
        /\ queued' = Set(queued, order[i], queued[order[i]] \ S)
        /\ due' = Set(due, order[i],
             [k \in Components |-> IF k \in S THEN 0 ELSE due[order[i]][k]])
  BY <1>1
<1>3. order' \in Seq(Cells) /\ order[i] \in Cells
  BY <1>1, RotatedType
<1>4. inflight' \subseteq Jobs
  BY <1>2, <1>3, JobType DEF SchedulerTypeOK
<1>5. due' \in [Cells -> [Components -> Int]]
  BY <1>2, <1>3 DEF SchedulerTypeOK, Set
<1>6. /\ queued' \in [Cells -> SUBSET Components]
      /\ \A d \in Cells : queued'[d] \subseteq queued[d]
  BY <1>2, <1>3 DEF SchedulerTypeOK, Set
<1>7. UNCHANGED <<cellVars, observation, sequence>>
  BY DEF Dispatch
<1>8. QED
  BY <1>3, <1>4, <1>5, <1>6, <1>7 DEF SchedulerTypeOK, cellVars

(* Only targets that did not change are scheduled again: they still exist. *)
LEMMA CurrentAreTargets ==
    ASSUME SchedulerTypeOK, NEW j \in inflight, \A k \in j.keys : j.targetGen[k] # 0
    PROVE  /\ CurrentTargets(j) \subseteq Components
           /\ \A k \in CurrentTargets(j) : target[j.cell][k] # NoTarget
<1>1. j \in Jobs
  BY DEF SchedulerTypeOK
<1>2. j.cell \in Cells /\ j.keys \in SUBSET Components
  BY <1>1 DEF Jobs
<1>3. ASSUME NEW k \in CurrentTargets(j)
      PROVE  k \in Components /\ targetGen[j.cell][k] # 0
  BY <1>2 DEF CurrentTargets
<1>4. QED
  BY <1>2, <1>3 DEF SchedulerTypeOK

LEMMA TypeComplete ==
    ASSUME SchedulerTypeOK, NEW j \in inflight, NEW answered \in BOOLEAN,
           \A k \in j.keys : j.targetGen[k] # 0,
           Complete(j, answered)
    PROVE  SchedulerTypeOK'
<1>1. j \in Jobs
  BY DEF SchedulerTypeOK
<1>2. /\ j.cell \in Cells
      /\ j.worker \in Workers \union {NoWorker}
      /\ j.target \in Targets
      /\ j.age \in 0..Ttl
  BY <1>1, Distinct DEF Jobs
<1>3. /\ NextCheck(j, answered) \subseteq Components
      /\ \A k \in NextCheck(j, answered) : target[j.cell][k] # NoTarget
  BY CurrentAreTargets DEF NextCheck
<1>4. /\ queued' \in [Cells -> SUBSET Components]
      /\ \A d \in Cells : queued'[d] \subseteq {k \in Components : target[d][k] # NoTarget}
  BY <1>2, <1>3 DEF SchedulerTypeOK, Complete, Set
<1>5. due' \in [Cells -> [Components -> Int]]
  <2>1. [k \in Components |-> IF k \in NextCheck(j, answered) THEN Interval[k]
                              ELSE due[j.cell][k]] \in [Components -> Int]
    BY <1>2, Distinct DEF SchedulerTypeOK
  <2>2. QED
    BY <1>2, <2>1 DEF SchedulerTypeOK, Complete, Set
<1>6. observation' \in [Cells -> [Components -> Observations]]
  <2>1. \A k \in Components :
          [worker |-> j.worker, target |-> j.target[k], age |-> j.age] \in Observations
    BY <1>2 DEF Observations, Targets
  <2>2. [k \in Components |->
             IF k \notin CurrentTargets(j) THEN observation[j.cell][k]
             ELSE IF answered
             THEN [worker |-> j.worker, target |-> j.target[k], age |-> j.age]
             ELSE Unknown] \in [Components -> Observations]
    BY <1>2, <2>1, UnknownType DEF SchedulerTypeOK
  <2>3. QED
    BY <1>2, <2>2 DEF SchedulerTypeOK, Complete, Set
<1>7. inflight' \subseteq Jobs
  BY DEF SchedulerTypeOK, Complete
<1>8. QED
  BY <1>4, <1>5, <1>6, <1>7 DEF SchedulerTypeOK, Complete, cellVars

(* Time makes jobs, observations and waiting targets older, nothing else.  *)
LEMMA OlderJob ==
    ASSUME NEW j \in Jobs, j.age < JobTimeout
    PROVE  [j EXCEPT !.age = @ + 1] \in Jobs
    BY Distinct DEF Jobs

LEMMA TypeTick ==
    ASSUME SchedulerTypeOK, Tick
    PROVE  SchedulerTypeOK'
<1>1. inflight' \subseteq Jobs
  BY OlderJob DEF SchedulerTypeOK, Tick
<1>2. due' \in [Cells -> [Components -> Int]]
  BY DEF SchedulerTypeOK, Tick
<1>3. ASSUME NEW o \in Observations, o.age < Ttl
      PROVE  [o EXCEPT !.age = @ + 1] \in Observations
  BY <1>3, Distinct DEF Observations
<1>4. observation' \in [Cells -> [Components -> Observations]]
  <2>1. \A c \in Cells, k \in Components : observation[c][k] \in Observations
    BY DEF SchedulerTypeOK
  <2>2. \A c \in Cells, k \in Components :
          (IF k \in Known(c) /\ observation[c][k].age < Ttl
           THEN [observation[c][k] EXCEPT !.age = @ + 1]
           ELSE observation[c][k]) \in Observations
    BY <1>3, <2>1
  <2>3. QED
    BY <2>2 DEF Tick
<1>5. QED
  BY <1>1, <1>2, <1>4 DEF SchedulerTypeOK, Tick, cellVars

-----------------------------------------------------------------------------
(* The inductive invariant. A target is scheduled exactly once, and a late *)
(* answer is recognised, because the generations a job carries were given  *)
(* out before it and are never given out again, and because a job whose    *)
(* generations are still the present ones was asked of the present worker  *)
(* about the present runtime.                                              *)
Registered ==
    \A c \in Cells : worker[c] = NoWorker => \A k \in Components : target[c][k] = NoTarget

JobsAreDated ==
    \A j \in inflight : \A k \in j.keys : 0 < j.targetGen[k] /\ j.targetGen[k] <= sequence

JobsAskPresent ==
    \A j \in inflight : \A k \in CurrentTargets(j) :
        j.worker = worker[j.cell] /\ j.target[k] = target[j.cell][k]

SchedulerInv ==
    /\ SchedulerTypeOK
    /\ Registered
    /\ JobsAreDated
    /\ JobsAskPresent
    /\ EveryTargetScheduled
    /\ LabelsAreTrue

\* Job j will report on target k of cell c as it is now.
Carries(j, c, k) ==
    /\ j.cell = c
    /\ k \in j.keys
    /\ worker[c] # NoWorker
    /\ generation[c] = j.generation
    /\ targetGen[c][k] = j.targetGen[k]

LEMMA CarriersAre ==
    ASSUME NEW c, NEW k
    PROVE  /\ Carriers(c, k) = {j \in inflight : Carries(j, c, k)}
           /\ Carriers(c, k)' = {j \in inflight' : Carries(j, c, k)'}
    BY DEF Carriers, Carries, CurrentTargets

LEMMA CurrentAre ==
    ASSUME NEW j, NEW k
    PROVE  /\ k \in CurrentTargets(j) <=> Carries(j, j.cell, k)
           /\ k \in CurrentTargets(j)' <=> Carries(j, j.cell, k)'
    BY DEF Carries, CurrentTargets

LEMMA InvInit == SchedulerInit => SchedulerInv
<1> SUFFICES ASSUME SchedulerInit PROVE SchedulerInv
  OBVIOUS
<1>1. SchedulerTypeOK
  BY TypeInit
<1>2. Registered /\ JobsAreDated /\ JobsAskPresent
  BY DEF SchedulerInit, Registered, JobsAreDated, JobsAskPresent, NoTargets
<1>3. EveryTargetScheduled
  BY DEF SchedulerInit, EveryTargetScheduled, Carriers, NoTargets
<1>4. LabelsAreTrue
  BY DEF SchedulerInit, LabelsAreTrue, Known
<1>5. QED
  BY <1>1, <1>2, <1>3, <1>4 DEF SchedulerInv

(* A registration takes what it changes out of the hands of every job and  *)
(* leaves the rest.                                                        *)
LEMMA RegisterCarries ==
    ASSUME SchedulerInv, NEW c \in Cells, NEW w \in Workers, NEW T \in Eligible[c],
           Register(c, w, T), NEW j \in inflight, NEW d \in Cells, NEW k \in Components
    PROVE  Carries(j, d, k)' <=> Carries(j, d, k) /\ (d # c \/ k \notin Changed(c, w, T))
<1> USE DEF SchedulerInv, SchedulerTypeOK, Register, Set, Carries
<1>1. j \in Jobs /\ j.keys \subseteq Components
  BY DEF Jobs
<1>2. CASE d # c
  BY <1>2
<1>3. CASE d = c /\ k \notin Changed(c, w, T)
  <2>1. worker[c] = w /\ w # NoWorker
    BY <1>3, Distinct DEF Changed
  <2>2. worker'[c] = w /\ generation'[c] = generation[c] /\ targetGen'[c][k] = targetGen[c][k]
    BY <1>3, <2>1
  <2>3. QED
    BY <1>3, <2>1, <2>2
<1>4. CASE d = c /\ k \in Changed(c, w, T)
  <2>1. targetGen'[c][k] \in {sequence + 1, 0}
    BY <1>4
  <2>2. k \in j.keys => 0 < j.targetGen[k] /\ j.targetGen[k] <= sequence
    BY DEF JobsAreDated
  <2>3. j.targetGen \in [Components -> Nat] /\ sequence \in Nat
    BY <1>1 DEF Jobs
  <2>4. ~Carries(j, d, k)'
    BY <1>4, <2>1, <2>2, <2>3
  <2>5. QED
    BY <1>4, <2>4
<1>5. QED
  BY <1>2, <1>3, <1>4

LEMMA InvRegister ==
    ASSUME SchedulerInv, NEW c \in Cells, NEW w \in Workers, NEW T \in Eligible[c],
           Register(c, w, T)
    PROVE  SchedulerInv'
<1> DEFINE C == Changed(c, w, T)
<1>1. SchedulerTypeOK /\ SchedulerTypeOK'
  BY TypeRegister DEF SchedulerInv
<1>2. T \in [Components -> Runtimes \union {NoTarget}]
  BY Distinct DEF Targets
<1>3. ASSUME NEW d \in Cells, NEW k \in Components, d # c \/ k \notin C
      PROVE  /\ worker'[d] = worker[d]
             /\ target'[d][k] = target[d][k]
             /\ k \in queued'[d] <=> k \in queued[d]
             /\ observation'[d][k] = observation[d][k]
  BY <1>1, <1>3 DEF SchedulerTypeOK, Register, Set, Changed
<1>4. ASSUME NEW k \in C
      PROVE  /\ k \in Components
             /\ k \in queued'[c] <=> target'[c][k] # NoTarget
             /\ observation'[c][k] = Unknown
  BY <1>1 DEF SchedulerTypeOK, Register, Set, Changed, TargetsIn
<1>5. Registered'
  BY <1>1, <1>3, Distinct DEF SchedulerInv, Registered, SchedulerTypeOK, Register, Set
<1>6. JobsAreDated'
  <2>1. \A j \in inflight : \A k \in j.keys : j.targetGen[k] \in Nat
    BY <1>1 DEF SchedulerTypeOK, Jobs
  <2>2. QED
    BY <1>1, <2>1 DEF SchedulerInv, SchedulerTypeOK, JobsAreDated, Register
<1>7. JobsAskPresent'
  <2> SUFFICES ASSUME NEW j \in inflight, NEW k \in CurrentTargets(j)'
               PROVE  j.worker = worker'[j.cell] /\ j.target[k] = target'[j.cell][k]
    BY DEF JobsAskPresent, Register
  <2>1. j.cell \in Cells /\ k \in Components
    BY <1>1 DEF SchedulerTypeOK, Jobs, CurrentTargets
  <2>2. Carries(j, j.cell, k)'
    BY CurrentAre
  <2>3. Carries(j, j.cell, k) /\ (j.cell # c \/ k \notin C)
    BY <2>1, <2>2, RegisterCarries
  <2>4. k \in CurrentTargets(j)
    BY <2>3, CurrentAre
  <2>5. QED
    BY <1>3, <2>1, <2>3, <2>4 DEF SchedulerInv, JobsAskPresent
<1>8. EveryTargetScheduled'
  <2> SUFFICES ASSUME NEW d \in Cells, NEW k \in Components
               PROVE  IF target'[d][k] = NoTarget
                      THEN k \notin queued'[d] /\ Carriers(d, k)' = {}
                      ELSE IF k \in queued'[d] THEN Carriers(d, k)' = {}
                      ELSE /\ Carriers(d, k)' # {}
                           /\ \A i, j \in Carriers(d, k)' : i = j
    BY DEF EveryTargetScheduled
  <2>1. inflight' = inflight
    BY DEF Register
  <2>2. CASE d # c \/ k \notin C
    <3>1. \A j \in inflight : Carries(j, d, k)' <=> Carries(j, d, k)
      BY <2>2, RegisterCarries
    <3>2. Carriers(d, k)' = Carriers(d, k)
      BY <2>1, <3>1, CarriersAre
    <3>3. QED
      BY <1>3, <2>2, <3>2 DEF SchedulerInv, EveryTargetScheduled
  <2>3. CASE d = c /\ k \in C
    <3>1. Carriers(d, k)' = {}
      BY <2>1, <2>3, RegisterCarries, CarriersAre
    <3>2. QED
      BY <1>4, <2>3, <3>1
  <2>4. QED
    BY <2>2, <2>3
<1>9. LabelsAreTrue'
  <2> SUFFICES ASSUME NEW d \in Cells, NEW k \in Components,
                      observation'[d][k] # Unknown
               PROVE  /\ target'[d][k] # NoTarget
                      /\ observation'[d][k].worker = worker'[d]
                      /\ observation'[d][k].target = target'[d][k]
    BY DEF LabelsAreTrue, Known
  <2>1. d # c \/ k \notin C
    BY <1>4
  <2>2. k \in Known(d)
    BY <1>3, <2>1 DEF Known
  <2>3. QED
    BY <1>3, <2>1, <2>2 DEF SchedulerInv, LabelsAreTrue
<1>10. QED
  BY <1>1, <1>5, <1>6, <1>7, <1>8, <1>9 DEF SchedulerInv

(* The removal of a cell leaves its jobs in flight with nothing to report. *)
LEMMA InvRemove ==
    ASSUME SchedulerInv, NEW c \in Cells, Remove(c)
    PROVE  SchedulerInv'
<1>1. SchedulerTypeOK /\ SchedulerTypeOK'
  BY TypeRemove DEF SchedulerInv
<1>2. /\ worker'[c] = NoWorker /\ queued'[c] = {}
      /\ \A k \in Components : target'[c][k] = NoTarget /\ observation'[c][k] = Unknown
  BY <1>1 DEF SchedulerTypeOK, Remove, Set, NoTargets
<1>3. ASSUME NEW d \in Cells, d # c
      PROVE  /\ worker'[d] = worker[d] /\ target'[d] = target[d]
             /\ generation'[d] = generation[d] /\ targetGen'[d] = targetGen[d]
             /\ queued'[d] = queued[d] /\ observation'[d] = observation[d]
  BY <1>1, <1>3 DEF SchedulerTypeOK, Remove, Set
<1>4. inflight' = inflight /\ sequence' = sequence
  BY DEF Remove
<1>5. ASSUME NEW j \in inflight, NEW d \in Cells, NEW k
      PROVE  Carries(j, d, k)' <=> Carries(j, d, k) /\ d # c
  BY <1>2, <1>3 DEF Carries
<1>6. Registered' /\ JobsAreDated'
  BY <1>2, <1>3, <1>4 DEF SchedulerInv, Registered, JobsAreDated
<1>7. JobsAskPresent'
  <2> SUFFICES ASSUME NEW j \in inflight, NEW k \in CurrentTargets(j)'
               PROVE  j.worker = worker'[j.cell] /\ j.target[k] = target'[j.cell][k]
    BY <1>4 DEF JobsAskPresent
  <2>1. j.cell \in Cells
    BY <1>1 DEF SchedulerTypeOK, Jobs
  <2>2. Carries(j, j.cell, k)'
    BY CurrentAre
  <2>3. Carries(j, j.cell, k) /\ j.cell # c
    BY <2>1, <2>2, <1>5
  <2>4. k \in CurrentTargets(j)
    BY <2>3, CurrentAre
  <2>5. QED
    BY <1>3, <2>1, <2>3, <2>4 DEF SchedulerInv, JobsAskPresent
<1>8. EveryTargetScheduled'
  <2> SUFFICES ASSUME NEW d \in Cells, NEW k \in Components
               PROVE  IF target'[d][k] = NoTarget
                      THEN k \notin queued'[d] /\ Carriers(d, k)' = {}
                      ELSE IF k \in queued'[d] THEN Carriers(d, k)' = {}
                      ELSE /\ Carriers(d, k)' # {}
                           /\ \A i, j \in Carriers(d, k)' : i = j
    BY DEF EveryTargetScheduled
  <2>1. CASE d # c
    <3>1. \A j \in inflight : Carries(j, d, k)' <=> Carries(j, d, k)
      BY <2>1, <1>5
    <3>2. Carriers(d, k)' = Carriers(d, k)
      BY <1>4, <3>1, CarriersAre
    <3>3. QED
      BY <1>3, <2>1, <3>2 DEF SchedulerInv, EveryTargetScheduled
  <2>2. CASE d = c
    <3>1. \A j \in inflight : ~Carries(j, d, k)'
      BY <2>2, <1>5
    <3>2. Carriers(d, k)' = {}
      BY <1>4, <3>1, CarriersAre
    <3>3. QED
      BY <1>2, <2>2, <3>2
  <2>3. QED
    BY <2>1, <2>2
<1>9. LabelsAreTrue'
  BY <1>2, <1>3 DEF SchedulerInv, LabelsAreTrue, Known
<1>10. QED
  BY <1>1, <1>6, <1>7, <1>8, <1>9 DEF SchedulerInv

(* A batch takes ripe targets from the heap; nobody else carries them.     *)
LEMMA InvDispatch ==
    ASSUME SchedulerInv, Dispatch
    PROVE  SchedulerInv'
<1>1. SchedulerTypeOK /\ SchedulerTypeOK'
  BY TypeDispatch DEF SchedulerInv
<1>2. PICK i \in 1..Len(order) : \E S \in SUBSET Ripe(order[i]) :
        /\ inflight' = inflight \union {JobOf(order[i], S)}
        /\ queued' = Set(queued, order[i], queued[order[i]] \ S)
  BY DEF Dispatch
<1>3. PICK S \in SUBSET Ripe(order[i]) :
        /\ inflight' = inflight \union {JobOf(order[i], S)}
        /\ queued' = Set(queued, order[i], queued[order[i]] \ S)
  BY <1>2
<1> DEFINE c == order[i]
           b == JobOf(c, S)
<1>4. c \in Cells /\ S \subseteq queued[c] /\ S \subseteq Components
  BY <1>1, RotatedType DEF Ripe, SchedulerTypeOK
<1>5. UNCHANGED <<worker, generation, target, targetGen, observation, sequence>>
  BY DEF Dispatch, cellVars
<1>6. ASSUME NEW k \in S
      PROVE  /\ target[c][k] # NoTarget /\ worker[c] # NoWorker
             /\ Carriers(c, k) = {}
  BY <1>1, <1>4 DEF SchedulerInv, EveryTargetScheduled, Registered
<1>7. ASSUME NEW j, NEW d, NEW k
      PROVE  Carries(j, d, k)' <=> Carries(j, d, k)
  BY <1>5 DEF Carries
<1>8. ASSUME NEW d, NEW k
      PROVE  Carries(b, d, k) <=> d = c /\ k \in S
  BY <1>6 DEF Carries, JobOf
<1>9. Registered'
  BY <1>5 DEF SchedulerInv, Registered
<1>10. JobsAreDated'
  <2>1. ASSUME NEW k \in S
        PROVE  0 < targetGen[c][k] /\ targetGen[c][k] <= sequence
    <3>1. k \in Components /\ target[c][k] # NoTarget
      BY <1>4, <1>6
    <3>2. targetGen[c][k] \in Nat /\ targetGen[c][k] # 0 /\ targetGen[c][k] <= sequence
      BY <1>1, <1>4, <3>1 DEF SchedulerTypeOK
    <3>3. QED
      BY <3>2
  <2>2. \A k \in b.keys : 0 < b.targetGen[k] /\ b.targetGen[k] <= sequence
    BY <2>1 DEF JobOf
  <2>3. QED
    BY <1>3, <1>5, <2>2 DEF SchedulerInv, JobsAreDated
<1>11. JobsAskPresent'
  <2>1. \A j : CurrentTargets(j)' = CurrentTargets(j)
    BY <1>5 DEF CurrentTargets
  <2>2. \A k \in CurrentTargets(b) : b.worker = worker[b.cell] /\ b.target[k] = target[b.cell][k]
    BY DEF JobOf
  <2>3. QED
    BY <1>3, <1>5, <2>1, <2>2 DEF SchedulerInv, JobsAskPresent
<1>12. EveryTargetScheduled'
  <2> SUFFICES ASSUME NEW d \in Cells, NEW k \in Components
               PROVE  IF target[d][k] = NoTarget
                      THEN k \notin queued'[d] /\ Carriers(d, k)' = {}
                      ELSE IF k \in queued'[d] THEN Carriers(d, k)' = {}
                      ELSE /\ Carriers(d, k)' # {}
                           /\ \A g, j \in Carriers(d, k)' : g = j
    BY <1>5 DEF EveryTargetScheduled
  <2>1. CASE d = c /\ k \in S
    <3>1. k \notin queued'[d]
      BY <1>1, <1>3, <1>4, <2>1 DEF SchedulerTypeOK, Set
    <3>2. \A j \in inflight : ~Carries(j, d, k)
      BY <1>6, <2>1, CarriersAre
    <3>3. Carriers(d, k)' = {b}
      BY <1>3, <1>7, <1>8, <2>1, <3>2, CarriersAre
    <3>4. QED
      BY <1>6, <2>1, <3>1, <3>3
  <2>2. CASE ~(d = c /\ k \in S)
    <3>1. k \in queued'[d] <=> k \in queued[d]
      BY <1>1, <1>3, <1>4, <2>2 DEF SchedulerTypeOK, Set
    <3>2. ~Carries(b, d, k)
      BY <1>8, <2>2
    <3>3. Carriers(d, k)' = {j \in inflight' : Carries(j, d, k)}
      BY <1>7, CarriersAre
    <3>4. Carriers(d, k)' = Carriers(d, k)
      BY <1>3, <3>2, <3>3, CarriersAre
    <3>5. QED
      BY <3>1, <3>4 DEF SchedulerInv, EveryTargetScheduled
  <2>3. QED
    BY <2>1, <2>2
<1>13. LabelsAreTrue'
  BY <1>5 DEF SchedulerInv, LabelsAreTrue, Known
<1>14. QED
  BY <1>1, <1>9, <1>10, <1>11, <1>12, <1>13 DEF SchedulerInv

(* An answer, or the lack of one, brings back what the job still carries.  *)
LEMMA InvComplete ==
    ASSUME SchedulerInv, NEW j \in inflight, NEW answered \in BOOLEAN,
           Complete(j, answered)
    PROVE  SchedulerInv'
<1> DEFINE c == j.cell
           N == CurrentTargets(j)
<1>1. j \in Jobs /\ c \in Cells /\ j.keys \subseteq Components
  BY DEF SchedulerInv, SchedulerTypeOK, Jobs
<1>2. SchedulerTypeOK /\ SchedulerTypeOK'
  <2>1. \A k \in j.keys : j.targetGen[k] # 0
    BY <1>1 DEF SchedulerInv, JobsAreDated, Jobs
  <2>2. QED
    BY <2>1, TypeComplete DEF SchedulerInv
<1>3. /\ UNCHANGED <<worker, generation, target, targetGen, sequence>>
      /\ inflight' = inflight \ {j}
  BY DEF Complete, cellVars
<1>4. ASSUME NEW k \in N
      PROVE  /\ k \in Components
             /\ Carries(j, c, k)
             /\ j \in Carriers(c, k)
  BY <1>1, CurrentAre, CarriersAre DEF CurrentTargets
<1>5. ASSUME NEW k \in N
      PROVE  /\ target[c][k] # NoTarget
             /\ \A i \in Carriers(c, k) : i = j
             /\ j.worker = worker[c] /\ j.target[k] = target[c][k]
  BY <1>1, <1>4 DEF SchedulerInv, EveryTargetScheduled, JobsAskPresent
<1>6. ASSUME NEW i, NEW d, NEW k
      PROVE  Carries(i, d, k)' <=> Carries(i, d, k)
  BY <1>3 DEF Carries
<1>7. Registered' /\ JobsAreDated'
  BY <1>3 DEF SchedulerInv, Registered, JobsAreDated
<1>8. JobsAskPresent'
  <2>1. \A i : CurrentTargets(i)' = CurrentTargets(i)
    BY <1>3 DEF CurrentTargets
  <2>2. QED
    BY <1>3, <2>1 DEF SchedulerInv, JobsAskPresent
<1>9. ASSUME NEW d \in Cells, NEW k \in Components
      PROVE  /\ k \in queued'[d] <=> k \in queued[d] \/ (d = c /\ k \in N)
             /\ ~(d = c /\ k \in N) => observation'[d][k] = observation[d][k]
             /\ d = c /\ k \in N => \/ observation'[d][k] = Unknown
                                    \/ /\ observation'[d][k].worker = j.worker
                                       /\ observation'[d][k].target = j.target[k]
  BY <1>1, <1>2 DEF SchedulerTypeOK, Complete, Set, NextCheck
<1>10. EveryTargetScheduled'
  <2> SUFFICES ASSUME NEW d \in Cells, NEW k \in Components
               PROVE  IF target[d][k] = NoTarget
                      THEN k \notin queued'[d] /\ Carriers(d, k)' = {}
                      ELSE IF k \in queued'[d] THEN Carriers(d, k)' = {}
                      ELSE /\ Carriers(d, k)' # {}
                           /\ \A g, i \in Carriers(d, k)' : g = i
    BY <1>3 DEF EveryTargetScheduled
  <2>1. Carriers(d, k)' = {i \in inflight' : Carries(i, d, k)}
    BY <1>6, CarriersAre
  <2>2. Carriers(d, k)' = Carriers(d, k) \ {j}
    BY <1>3, <2>1, CarriersAre
  <2>3. CASE d = c /\ k \in N
    <3>1. Carriers(d, k)' = {}
      BY <1>5, <2>2, <2>3
    <3>2. QED
      BY <1>5, <1>9, <2>3, <3>1
  <2>4. CASE ~(d = c /\ k \in N)
    <3>1. ~Carries(j, d, k)
      BY <2>4, CurrentAre DEF Carries
    <3>2. Carriers(d, k)' = Carriers(d, k)
      BY <2>2, <3>1, CarriersAre
    <3>3. QED
      BY <1>9, <2>4, <3>2 DEF SchedulerInv, EveryTargetScheduled
  <2>5. QED
    BY <2>3, <2>4
<1>11. LabelsAreTrue'
  <2> SUFFICES ASSUME NEW d \in Cells, NEW k \in Components,
                      observation'[d][k] # Unknown
               PROVE  /\ target[d][k] # NoTarget
                      /\ observation'[d][k].worker = worker[d]
                      /\ observation'[d][k].target = target[d][k]
    BY <1>3 DEF LabelsAreTrue, Known
  <2>1. CASE d = c /\ k \in N
    BY <1>5, <1>9, <2>1
  <2>2. CASE ~(d = c /\ k \in N)
    <3>1. k \in Known(d)
      BY <1>9, <2>2 DEF Known
    <3>2. QED
      BY <1>9, <2>2, <3>1 DEF SchedulerInv, LabelsAreTrue
  <2>3. QED
    BY <2>1, <2>2
<1>12. QED
  BY <1>2, <1>7, <1>8, <1>10, <1>11 DEF SchedulerInv

\* A job after one more unit of time.
Older(j) == [j EXCEPT !.age = @ + 1]

(* A job is the same job when it is older.                                 *)
LEMMA OlderCarries ==
    ASSUME NEW j \in Jobs, NEW d, NEW k
    PROVE  /\ Older(j).cell = j.cell /\ Older(j).worker = j.worker
           /\ Older(j).keys = j.keys /\ Older(j).generation = j.generation
           /\ Older(j).targetGen = j.targetGen /\ Older(j).target = j.target
           /\ Older(j).age = j.age + 1
           /\ Carries(Older(j), d, k) <=> Carries(j, d, k)
    BY DEF Older, Jobs, Carries

LEMMA InvTick ==
    ASSUME SchedulerInv, Tick
    PROVE  SchedulerInv'
<1>1. SchedulerTypeOK /\ SchedulerTypeOK'
  BY TypeTick DEF SchedulerInv
<1>2. UNCHANGED <<worker, generation, target, targetGen, queued, sequence>>
  BY DEF Tick, cellVars
<1>3. inflight' = {Older(j) : j \in inflight} /\ inflight \subseteq Jobs
  BY <1>1 DEF Tick, Older, SchedulerTypeOK
<1>4. ASSUME NEW j, NEW d, NEW k
      PROVE  Carries(j, d, k)' <=> Carries(j, d, k)
  BY <1>2 DEF Carries
<1>5. Registered'
  BY <1>2 DEF SchedulerInv, Registered
<1>6. JobsAreDated'
  <2> SUFFICES ASSUME NEW i \in inflight', NEW k \in i.keys
               PROVE  0 < i.targetGen[k] /\ i.targetGen[k] <= sequence
    BY <1>2 DEF JobsAreDated
  <2>1. PICK j \in inflight : i = Older(j)
    BY <1>3
  <2>2. i.keys = j.keys /\ i.targetGen = j.targetGen
    BY <1>3, <2>1, OlderCarries
  <2>3. QED
    BY <2>2 DEF SchedulerInv, JobsAreDated
<1>7. JobsAskPresent'
  <2> SUFFICES ASSUME NEW i \in inflight', NEW k \in CurrentTargets(i)'
               PROVE  i.worker = worker[i.cell] /\ i.target[k] = target[i.cell][k]
    BY <1>2 DEF JobsAskPresent
  <2>1. PICK j \in inflight : i = Older(j)
    BY <1>3
  <2>2. i.cell = j.cell /\ i.worker = j.worker /\ i.target = j.target
    BY <1>3, <2>1, OlderCarries
  <2>3. Carries(j, j.cell, k)
    BY <1>3, <1>4, <2>1, <2>2, CurrentAre, OlderCarries
  <2>4. k \in CurrentTargets(j)
    BY <2>3, CurrentAre
  <2>5. QED
    BY <2>2, <2>4 DEF SchedulerInv, JobsAskPresent
<1>8. EveryTargetScheduled'
  <2> SUFFICES ASSUME NEW d \in Cells, NEW k \in Components
               PROVE  IF target[d][k] = NoTarget
                      THEN k \notin queued[d] /\ Carriers(d, k)' = {}
                      ELSE IF k \in queued[d] THEN Carriers(d, k)' = {}
                      ELSE /\ Carriers(d, k)' # {}
                           /\ \A g, i \in Carriers(d, k)' : g = i
    BY <1>2 DEF EveryTargetScheduled
  <2>1. Carriers(d, k)' = {i \in inflight' : Carries(i, d, k)}
    BY <1>4, CarriersAre
  <2>2. \A j \in inflight : Carries(Older(j), d, k) <=> Carries(j, d, k)
    BY <1>3, OlderCarries
  <2>3. Carriers(d, k)' = {Older(j) : j \in Carriers(d, k)}
    BY <1>3, <2>1, <2>2, CarriersAre
  <2>4. QED
    BY <2>3 DEF SchedulerInv, EveryTargetScheduled
<1>9. LabelsAreTrue'
  <2>1. ASSUME NEW o \in Observations
        PROVE  /\ [o EXCEPT !.age = @ + 1].worker = o.worker
               /\ [o EXCEPT !.age = @ + 1].target = o.target
    BY DEF Observations
  <2>2. ASSUME NEW d \in Cells, NEW k \in Components
        PROVE  \/ observation'[d][k] = observation[d][k]
               \/ /\ k \in Known(d)
                  /\ observation'[d][k] = [observation[d][k] EXCEPT !.age = @ + 1]
    BY <1>1 DEF Tick, SchedulerTypeOK
  <2> SUFFICES ASSUME NEW d \in Cells, NEW k \in Components,
                      observation'[d][k] # Unknown
               PROVE  /\ target[d][k] # NoTarget
                      /\ observation'[d][k].worker = worker[d]
                      /\ observation'[d][k].target = target[d][k]
    BY <1>2 DEF LabelsAreTrue, Known
  <2>3. observation[d][k] \in Observations
    BY <1>1 DEF SchedulerTypeOK
  <2>4. k \in Known(d)
    BY <2>2 DEF Known
  <2>5. /\ target[d][k] # NoTarget
        /\ observation[d][k].worker = worker[d]
        /\ observation[d][k].target = target[d][k]
    BY <2>4 DEF SchedulerInv, LabelsAreTrue
  <2>6. QED
    BY <2>1, <2>2, <2>3, <2>5
<1>10. QED
  BY <1>1, <1>5, <1>6, <1>7, <1>8, <1>9 DEF SchedulerInv

(* Every step keeps the invariant.                                         *)
LEMMA InvStep == SchedulerInv /\ [SchedulerNext]_schedulerVars => SchedulerInv'
<1> SUFFICES ASSUME SchedulerInv, [SchedulerNext]_schedulerVars PROVE SchedulerInv'
  OBVIOUS
<1>1. ASSUME NEW c \in Cells, NEW w \in Workers, NEW T \in Eligible[c], Register(c, w, T)
      PROVE  SchedulerInv'
  BY <1>1, InvRegister
<1>2. ASSUME NEW c \in Cells, Remove(c) PROVE SchedulerInv'
  BY <1>2, InvRemove
<1>3. ASSUME Dispatch PROVE SchedulerInv'
  BY <1>3, InvDispatch
<1>4. ASSUME NEW j \in inflight, NEW answered \in BOOLEAN, Complete(j, answered)
      PROVE  SchedulerInv'
  BY <1>4, InvComplete
<1>5. ASSUME Tick PROVE SchedulerInv'
  BY <1>5, InvTick
<1>6. ASSUME UNCHANGED schedulerVars PROVE SchedulerInv'
  <2>1. UNCHANGED <<order, worker, generation, target, targetGen, queued, due,
                    observation, inflight, sequence>>
    BY <1>6 DEF schedulerVars, cellVars, dueVars
  <2>2. SchedulerTypeOK'
    BY <2>1 DEF SchedulerInv, SchedulerTypeOK
  <2>3. Registered' /\ JobsAreDated' /\ JobsAskPresent'
    BY <2>1 DEF SchedulerInv, Registered, JobsAreDated, JobsAskPresent, CurrentTargets
  <2>4. EveryTargetScheduled'
    BY <2>1 DEF SchedulerInv, EveryTargetScheduled, Carriers, CurrentTargets
  <2>5. LabelsAreTrue'
    BY <2>1 DEF SchedulerInv, LabelsAreTrue, Known
  <2>6. QED
    BY <2>2, <2>3, <2>4, <2>5 DEF SchedulerInv
<1>7. QED
  BY <1>1, <1>2, <1>3, <1>4, <1>5, <1>6 DEF SchedulerNext

(* The invariant holds in every reachable state.                           *)
THEOREM SchedulerInvariant == SchedulerSpec => []SchedulerInv
    BY InvInit, InvStep, PTL DEF SchedulerSpec

(* The scheduler's tables keep their shape.                                *)
THEOREM SchedulerTypeCorrect == SchedulerSpec => []SchedulerTypeOK
<1>1. SchedulerInv => SchedulerTypeOK
  BY DEF SchedulerInv
<1>2. QED
  BY <1>1, SchedulerInvariant, PTL

(* No target is lost and none is checked twice at a time, whatever is      *)
(* registered or removed while its batch is in flight, and whether or not  *)
(* the batch is answered.                                                  *)
THEOREM TargetsStayScheduled == SchedulerSpec => []EveryTargetScheduled
<1>1. SchedulerInv => EveryTargetScheduled
  BY DEF SchedulerInv
<1>2. QED
  BY <1>1, SchedulerInvariant, PTL

(* What is cached for a target was observed by its present worker, of its  *)
(* present runtime.                                                        *)
THEOREM LabelsStayTrue == SchedulerSpec => []LabelsAreTrue
<1>1. SchedulerInv => LabelsAreTrue
  BY DEF SchedulerInv
<1>2. QED
  BY <1>1, SchedulerInvariant, PTL

-----------------------------------------------------------------------------
(* The bounds on batches in flight.                                        *)
CapacityInv ==
    /\ SchedulerTypeOK
    /\ IsFiniteSet(inflight)
    /\ CapacityHolds

(* Fewer jobs keep a bound.                                                *)
LEMMA FewerJobs ==
    ASSUME IsFiniteSet(inflight), CapacityHolds, NEW J \in SUBSET inflight
    PROVE  /\ IsFiniteSet(J)
           /\ Cardinality(J) <= MaxInflight
           /\ \A c \in Cells : Cardinality({j \in J : j.cell = c}) <= MaxPerWorker
<1>1. IsFiniteSet(J) /\ Cardinality(J) <= MaxInflight
  <2>1. /\ IsFiniteSet(J) /\ Cardinality(J) <= Cardinality(inflight)
        /\ Cardinality(J) \in Nat /\ Cardinality(inflight) \in Nat
    BY FS_Subset, FS_CardinalityType
  <2>2. Cardinality(inflight) <= MaxInflight /\ MaxInflight \in Nat
    BY SchedulerAssumption DEF CapacityHolds
  <2>3. QED
    BY <2>1, <2>2
<1>2. ASSUME NEW c \in Cells
      PROVE  Cardinality({j \in J : j.cell = c}) <= MaxPerWorker
  <2> DEFINE K == {j \in inflight : j.cell = c}
             L == {j \in J : j.cell = c}
  <2>1. IsFiniteSet(K) /\ L \in SUBSET K
    BY FS_Subset
  <2>2. Cardinality(L) <= Cardinality(K) /\ Cardinality(L) \in Nat /\ Cardinality(K) \in Nat
    <3> HIDE DEF K, L
    <3>1. QED
      BY <2>1, FS_Subset, FS_CardinalityType
  <2>3. Cardinality(K) <= MaxPerWorker /\ MaxPerWorker \in Nat
    BY SchedulerAssumption DEF CapacityHolds
  <2>4. QED
    BY <2>2, <2>3
<1>3. QED
  BY <1>1, <1>2

(* Ageing neither adds nor merges jobs of a cell beyond those there were.  *)
LEMMA OlderFinite ==
    ASSUME NEW J, IsFiniteSet(J)
    PROVE  /\ IsFiniteSet({Older(j) : j \in J})
           /\ Cardinality({Older(j) : j \in J}) <= Cardinality(J)
<1> DEFINE O == {Older(j) : j \in J}
           f == [j \in J |-> Older(j)]
<1>1. f \in Surjection(J, O)
  BY DEF Surjection
<1>2. QED
  BY <1>1, FS_Surjection

(* A free slot takes one more job.                                         *)
LEMMA OneMore ==
    ASSUME NEW J, NEW x, NEW m \in Nat, IsFiniteSet(J), Cardinality(J) < m
    PROVE  IsFiniteSet(J \union {x}) /\ Cardinality(J \union {x}) <= m
<1>1. Cardinality(J) \in Nat
  BY FS_CardinalityType
<1>2. /\ IsFiniteSet(J \union {x})
      /\ Cardinality(J \union {x}) = IF x \in J THEN Cardinality(J) ELSE Cardinality(J) + 1
  BY FS_AddElement
<1>3. QED
  BY <1>1, <1>2

LEMMA CapacityStep ==
    CapacityInv /\ SchedulerTypeOK' /\ [SchedulerNext]_schedulerVars => CapacityInv'
<1> SUFFICES ASSUME CapacityInv, SchedulerTypeOK', [SchedulerNext]_schedulerVars
             PROVE  IsFiniteSet(inflight') /\ CapacityHolds'
  BY DEF CapacityInv
<1>1. /\ MaxInflight \in Nat /\ MaxPerWorker \in Nat
      /\ \A c : Batches(c) = {j \in inflight : j.cell = c}
  BY SchedulerAssumption DEF Batches
<1>2. ASSUME inflight' \in SUBSET inflight
      PROVE  IsFiniteSet(inflight') /\ CapacityHolds'
  BY <1>2, FewerJobs DEF CapacityInv, CapacityHolds
<1>3. ASSUME Dispatch
      PROVE  IsFiniteSet(inflight') /\ CapacityHolds'
  <2>1. PICK i \in 1..Len(order) :
          /\ HasTurn(order[i])
          /\ \E S \in SUBSET Ripe(order[i]) : inflight' = inflight \union {JobOf(order[i], S)}
    BY <1>3 DEF Dispatch
  <2>2. PICK S \in SUBSET Ripe(order[i]) : inflight' = inflight \union {JobOf(order[i], S)}
    BY <2>1
  <2> DEFINE b == JobOf(order[i], S)
  <2>3. b.cell = order[i]
    BY DEF JobOf
  <2>4. Cardinality(inflight) < MaxInflight /\ Cardinality(Batches(order[i])) < MaxPerWorker
    BY <1>3, <2>1 DEF Dispatch, HasTurn
  <2>5. IsFiniteSet(inflight) /\ Cardinality(inflight) \in Nat
    BY FS_CardinalityType DEF CapacityInv
  <2>6. IsFiniteSet(inflight') /\ Cardinality(inflight') <= MaxInflight
    <3>1. IsFiniteSet(inflight \union {b}) /\ Cardinality(inflight \union {b}) <= MaxInflight
      BY <1>1, <2>4, <2>5, OneMore
    <3>2. QED
      BY <2>2, <3>1
  <2>7. ASSUME NEW c \in Cells
        PROVE  Cardinality({j \in inflight' : j.cell = c}) <= MaxPerWorker
    <3>1. IsFiniteSet(Batches(c)) /\ Cardinality(Batches(c)) \in Nat
      BY <1>1, <2>5, FS_Subset, FS_CardinalityType
    <3>2. Cardinality(Batches(c)) <= MaxPerWorker
      BY <1>1 DEF CapacityInv, CapacityHolds
    <3>3. CASE c = order[i]
      <4>1. {j \in inflight' : j.cell = c} = Batches(c) \union {b}
        BY <1>1, <2>2, <2>3, <3>3
      <4>2. Cardinality(Batches(c)) < MaxPerWorker
        BY <2>4, <3>3
      <4>3. Cardinality(Batches(c) \union {b}) <= MaxPerWorker
        BY <1>1, <3>1, <4>2, OneMore
      <4>4. QED
        BY <4>1, <4>3
    <3>4. CASE c # order[i]
      <4>1. {j \in inflight' : j.cell = c} = Batches(c)
        BY <1>1, <2>2, <2>3, <3>4
      <4>2. QED
        BY <3>2, <4>1
    <3>5. QED
      BY <3>3, <3>4
  <2>8. QED
    BY <2>6, <2>7 DEF CapacityHolds
<1>4. ASSUME Tick
      PROVE  IsFiniteSet(inflight') /\ CapacityHolds'
  <2>1. inflight' = {Older(j) : j \in inflight} /\ inflight \subseteq Jobs
    BY <1>4 DEF Tick, Older, CapacityInv, SchedulerTypeOK
  <2>2. IsFiniteSet(inflight) /\ Cardinality(inflight) <= MaxInflight
    BY DEF CapacityInv, CapacityHolds
  <2>3. IsFiniteSet(inflight') /\ Cardinality(inflight') <= MaxInflight
    BY <1>1, <2>1, <2>2, OlderFinite, FS_CardinalityType
  <2>4. ASSUME NEW c \in Cells
        PROVE  Cardinality({j \in inflight' : j.cell = c}) <= MaxPerWorker
    <3>1. \A j \in inflight : Older(j).cell = j.cell
      BY <2>1, OlderCarries
    <3>2. {j \in inflight' : j.cell = c} = {Older(j) : j \in Batches(c)}
      BY <1>1, <2>1, <3>1
    <3>3. /\ IsFiniteSet(Batches(c))
          /\ Cardinality(Batches(c)) <= MaxPerWorker
      BY <1>1, <2>2, FS_Subset DEF CapacityInv, CapacityHolds
    <3>4. QED
      BY <1>1, <3>2, <3>3, OlderFinite, FS_CardinalityType
  <2>5. QED
    BY <2>3, <2>4 DEF CapacityHolds
<1>5. ASSUME NEW c \in Cells, NEW w \in Workers, NEW T \in Eligible[c], Register(c, w, T)
      PROVE  inflight' \in SUBSET inflight
  BY <1>5 DEF Register
<1>6. ASSUME NEW c \in Cells, Remove(c) PROVE inflight' \in SUBSET inflight
  BY <1>6 DEF Remove
<1>7. ASSUME NEW j \in inflight, NEW answered \in BOOLEAN, Complete(j, answered)
      PROVE  inflight' \in SUBSET inflight
  BY <1>7 DEF Complete
<1>8. ASSUME UNCHANGED schedulerVars PROVE inflight' \in SUBSET inflight
  BY <1>8 DEF schedulerVars
<1>9. QED
  BY <1>2, <1>3, <1>4, <1>5, <1>6, <1>7, <1>8 DEF SchedulerNext

(* Nothing is in flight at first.                                          *)
LEMMA CapacityInit == SchedulerInit => CapacityInv
<1> SUFFICES ASSUME SchedulerInit PROVE CapacityInv
  OBVIOUS
<1>1. inflight = {} /\ \A c \in Cells : {j \in inflight : j.cell = c} = {}
  BY DEF SchedulerInit
<1>2. MaxInflight \in Nat /\ MaxPerWorker \in Nat
  BY SchedulerAssumption
<1>3. IsFiniteSet(inflight) /\ CapacityHolds
  BY <1>1, <1>2, FS_EmptySet DEF CapacityHolds
<1>4. QED
  BY <1>3, TypeInit DEF CapacityInv

(* The number of jobs is finite and within the bounds in every reachable   *)
(* state.                                                                  *)
THEOREM CapacityInvariant == SchedulerSpec => []CapacityInv
    BY CapacityInit, CapacityStep, SchedulerTypeCorrect, PTL DEF SchedulerSpec

(* No worker ever has more batches than it accepts, and all batches in     *)
(* flight stay within the bound of the controller, though jobs of removed  *)
(* cells keep their slots.                                                 *)
THEOREM CapacityIsKept == SchedulerSpec => []CapacityHolds
<1>1. CapacityInv => CapacityHolds
  BY DEF CapacityInv
<1>2. QED
  BY <1>1, CapacityInvariant, PTL

-----------------------------------------------------------------------------
(* The round: a new cell joins it at the end, a removed one leaves a gap   *)
(* that closes, a turn rotates it.                                         *)
LEMMA TurnsRegister ==
    ASSUME SchedulerTypeOK, OneTurnEach, NEW c \in Cells, NEW w \in Workers,
           NEW T \in Eligible[c], Register(c, w, T)
    PROVE  OneTurnEach'
<1>1. order \in Seq(Cells) /\ Len(order) \in Nat
  BY DEF SchedulerTypeOK
<1>2. /\ worker'[c] # NoWorker
      /\ \A d \in Cells : d # c => worker'[d] = worker[d]
  BY Distinct DEF Register, Set, SchedulerTypeOK
<1>3. CASE worker[c] = NoWorker
  <2>1. order' = Append(order, c) /\ \A i \in 1..Len(order) : order[i] # c
    BY <1>3 DEF Register, Turns, OneTurnEach
  <2>2. /\ Len(order') = Len(order) + 1 /\ order'[Len(order) + 1] = c
        /\ \A i \in 1..Len(order) : order'[i] = order[i]
    BY <1>1, <2>1
  <2>3. \A h, i \in 1..Len(order') : order'[h] = order'[i] => h = i
    BY <1>1, <2>1, <2>2 DEF OneTurnEach
  <2>4. ASSUME NEW d \in Cells
        PROVE  worker'[d] # NoWorker <=> \E i \in 1..Len(order') : order'[i] = d
    <3>1. CASE d = c
      <4>1. Len(order) + 1 \in 1..Len(order')
        BY <1>1, <2>2
      <4>2. QED
        BY <1>2, <2>2, <3>1, <4>1
    <3>2. CASE d # c
      <4>1. (\E i \in 1..Len(order') : order'[i] = d) <=> \E i \in 1..Len(order) : order[i] = d
        BY <1>1, <2>2, <3>2
      <4>2. QED
        BY <1>2, <3>2, <4>1 DEF OneTurnEach
    <3>3. QED
      BY <3>1, <3>2
  <2>5. QED
    BY <2>3, <2>4 DEF OneTurnEach
<1>4. CASE worker[c] # NoWorker
  BY <1>2, <1>4 DEF OneTurnEach, Register, Turns
<1>5. QED
  BY <1>3, <1>4

(* Those behind a cell that is removed move up by one place.               *)
LEMMA RemovedOrder ==
    ASSUME SchedulerTypeOK, OneTurnEach, NEW c \in Cells, Remove(c)
    PROVE  /\ Len(order') = Len(order) - 1
           /\ \A h \in 1..(Len(order) - 1) :
                order'[h] = IF h < Place(c) THEN order[h] ELSE order[h + 1]
<1>1. order \in Seq(Cells) /\ Len(order) \in Nat
  BY DEF SchedulerTypeOK
<1>2. Place(c) \in 1..Len(order) /\ order[Place(c)] = c
  BY DEF OneTurnEach, Place, Remove
<1>3. Len(order) - 1 \in Nat /\ DOMAIN Without(c) = 1..(Len(order) - 1)
  BY <1>1, <1>2 DEF Without
<1>4. order' = Without(c) /\ Without(c) \in Seq(Cells)
  BY WithoutType DEF Remove
<1>5. Len(order') = Len(order) - 1
  BY <1>3, <1>4
<1>6. QED
  BY <1>4, <1>5 DEF Without

LEMMA TurnsRemove ==
    ASSUME SchedulerTypeOK, OneTurnEach, NEW c \in Cells, Remove(c)
    PROVE  OneTurnEach'
<1>1. order \in Seq(Cells) /\ Len(order) \in Nat
  BY DEF SchedulerTypeOK
<1>2. /\ worker'[c] = NoWorker
      /\ \A d \in Cells : d # c => worker'[d] = worker[d]
      /\ worker[c] # NoWorker
  BY DEF Remove, Set, SchedulerTypeOK
<1>3. Place(c) \in 1..Len(order) /\ order[Place(c)] = c
  BY <1>2 DEF OneTurnEach, Place
<1> DEFINE p == Place(c)
<1>4. /\ Len(order') = Len(order) - 1
      /\ \A h \in 1..(Len(order) - 1) : order'[h] = IF h < p THEN order[h] ELSE order[h + 1]
  BY RemovedOrder
<1> HIDE DEF p
<1>5. \A h, i \in 1..Len(order') : order'[h] = order'[i] => h = i
  <2> SUFFICES ASSUME NEW h \in 1..Len(order'), NEW i \in 1..Len(order'),
                      order'[h] = order'[i]
               PROVE  h = i
    OBVIOUS
  <2> DEFINE g(n) == IF n < p THEN n ELSE n + 1
  <2>1. g(h) \in 1..Len(order) /\ g(i) \in 1..Len(order)
    BY <1>1, <1>4
  <2>2. order[g(h)] = order[g(i)]
    BY <1>4
  <2>3. g(h) = g(i)
    BY <2>1, <2>2 DEF OneTurnEach
  <2>4. p \in Nat
    BY <1>1, <1>3 DEF p
  <2>5. QED
    BY <2>3, <2>4, <1>1, <1>4
<1>6. ASSUME NEW d \in Cells
      PROVE  worker'[d] # NoWorker <=> \E i \in 1..Len(order') : order'[i] = d
  <2>0. p \in 1..Len(order) /\ order[p] = c
    BY <1>3 DEF p
  <2>1. CASE d = c
    <3>1. ASSUME NEW i \in 1..Len(order') PROVE order'[i] # c
      <4>1. CASE i < p
        BY <1>1, <1>4, <2>0, <4>1 DEF OneTurnEach
      <4>2. CASE ~(i < p)
        <5>1. i + 1 \in 1..Len(order) /\ i + 1 # p
          BY <1>1, <1>4, <2>0, <4>2
        <5>2. QED
          BY <1>4, <2>0, <4>2, <5>1 DEF OneTurnEach
      <4>3. QED
        BY <4>1, <4>2
    <3>2. QED
      BY <1>2, <2>1, <3>1
  <2>2. CASE d # c
    <3>1. ASSUME NEW i \in 1..Len(order), order[i] = d
          PROVE  \E h \in 1..Len(order') : order'[h] = d
      <4>1. CASE i < p
        <5>1. i \in 1..Len(order') /\ order'[i] = order[i]
          BY <1>1, <1>4, <2>0, <4>1
        <5>2. QED
          BY <3>1, <5>1
      <4>2. CASE i > p
        <5>1. i - 1 \in 1..Len(order') /\ ~(i - 1 < p) /\ (i - 1) + 1 = i
          BY <1>1, <1>4, <2>0, <4>2
        <5>2. order'[i - 1] = order[i]
          BY <1>4, <5>1
        <5>3. QED
          BY <3>1, <5>1, <5>2
      <4>3. i # p
        BY <2>0, <2>2, <3>1
      <4>4. QED
        BY <1>1, <2>0, <4>1, <4>2, <4>3
    <3>2. ASSUME NEW h \in 1..Len(order'), order'[h] = d
          PROVE  \E i \in 1..Len(order) : order[i] = d
      <4>1. h \in 1..Len(order) /\ h + 1 \in 1..Len(order)
        BY <1>1, <1>4
      <4>2. QED
        BY <1>4, <3>2, <4>1
    <3>3. QED
      BY <1>2, <2>2, <3>1, <3>2 DEF OneTurnEach
  <2>3. QED
    BY <2>1, <2>2
<1>7. QED
  BY <1>5, <1>6 DEF OneTurnEach

LEMMA TurnsDispatch ==
    ASSUME SchedulerTypeOK, OneTurnEach, Dispatch
    PROVE  OneTurnEach'
<1>1. order \in Seq(Cells) /\ Len(order) \in Nat /\ UNCHANGED worker
  BY DEF SchedulerTypeOK, Dispatch, cellVars
<1>2. PICK i \in 1..Len(order) : order' = Rotated(i)
  BY DEF Dispatch
<1> DEFINE n == Len(order)
           g(h) == IF h + i <= n THEN h + i ELSE h + i - n
<1>3. Len(order') = n /\ \A h \in 1..n : order'[h] = order[g(h)]
  BY <1>2, RotatedType DEF Rotated
<1>4. /\ \A h \in 1..n : g(h) \in 1..n
      /\ \A h, k \in 1..n : g(h) = g(k) => h = k
  BY <1>1
<1>5. \A k \in 1..n : \E h \in 1..n : g(h) = k
  <2> SUFFICES ASSUME NEW k \in 1..n PROVE \E h \in 1..n : g(h) = k
    OBVIOUS
  <2>1. CASE k > i
    <3>1. k - i \in 1..n /\ g(k - i) = k
      BY <1>1, <2>1
    <3>2. QED
      BY <3>1
  <2>2. CASE ~(k > i)
    <3>1. k - i + n \in 1..n /\ g(k - i + n) = k
      BY <1>1, <2>2
    <3>2. QED
      BY <3>1
  <2>3. QED
    BY <2>1, <2>2
<1> HIDE DEF g
<1>6. \A h, k \in 1..n : order'[h] = order'[k] => h = k
  <2> SUFFICES ASSUME NEW h \in 1..n, NEW k \in 1..n, order'[h] = order'[k]
               PROVE  h = k
    OBVIOUS
  <2>1. order[g(h)] = order[g(k)] /\ g(h) \in 1..n /\ g(k) \in 1..n
    BY <1>3, <1>4
  <2>2. g(h) = g(k)
    BY <2>1 DEF OneTurnEach
  <2>3. QED
    BY <1>4, <2>2
<1>7. ASSUME NEW c \in Cells
      PROVE  (\E h \in 1..n : order'[h] = c) <=> \E k \in 1..n : order[k] = c
  BY <1>3, <1>4, <1>5
<1>8. QED
  BY <1>1, <1>3, <1>6, <1>7 DEF OneTurnEach

(* A registered cell has exactly one place in the round, so a cell neither *)
(* loses its turns nor takes two.                                          *)
THEOREM TurnsAreFair == SchedulerSpec => []OneTurnEach
<1>1. ASSUME SchedulerInit PROVE OneTurnEach
  BY <1>1 DEF SchedulerInit, OneTurnEach
<1>2. SchedulerTypeOK /\ OneTurnEach /\ [SchedulerNext]_schedulerVars => OneTurnEach'
  <2> SUFFICES ASSUME SchedulerTypeOK, OneTurnEach, [SchedulerNext]_schedulerVars
               PROVE  OneTurnEach'
    OBVIOUS
  <2>1. ASSUME NEW c \in Cells, NEW w \in Workers, NEW T \in Eligible[c], Register(c, w, T)
        PROVE  OneTurnEach'
    BY <2>1, TurnsRegister
  <2>2. ASSUME NEW c \in Cells, Remove(c) PROVE OneTurnEach'
    BY <2>2, TurnsRemove
  <2>3. ASSUME Dispatch PROVE OneTurnEach'
    BY <2>3, TurnsDispatch
  <2>4. ASSUME NEW j \in inflight, NEW answered \in BOOLEAN, Complete(j, answered)
        PROVE  OneTurnEach'
    BY <2>4 DEF Complete, cellVars, OneTurnEach
  <2>5. ASSUME Tick PROVE OneTurnEach'
    BY <2>5 DEF Tick, cellVars, OneTurnEach
  <2>6. ASSUME UNCHANGED schedulerVars PROVE OneTurnEach'
    BY <2>6 DEF schedulerVars, cellVars, OneTurnEach
  <2>7. QED
    BY <2>1, <2>2, <2>3, <2>4, <2>5, <2>6 DEF SchedulerNext
<1>3. QED
  BY <1>1, <1>2, SchedulerTypeCorrect, PTL DEF SchedulerSpec

-----------------------------------------------------------------------------
(* The age of answers.                                                     *)
(* A job that will report on a target was handed out after what is cached  *)
(* for the target was asked for.                                           *)
AnswersAreNewer ==
    \A c \in Cells : \A k \in Known(c) : \A j \in Carriers(c, k) :
        j.age <= observation[c][k].age

(* A step that keeps an observation and adds no job that will report on    *)
(* its target keeps the jobs younger.                                      *)
LEMMA NewerKept ==
    ASSUME SchedulerInv, AnswersAreNewer, NEW c \in Cells, NEW k \in Components,
           observation'[c][k] = observation[c][k],
           \A j \in inflight' : Carries(j, c, k)' => j \in inflight /\ Carries(j, c, k)
    PROVE  k \in Known(c)' => \A j \in Carriers(c, k)' : j.age <= observation'[c][k].age
    BY CarriersAre DEF AnswersAreNewer, Known

(* A registration forgets what it changes and hands out nothing.           *)
LEMMA NewerRegister ==
    ASSUME SchedulerInv, AnswersAreNewer, NEW c \in Cells, NEW w \in Workers,
           NEW T \in Eligible[c], Register(c, w, T)
    PROVE  AnswersAreNewer'
<1> SUFFICES ASSUME NEW d \in Cells, NEW k \in Components, k \in Known(d)'
             PROVE  \A j \in Carriers(d, k)' : j.age <= observation'[d][k].age
  BY DEF AnswersAreNewer, Known
<1>1. /\ inflight' = inflight
      /\ d # c \/ k \notin Changed(c, w, T)
      /\ observation'[d][k] = observation[d][k]
  BY DEF SchedulerInv, SchedulerTypeOK, Register, Set, Known
<1>2. \A j \in inflight' : Carries(j, d, k)' => j \in inflight /\ Carries(j, d, k)
  BY <1>1, RegisterCarries
<1>3. QED
  BY <1>1, <1>2, NewerKept

(* So does a removal.                                                      *)
LEMMA NewerRemove ==
    ASSUME SchedulerInv, AnswersAreNewer, NEW c \in Cells, Remove(c)
    PROVE  AnswersAreNewer'
<1> SUFFICES ASSUME NEW d \in Cells, NEW k \in Components, k \in Known(d)'
             PROVE  \A j \in Carriers(d, k)' : j.age <= observation'[d][k].age
  BY DEF AnswersAreNewer, Known
<1>1. inflight' = inflight /\ d # c /\ observation'[d][k] = observation[d][k]
  BY DEF SchedulerInv, SchedulerTypeOK, Remove, Set, Known
<1>2. \A j \in inflight' : Carries(j, d, k)' => j \in inflight /\ Carries(j, d, k)
  BY <1>1 DEF SchedulerInv, SchedulerTypeOK, Remove, Set, Carries
<1>3. QED
  BY <1>1, <1>2, NewerKept

(* A job that is just handed out is younger than any observation.          *)
LEMMA NewerDispatch ==
    ASSUME SchedulerInv, AnswersAreNewer, Dispatch
    PROVE  AnswersAreNewer'
<1> SUFFICES ASSUME NEW d \in Cells, NEW k \in Components, k \in Known(d)',
                    NEW j \in Carriers(d, k)'
             PROVE  j.age <= observation'[d][k].age
  BY DEF AnswersAreNewer, Known
<1>1. UNCHANGED <<worker, generation, target, targetGen, observation>>
  BY DEF Dispatch, cellVars
<1>2. j \in inflight' /\ Carries(j, d, k)
  BY <1>1, CarriersAre DEF Carries
<1>3. CASE j \in inflight
  BY <1>1, <1>2, <1>3, CarriersAre DEF AnswersAreNewer, Known
<1>4. CASE j \notin inflight
  <2>1. j.age = 0
    BY <1>2, <1>4 DEF Dispatch, JobOf
  <2>2. observation[d][k].age \in 0..Ttl
    BY DEF SchedulerInv, SchedulerTypeOK, Observations
  <2>3. QED
    BY <1>1, <2>1, <2>2, Distinct
<1>5. QED
  BY <1>3, <1>4

(* Once an answer is cached nobody else is asked about its targets.        *)
LEMMA NewerComplete ==
    ASSUME SchedulerInv, AnswersAreNewer, NEW j \in inflight, NEW answered \in BOOLEAN,
           Complete(j, answered)
    PROVE  AnswersAreNewer'
<1> SUFFICES ASSUME NEW d \in Cells, NEW k \in Components, k \in Known(d)'
             PROVE  \A i \in Carriers(d, k)' : i.age <= observation'[d][k].age
  BY DEF AnswersAreNewer, Known
<1>0. j \in Jobs /\ j.cell \in Cells
  BY DEF SchedulerInv, SchedulerTypeOK, Jobs
<1>1. /\ UNCHANGED <<worker, generation, target, targetGen>>
      /\ inflight' = inflight \ {j}
  BY DEF Complete, cellVars
<1>2. CASE Carries(j, d, k)
  <2>1. Carriers(d, k)' = {}
    <3>1. j \in Carriers(d, k) /\ \A i \in Carriers(d, k) : i = j
      <4>1. j \in Carriers(d, k)
        BY <1>2, CarriersAre
      <4>2. QED
        BY <4>1 DEF SchedulerInv, EveryTargetScheduled
    <3>2. \A i \in Carriers(d, k)' : i \in Carriers(d, k) /\ i # j
      BY <1>1, CarriersAre DEF Carries
    <3>3. QED
      BY <3>1, <3>2
  <2>2. QED
    BY <2>1
<1>3. CASE ~Carries(j, d, k)
  <2>1. d = j.cell => k \notin CurrentTargets(j)
    BY <1>3, CurrentAre
  <2>2. observation'[d][k] = observation[d][k]
    BY <1>0, <2>1 DEF SchedulerInv, SchedulerTypeOK, Complete, Set
  <2>3. \A i \in inflight' : Carries(i, d, k)' => i \in inflight /\ Carries(i, d, k)
    BY <1>1 DEF Carries
  <2>4. QED
    BY <2>2, <2>3, NewerKept
<1>4. QED
  BY <1>2, <1>3

(* A job and an observation age together until the observation is as old   *)
(* as one can get, and a job is given up before that.                      *)
LEMMA NewerTick ==
    ASSUME SchedulerInv, AnswersAreNewer, Tick
    PROVE  AnswersAreNewer'
<1> SUFFICES ASSUME NEW d \in Cells, NEW k \in Components, k \in Known(d)',
                    NEW i \in Carriers(d, k)'
             PROVE  i.age <= observation'[d][k].age
  BY DEF AnswersAreNewer, Known
<1>1. UNCHANGED <<worker, generation, target, targetGen>>
  BY DEF Tick, cellVars
<1>2. inflight' = {Older(j) : j \in inflight} /\ inflight \subseteq Jobs
  BY DEF Tick, Older, SchedulerInv, SchedulerTypeOK
<1>3. PICK j \in inflight : i = Older(j)
  BY <1>2, CarriersAre
<1>4. /\ Carries(j, d, k)
      /\ i.age = j.age + 1
      /\ j.age \in Nat /\ j.age < JobTimeout
  <2>1. Carries(i, d, k)
    BY <1>1, CarriersAre DEF Carries
  <2>2. j \in Jobs
    BY <1>2
  <2>3. Carries(j, d, k) /\ i.age = j.age + 1
    BY <1>3, <2>1, <2>2, OlderCarries
  <2>4. j.age \in 0..JobTimeout
    BY <2>2 DEF Jobs
  <2>5. QED
    BY <2>3, <2>4, Distinct DEF Tick
<1> DEFINE o == observation[d][k]
<1>5. o \in Observations /\ o.age \in 0..Ttl
  BY DEF SchedulerInv, SchedulerTypeOK, Observations
<1>6. observation'[d][k] = IF k \in Known(d) /\ o.age < Ttl THEN [o EXCEPT !.age = @ + 1] ELSE o
  BY DEF Tick
<1>7. k \in Known(d)
  BY <1>6 DEF Known
<1>8. j.age <= o.age
  BY <1>4, <1>7, CarriersAre DEF AnswersAreNewer
<1>9. CASE o.age < Ttl
  <2>1. observation'[d][k].age = o.age + 1
    BY <1>5, <1>6, <1>7, <1>9 DEF Observations
  <2>2. QED
    BY <1>4, <1>5, <1>8, <2>1
<1>10. CASE ~(o.age < Ttl)
  <2>1. observation'[d][k].age = o.age /\ o.age = Ttl
    BY <1>5, <1>6, <1>10, Distinct
  <2>2. QED
    BY <1>4, <2>1, Distinct
<1>11. QED
  BY <1>9, <1>10

(* Every step keeps the jobs younger than what they will replace.          *)
LEMMA NewerStep ==
    SchedulerInv /\ AnswersAreNewer /\ [SchedulerNext]_schedulerVars => AnswersAreNewer'
<1> SUFFICES ASSUME SchedulerInv, AnswersAreNewer, [SchedulerNext]_schedulerVars
             PROVE  AnswersAreNewer'
  OBVIOUS
<1>1. ASSUME NEW c \in Cells, NEW w \in Workers, NEW T \in Eligible[c], Register(c, w, T)
      PROVE  AnswersAreNewer'
  BY <1>1, NewerRegister
<1>2. ASSUME NEW c \in Cells, Remove(c) PROVE AnswersAreNewer'
  BY <1>2, NewerRemove
<1>3. ASSUME Dispatch PROVE AnswersAreNewer'
  BY <1>3, NewerDispatch
<1>4. ASSUME NEW j \in inflight, NEW answered \in BOOLEAN, Complete(j, answered)
      PROVE  AnswersAreNewer'
  BY <1>4, NewerComplete
<1>5. ASSUME Tick PROVE AnswersAreNewer'
  BY <1>5, NewerTick
<1>6. ASSUME UNCHANGED schedulerVars PROVE AnswersAreNewer'
  BY <1>6 DEF schedulerVars, cellVars, AnswersAreNewer, Known, Carriers, CurrentTargets
<1>7. QED
  BY <1>1, <1>2, <1>3, <1>4, <1>5, <1>6 DEF SchedulerNext

(* Jobs of different content stay different when they get older, so no     *)
(* passage of time looks like a completion.                                *)
LEMMA OlderAgain ==
    ASSUME NEW J, J \subseteq Jobs, IsFiniteSet(J), {Older(j) : j \in J} \subseteq J
    PROVE  {Older(j) : j \in J} = J
<1> DEFINE f == [j \in J |-> Older(j)]
<1>1. \A i, j \in J : Older(i) = Older(j) => i = j
  <2> SUFFICES ASSUME NEW i \in J, NEW j \in J, Older(i) = Older(j) PROVE i = j
    OBVIOUS
  <2>1. /\ i.cell = j.cell /\ i.worker = j.worker /\ i.keys = j.keys
        /\ i.generation = j.generation /\ i.targetGen = j.targetGen
        /\ i.target = j.target /\ i.age + 1 = j.age + 1
    BY OlderCarries
  <2>2. i \in Jobs /\ j \in Jobs /\ i.age \in Int /\ j.age \in Int
    BY Distinct DEF Jobs
  <2>3. i.age = j.age
    BY <2>1, <2>2
  <2>4. QED
    BY <2>1, <2>2, <2>3 DEF Jobs
<1>2. f \in [J -> J] /\ \A i, j \in J : f[i] = f[j] => i = j
  BY <1>1
<1>3. f \in Injection(J, J)
  BY <1>2 DEF Injection, IsInjective
<1>4. f \in Surjection(J, J)
  BY <1>3, FS_Injection
<1>5. \A j \in J : \E i \in J : j = Older(i)
  BY <1>4 DEF Surjection
<1>6. QED
  BY <1>5

(* An answer takes the place of an older one or of none, never of a        *)
(* younger one.                                                            *)
THEOREM YoungerAnswersStay == SchedulerSpec => YoungerStays
<1>1. ASSUME SchedulerInit PROVE AnswersAreNewer
  BY <1>1 DEF SchedulerInit, AnswersAreNewer, Known
<1>2. ASSUME SchedulerInv, AnswersAreNewer, CapacityInv, [SchedulerNext]_schedulerVars
      PROVE  [\A c \in Cells : \A k \in Known(c) \intersect Known(c)' :
                 inflight' # inflight /\ inflight' \subseteq inflight
                    => observation'[c][k].age <= observation[c][k].age]_schedulerVars
  <2> SUFFICES ASSUME NEW c \in Cells, NEW k \in Known(c) \intersect Known(c)',
                      inflight' # inflight, inflight' \subseteq inflight,
                      SchedulerNext
               PROVE  observation'[c][k].age <= observation[c][k].age
    BY <1>2 DEF schedulerVars
  <2>1. ASSUME NEW j \in inflight, NEW answered \in BOOLEAN, Complete(j, answered)
        PROVE  observation'[c][k].age <= observation[c][k].age
    <3>0. j \in Jobs /\ j.cell \in Cells /\ k \in Components
          /\ observation[c][k].age \in 0..Ttl
      BY <1>2 DEF SchedulerInv, SchedulerTypeOK, Jobs, Known, Observations
    <3>1. CASE c = j.cell /\ k \in CurrentTargets(j)
      <4>1. j \in Carriers(c, k)
        BY <3>1 DEF Carriers
      <4>2. j.age <= observation[c][k].age
        BY <1>2, <4>1 DEF AnswersAreNewer
      <4>3. observation'[c][k] = [worker |-> j.worker, target |-> j.target[k], age |-> j.age]
        BY <1>2, <2>1, <3>0, <3>1
           DEF SchedulerInv, SchedulerTypeOK, Complete, Set, Known
      <4>4. QED
        BY <4>2, <4>3
    <3>2. CASE ~(c = j.cell /\ k \in CurrentTargets(j))
      <4>1. observation'[c][k] = observation[c][k]
        BY <1>2, <2>1, <3>0, <3>2 DEF SchedulerInv, SchedulerTypeOK, Complete, Set
      <4>2. QED
        BY <3>0, <4>1, Distinct
    <3>3. QED
      BY <3>1, <3>2
  <2>2. ASSUME Tick PROVE FALSE
    <3>1. inflight' = {Older(j) : j \in inflight} /\ inflight \subseteq Jobs
      BY <1>2, <2>2 DEF Tick, Older, SchedulerInv, SchedulerTypeOK
    <3>2. IsFiniteSet(inflight)
      BY <1>2 DEF CapacityInv
    <3>3. QED
      BY <3>1, <3>2, OlderAgain
  <2>3. ASSUME Dispatch PROVE FALSE
    BY <2>3 DEF Dispatch
  <2>4. ASSUME NEW d \in Cells, NEW w \in Workers, NEW T \in Eligible[d], Register(d, w, T)
        PROVE  FALSE
    BY <2>4 DEF Register
  <2>5. ASSUME NEW d \in Cells, Remove(d) PROVE FALSE
    BY <2>5 DEF Remove
  <2>6. QED
    BY <2>1, <2>2, <2>3, <2>4, <2>5 DEF SchedulerNext
<1>3. QED
  BY <1>1, <1>2, CapacityInvariant, NewerStep, SchedulerInvariant, PTL
     DEF SchedulerSpec, YoungerStays

-----------------------------------------------------------------------------
(* The order of turns.                                                     *)
(* Only a dispatch serves a cell: nothing else puts a new job of age zero  *)
(* in flight.                                                              *)
LEMMA OnlyDispatchServes ==
    ASSUME SchedulerTypeOK, NEW c \in Cells, Served(c), SchedulerNext
    PROVE  Dispatch
<1>1. PICK j \in inflight' : j \notin inflight /\ j.age = 0
  BY DEF Served
<1>2. ASSUME Tick PROVE FALSE
  <2>1. PICK i \in inflight : j = Older(i)
    BY <1>1, <1>2 DEF Tick, Older
  <2>2. i \in Jobs
    BY DEF SchedulerTypeOK
  <2>3. j.age = i.age + 1 /\ i.age \in Nat
    BY <2>1, <2>2, OlderCarries, Distinct DEF Jobs
  <2>4. QED
    BY <1>1, <2>3
<1>3. QED
  BY <1>1, <1>2 DEF SchedulerNext, Register, Remove, Complete

(* A cell that joins the round joins it behind everybody.                  *)
LEMMA BeforeRegister ==
    ASSUME SchedulerTypeOK, NEW x \in Cells, NEW w \in Workers, NEW T \in Eligible[x],
           Register(x, w, T), NEW c \in Cells, NEW d \in Cells, Before(d, c)
    PROVE  Before(d, c)'
<1>1. order \in Seq(Cells) /\ Len(order) \in Nat
  BY DEF SchedulerTypeOK
<1>2. /\ Len(order) <= Len(order') /\ Len(order') \in Nat
      /\ \A i \in 1..Len(order) : order'[i] = order[i]
  BY <1>1 DEF Register, Turns
<1>3. PICK h \in 1..Len(order), i \in 1..Len(order) :
        h < i /\ order[h] = d /\ order[i] = c
  BY DEF Before
<1>4. h \in 1..Len(order') /\ i \in 1..Len(order')
  BY <1>1, <1>2
<1>5. QED
  BY <1>2, <1>3, <1>4 DEF Before

(* A cell that leaves the round changes the order of no others.            *)
LEMMA BeforeRemove ==
    ASSUME SchedulerTypeOK, OneTurnEach, NEW x \in Cells, Remove(x),
           NEW c \in Cells \ {x}, NEW d \in Cells \ {x}, Before(d, c)
    PROVE  Before(d, c)'
<1>1. order \in Seq(Cells) /\ Len(order) \in Nat
  BY DEF SchedulerTypeOK
<1>2. Place(x) \in 1..Len(order) /\ order[Place(x)] = x
  BY DEF OneTurnEach, Place, Remove
<1> DEFINE p == Place(x)
<1>3. PICK h \in 1..Len(order), i \in 1..Len(order) :
        h < i /\ order[h] = d /\ order[i] = c
  BY DEF Before
<1>4. h # p /\ i # p
  BY <1>2, <1>3
<1>5. /\ Len(order') = Len(order) - 1
      /\ \A n \in 1..(Len(order) - 1) : order'[n] = IF n < p THEN order[n] ELSE order[n + 1]
  BY RemovedOrder
<1> DEFINE g(n) == IF n < p THEN n ELSE n - 1
<1> HIDE DEF p
<1>6. p \in 1..Len(order)
  BY <1>2 DEF p
<1>7. \A n \in 1..Len(order) : n # p => /\ g(n) \in 1..(Len(order) - 1)
                                        /\ order'[g(n)] = order[n]
  <2> SUFFICES ASSUME NEW n \in 1..Len(order), n # p
               PROVE  g(n) \in 1..(Len(order) - 1) /\ order'[g(n)] = order[n]
    OBVIOUS
  <2>1. CASE n < p
    BY <1>1, <1>5, <1>6, <2>1
  <2>2. CASE n > p
    <3>1. n - 1 \in 1..(Len(order) - 1) /\ ~(n - 1 < p) /\ (n - 1) + 1 = n /\ g(n) = n - 1
      BY <1>1, <1>6, <2>2
    <3>2. QED
      BY <1>5, <3>1
  <2>3. QED
    BY <1>1, <1>6, <2>1, <2>2
<1>8. g(h) < g(i)
  BY <1>1, <1>3, <1>4, <1>6
<1> HIDE DEF g
<1>9. QED
  BY <1>3, <1>4, <1>5, <1>7, <1>8 DEF Before

(* A job that is handed out is new: its targets waited, so no job in       *)
(* flight was going to report on them.                                     *)
LEMMA HandedOutIsNew ==
    ASSUME SchedulerInv, NEW c \in Cells, worker[c] # NoWorker,
           NEW S \in SUBSET Ripe(c), S # {}
    PROVE  JobOf(c, S) \notin inflight
<1>1. PICK k \in S : k \in queued[c] /\ k \in Components
  BY DEF Ripe, SchedulerInv, SchedulerTypeOK
<1>2. Carries(JobOf(c, S), c, k)
  BY <1>1 DEF Carries, JobOf
<1>3. target[c][k] # NoTarget
  BY <1>1 DEF SchedulerInv, SchedulerTypeOK
<1>4. Carriers(c, k) = {}
  BY <1>1, <1>3 DEF SchedulerInv, EveryTargetScheduled
<1>5. QED
  BY <1>2, <1>4, CarriersAre

(* A batch of a cell that has a turn is not empty.                         *)
LEMMA BatchNotEmpty ==
    ASSUME SchedulerTypeOK, NEW c \in Cells, HasTurn(c), NEW S, IsBatch(c, S)
    PROVE  S # {}
  BY FS_EmptySet, SchedulerAssumption DEF HasTurn, IsBatch

(* A dispatch passes over cells without a turn only, so a cell with a turn *)
(* that is not served stays before whom it preceded and before the served. *)
LEMMA BeforeDispatch ==
    ASSUME SchedulerInv, OneTurnEach, Dispatch,
           NEW c \in Cells, NEW d \in Cells, c # d,
           worker[c] # NoWorker, worker[d] # NoWorker, HasTurn(d), ~Served(d),
           Before(d, c) \/ Served(c)
    PROVE  Before(d, c)'
<1>1. order \in Seq(Cells) /\ Len(order) \in Nat /\ UNCHANGED worker
  BY DEF SchedulerInv, SchedulerTypeOK, Dispatch, cellVars
<1>2. PICK i \in 1..Len(order) :
         /\ HasTurn(order[i])
         /\ \A h \in 1..(i - 1) : ~HasTurn(order[h])
         /\ order' = Rotated(i)
         /\ \E S \in SUBSET Ripe(order[i]) :
              /\ IsBatch(order[i], S)
              /\ inflight' = inflight \union {JobOf(order[i], S)}
  BY DEF Dispatch
<1>3. PICK S \in SUBSET Ripe(order[i]) :
              /\ IsBatch(order[i], S)
              /\ inflight' = inflight \union {JobOf(order[i], S)}
  BY <1>2
<1> DEFINE n == Len(order)
<1>4. order[i] \in Cells
  BY <1>1
<1>5. Served(order[i])
  <2>1. S # {}
    BY <1>2, <1>3, <1>4, BatchNotEmpty DEF SchedulerInv
  <2>2. worker[order[i]] # NoWorker
    BY <1>4 DEF OneTurnEach
  <2>3. JobOf(order[i], S) \notin inflight
    BY <1>4, <2>1, <2>2, HandedOutIsNew
  <2>4. JobOf(order[i], S).cell = order[i] /\ JobOf(order[i], S).age = 0
    BY DEF JobOf
  <2>5. QED
    BY <1>3, <2>3, <2>4 DEF Served
<1>6. PICK p \in 1..n : order[p] = d
  BY DEF OneTurnEach
<1>7. PICK q \in 1..n : order[q] = c
  BY DEF OneTurnEach
<1>8. p > i
  <2>1. p # i
    BY <1>5, <1>6
  <2>2. ~(p \in 1..(i - 1))
    BY <1>2, <1>6
  <2>3. QED
    BY <1>1, <2>1, <2>2
<1>9. q = i \/ p < q
  <2>1. CASE Served(c)
    <3>1. c = order[i]
      BY <1>3, <2>1 DEF Served, JobOf
    <3>2. QED
      BY <1>7, <3>1 DEF OneTurnEach
  <2>2. CASE Before(d, c)
    <3>1. PICK h \in 1..n, k \in 1..n : h < k /\ order[h] = d /\ order[k] = c
      BY <2>2 DEF Before
    <3>2. h = p /\ k = q
      BY <1>6, <1>7, <3>1 DEF OneTurnEach
    <3>3. QED
      BY <3>1, <3>2
  <2>3. QED
    BY <2>1, <2>2
<1>10. /\ Len(order') = n
       /\ \A h \in 1..n : order'[h] = IF h + i <= n THEN order[h + i] ELSE order[h + i - n]
  BY <1>2, RotatedType DEF Rotated, SchedulerInv
<1>11. p - i \in 1..n /\ order'[p - i] = d
  <2>1. p - i \in 1..n /\ (p - i) + i = p /\ p <= n
    BY <1>1, <1>8
  <2>2. QED
    BY <1>6, <1>10, <2>1
<1>12. CASE q = i
  <2>1. n \in 1..n /\ ~(n + i <= n) /\ n + i - n = i
    BY <1>1
  <2>2. order'[n] = c
    BY <1>7, <1>10, <1>12, <2>1
  <2>3. p - i < n
    BY <1>1, <1>8
  <2>4. QED
    BY <1>10, <1>11, <2>1, <2>2, <2>3 DEF Before
<1>13. CASE p < q
  <2>1. q - i \in 1..n /\ (q - i) + i = q /\ q <= n /\ p - i < q - i
    BY <1>1, <1>8, <1>13
  <2>2. order'[q - i] = c
    BY <1>7, <1>10, <2>1
  <2>3. QED
    BY <1>10, <1>11, <2>1, <2>2 DEF Before
<1>14. QED
  BY <1>9, <1>12, <1>13

(* Cells that compete for slots take turns: after a cell was served, every *)
(* cell that could have been served stands before it, and until such a     *)
(* cell is served nobody gets past it, whoever is registered or removed.   *)
THEOREM TurnsAreTaken == SchedulerSpec => NobodyOvertaken
<1>1. ASSUME SchedulerInv, OneTurnEach, SchedulerNext,
             NEW c \in Cells, NEW d \in Cells, c # d,
             worker[d] # NoWorker, HasTurn(d), ~Served(d),
             worker'[c] # NoWorker, worker'[d] # NoWorker,
             Before(d, c) \/ Served(c)
      PROVE  Before(d, c)'
  <2>0. SchedulerTypeOK
    BY <1>1 DEF SchedulerInv
  <2>1. ASSUME Dispatch PROVE Before(d, c)'
    <3>1. worker[c] # NoWorker
      BY <1>1, <2>1 DEF Dispatch, cellVars
    <3>2. QED
      BY <1>1, <2>1, <3>1, BeforeDispatch
  <2>2. ASSUME ~Dispatch PROVE Before(d, c)
    BY <1>1, <2>0, <2>2, OnlyDispatchServes
  <2>3. ASSUME NEW x \in Cells, NEW w \in Workers, NEW T \in Eligible[x],
               Register(x, w, T), ~Dispatch
        PROVE  Before(d, c)'
    BY <2>0, <2>2, <2>3, BeforeRegister
  <2>4. ASSUME NEW x \in Cells, Remove(x), ~Dispatch PROVE Before(d, c)'
    <3>1. worker'[x] = NoWorker
      BY <2>0, <2>4 DEF Remove, Set, SchedulerTypeOK
    <3>2. c \in Cells \ {x} /\ d \in Cells \ {x}
      BY <1>1, <3>1
    <3>3. QED
      BY <1>1, <2>0, <2>2, <2>4, <3>2, BeforeRemove
  <2>5. ASSUME NEW j \in inflight, NEW answered \in BOOLEAN, Complete(j, answered), ~Dispatch
        PROVE  Before(d, c)'
    BY <2>2, <2>5 DEF Complete, Before
  <2>6. ASSUME Tick, ~Dispatch PROVE Before(d, c)'
    BY <2>2, <2>6 DEF Tick, Before
  <2>7. QED
    BY <1>1, <2>1, <2>3, <2>4, <2>5, <2>6 DEF SchedulerNext
<1>2. SchedulerInv /\ OneTurnEach /\ [SchedulerNext]_schedulerVars =>
        [\A c, d \in Cells :
         /\ c # d
         /\ worker[d] # NoWorker /\ HasTurn(d) /\ ~Served(d)
         /\ worker'[c] # NoWorker /\ worker'[d] # NoWorker
         /\ Before(d, c) \/ Served(c)
         => Before(d, c)']_schedulerVars
  BY <1>1
<1>3. QED
  BY <1>2, TurnsAreFair, SchedulerInvariant, PTL DEF SchedulerSpec, NobodyOvertaken
=============================================================================
