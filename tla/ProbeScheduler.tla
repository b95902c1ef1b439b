--------------------------- MODULE ProbeScheduler ---------------------------
(***************************************************************************)
(* The scheduler of protocol checks in the controller.                     *)
(*                                                                         *)
(* Every cell has a worker that checks batches of the cell's targets.  The *)
(* scheduler takes due targets in batches, one cell after the other, keeps *)
(* a bounded number of batches in flight, and caches what they observed.   *)
(* Registrations change the targets, or the worker, while batches are in   *)
(* flight; an answer may be late, malformed or missing.                    *)
(*                                                                         *)
(* Time passes in units of Tick; due times and ages are relative to now.   *)
(* Generations count registrations: the code draws them from the counter   *)
(* that also numbers the jobs, only their order matters.                   *)
(***************************************************************************)
EXTENDS Integers, Sequences, FiniteSets

CONSTANTS
    Cells,
    Components,
    Eligible,        \* sets of targets the controller may find for a cell
    Workers,         \* identities of a cell: its incarnation and its worker
    NoWorker,        \* the cell is not registered
    Runtimes,        \* what a target is: its probe and its runtime
    NoTarget,        \* the component is not a target
    MaxInflight,     \* MAX_INFLIGHT_BATCHES
    MaxPerWorker,    \* MAX_BATCHES_PER_WORKER
    BatchSize,       \* MAX_BATCH_TARGETS
    Interval,        \* time to the next check: CHECK_INTERVAL_MILLIS and jitter
    JobTimeout,      \* the transport gives a batch up after this time
    Ttl,             \* OBSERVATION_TTL_MILLIS
    MaxSequence      \* bound on the number of registrations

Targets == [Components -> Runtimes \union {NoTarget}]

ASSUME SchedulerAssumption ==
    /\ Eligible \in [Cells -> SUBSET Targets]
    /\ IsFiniteSet(Cells) /\ IsFiniteSet(Components)
    /\ NoWorker \notin Workers
    /\ NoTarget \notin Runtimes
    /\ {MaxInflight, MaxPerWorker, BatchSize, JobTimeout, Ttl, MaxSequence}
          \subseteq Nat \ {0}
    /\ Interval \in [Components -> Nat \ {0}]
    /\ JobTimeout <= Ttl

VARIABLES
    order,         \* cells in the order of their turns
    worker,        \* identity under which a cell is registered
    generation,    \* generation of the cell's registration
    target,        \* its targets
    targetGen,     \* and their generations
    queued,        \* targets in the heap of due times
    due,           \* time until a queued target is due
    observation,   \* the cached observation of every target, or Unknown
    inflight,      \* jobs handed out and not completed
    sequence       \* registrations so far

cellVars == <<worker, generation, target, targetGen>>
dueVars  == <<queued, due>>
schedulerVars ==
    <<order, cellVars, dueVars, observation, inflight, sequence>>

-----------------------------------------------------------------------------
\* An observation remembers whom and what the worker was asked to check.
Observations ==
    [worker : Workers \union {NoWorker}, target : Runtimes \union {NoTarget},
     age : 0..Ttl]

Unknown == [worker |-> NoWorker, target |-> NoTarget, age |-> 0]

Known(c) == {k \in Components : observation[c][k] # Unknown}

Jobs == [cell : Cells, worker : Workers \union {NoWorker}, generation : Nat,
         keys : SUBSET Components, targetGen : [Components -> Nat],
         target : Targets, age : 0..JobTimeout]

Set(f, c, v) == [f EXCEPT ![c] = v]

NoTargets == [k \in Components |-> NoTarget]

TargetsIn(T) == {k \in Components : T[k] # NoTarget}

SchedulerInit ==
    /\ order = << >>
    /\ worker = [c \in Cells |-> NoWorker]
    /\ generation = [c \in Cells |-> 0]
    /\ target = [c \in Cells |-> NoTargets]
    /\ targetGen = [c \in Cells |-> [k \in Components |-> 0]]
    /\ queued = [c \in Cells |-> {}]
    /\ due = [c \in Cells |-> [k \in Components |-> 0]]
    /\ observation = [c \in Cells |-> [k \in Components |-> Unknown]]
    /\ inflight = {}
    /\ sequence = 0

-----------------------------------------------------------------------------
(* register and remove.                                                    *)

\* The targets a registration changes; all of them under another identity.
Changed(c, w, T) ==
    IF worker[c] = w THEN {k \in Components : target[c][k] # T[k]}
    ELSE Components

Turns(c) == IF worker[c] = NoWorker THEN Append(order, c) ELSE order

\* The complete set of targets; a registration that changes nothing is none.
Register(c, w, T) ==
    /\ sequence < MaxSequence
    /\ worker[c] # w \/ target[c] # T
    /\ sequence' = sequence + 1
    /\ order' = Turns(c)
    /\ worker' = Set(worker, c, w)
    /\ generation' = IF worker[c] = w THEN generation
                     ELSE Set(generation, c, sequence + 1)
    /\ target' = Set(target, c, T)
    /\ targetGen' = Set(targetGen, c,
         [k \in Components |->
             IF k \notin Changed(c, w, T) THEN targetGen[c][k]
             ELSE IF T[k] # NoTarget THEN sequence + 1 ELSE 0])
    /\ queued' = Set(queued, c,
         (queued[c] \ Changed(c, w, T)) \union (Changed(c, w, T) \intersect TargetsIn(T)))
    /\ due' = Set(due, c,
         [k \in Components |-> IF k \in Changed(c, w, T) THEN 0 ELSE due[c][k]])
    /\ observation' = Set(observation, c,
         [k \in Components |-> IF k \in Changed(c, w, T) THEN Unknown
                               ELSE observation[c][k]])
    /\ UNCHANGED inflight

Place(c) == CHOOSE i \in 1..Len(order) : order[i] = c

Without(c) ==
    [h \in 1..(Len(order) - 1) |-> IF h < Place(c) THEN order[h] ELSE order[h + 1]]

\* Jobs of a removed cell keep their slots.
Remove(c) ==
    /\ worker[c] # NoWorker
    /\ order' = Without(c)
    /\ worker' = Set(worker, c, NoWorker)
    /\ generation' = Set(generation, c, 0)
    /\ target' = Set(target, c, NoTargets)
    /\ targetGen' = Set(targetGen, c, [k \in Components |-> 0])
    /\ queued' = Set(queued, c, {})
    /\ due' = Set(due, c, [k \in Components |-> 0])
    /\ observation' = Set(observation, c, [k \in Components |-> Unknown])
    /\ UNCHANGED <<inflight, sequence>>

-----------------------------------------------------------------------------
(* dispatch.                                                               *)

\* Faulty variant: only jobs of the present registration are counted.
PresentBatches(c) == {j \in inflight : j.cell = c /\ j.generation = generation[c]}
Batches(c) == {j \in inflight : j.cell = c}

Ripe(c) == {k \in queued[c] : due[c][k] <= 0}

HasTurn(c) == Cardinality(Batches(c)) < MaxPerWorker /\ Ripe(c) # {}

\* The heap gives the targets that are due longest.
IsBatch(c, S) ==
    /\ S \subseteq Ripe(c)
    /\ Cardinality(S) = BatchSize \/ (S = Ripe(c) /\ Cardinality(S) < BatchSize)
    /\ \A k \in S, l \in Ripe(c) \ S : due[c][k] <= due[c][l]

\* Faulty variant: the cell keeps its place.
InPlace(i) == order
\* The cell, and those that were passed over, go to the back.
Rotated(i) ==
    [h \in 1..Len(order) |-> IF h + i <= Len(order) THEN order[h + i]
                            ELSE order[h + i - Len(order)]]

JobOf(c, S) ==
    [cell |-> c, worker |-> worker[c], generation |-> generation[c], keys |-> S,
     targetGen |-> targetGen[c], target |-> target[c], age |-> 0]

CanDispatch ==
    /\ Cardinality(inflight) < MaxInflight
    /\ \E i \in 1..Len(order) : HasTurn(order[i])

Dispatch ==
    /\ Cardinality(inflight) < MaxInflight
    /\ \E i \in 1..Len(order) :
         /\ HasTurn(order[i])
         /\ \A h \in 1..(i - 1) : ~HasTurn(order[h])
         /\ order' = Rotated(i)
         /\ \E S \in SUBSET Ripe(order[i]) :
              /\ IsBatch(order[i], S)
              /\ inflight' = inflight \union {JobOf(order[i], S)}
              /\ queued' = Set(queued, order[i], queued[order[i]] \ S)
              /\ due' = Set(due, order[i],
                   [k \in Components |-> IF k \in S THEN 0 ELSE due[order[i]][k]])
    /\ UNCHANGED <<cellVars, observation, sequence>>

-----------------------------------------------------------------------------
(* complete.                                                               *)

\* Faulty variant: an answer counts for the targets that still exist.
NamedTargets(j) ==
    {k \in j.keys : target[j.cell][k] # NoTarget /\ generation[j.cell] = j.generation}
\* Targets of the job that did not change since it was handed out.
CurrentTargets(j) ==
    {k \in j.keys : /\ worker[j.cell] # NoWorker
                    /\ generation[j.cell] = j.generation
                    /\ targetGen[j.cell][k] = j.targetGen[k]}

\* Faulty variant: only an answer brings the next check.
NextCheckIfAnswered(j, answered) == IF answered THEN CurrentTargets(j) ELSE {}
NextCheck(j, answered) == CurrentTargets(j)

\* A valid answer is cached; a failed, malformed or cancelled batch leaves
\* its targets unknown.
Complete(j, answered) ==
    /\ inflight' = inflight \ {j}
    /\ queued' = Set(queued, j.cell, queued[j.cell] \union NextCheck(j, answered))
    /\ due' = Set(due, j.cell,
         [k \in Components |->
             IF k \in NextCheck(j, answered) THEN Interval[k] ELSE due[j.cell][k]])
    /\ observation' = Set(observation, j.cell,
         [k \in Components |->
             IF k \notin CurrentTargets(j) THEN observation[j.cell][k]
             ELSE IF answered
             THEN [worker |-> j.worker, target |-> j.target[k], age |-> j.age]
             ELSE Unknown])
    /\ UNCHANGED <<order, cellVars, sequence>>

-----------------------------------------------------------------------------
\* The loop dispatches what it can four times a second, and no batch
\* outlives its timeout.
Tick ==
    /\ ~CanDispatch
    /\ \A j \in inflight : j.age < JobTimeout
    /\ due' = [c \in Cells |-> [k \in Components |-> IF k \in queued[c] THEN due[c][k] - 1
                                                     ELSE due[c][k]]]
    /\ observation' =
         [c \in Cells |-> [k \in Components |->
             IF k \in Known(c) /\ observation[c][k].age < Ttl
             THEN [observation[c][k] EXCEPT !.age = @ + 1]
             ELSE observation[c][k]]]
    /\ inflight' = {[j EXCEPT !.age = @ + 1] : j \in inflight}
    /\ UNCHANGED <<order, cellVars, queued, sequence>>

SchedulerNext ==
    \/ \E c \in Cells, w \in Workers : \E T \in Eligible[c] : Register(c, w, T)
    \/ \E c \in Cells : Remove(c)
    \/ Dispatch
    \/ \E j \in inflight, answered \in BOOLEAN : Complete(j, answered)
    \/ Tick

SchedulerSpec == SchedulerInit /\ [][SchedulerNext]_schedulerVars

-----------------------------------------------------------------------------
(* Properties.                                                             *)

\* The scheduler's tables keep their shape: only targets wait, only
\* generations that were given out are used.
SchedulerTypeOK ==
    /\ order \in Seq(Cells)
    /\ worker \in [Cells -> Workers \union {NoWorker}]
    /\ generation \in [Cells -> Nat]
    /\ target \in [Cells -> Targets]
    /\ targetGen \in [Cells -> [Components -> Nat]]
    /\ queued \in [Cells -> SUBSET Components]
    /\ due \in [Cells -> [Components -> Int]]
    /\ observation \in [Cells -> [Components -> Observations]]
    /\ inflight \subseteq Jobs
    /\ sequence \in Nat
    /\ \A c \in Cells : queued[c] \subseteq {k \in Components : target[c][k] # NoTarget}
    /\ \A c \in Cells, k \in Components :
         /\ targetGen[c][k] <= sequence
         /\ targetGen[c][k] = 0 <=> target[c][k] = NoTarget

\* A registered cell has exactly one place in the round.
OneTurnEach ==
    /\ \A c \in Cells : worker[c] # NoWorker <=> \E i \in 1..Len(order) : order[i] = c
    /\ \A h, i \in 1..Len(order) : order[h] = order[i] => h = i

\* The jobs that will report on a target as it is now.
Carriers(c, k) ==
    {j \in inflight : j.cell = c /\ k \in CurrentTargets(j)}

\* No target is lost and none is checked twice at a time: it waits for its
\* next check, or one job in flight will bring it back.
EveryTargetScheduled ==
    \A c \in Cells : \A k \in Components :
        IF target[c][k] = NoTarget THEN k \notin queued[c] /\ Carriers(c, k) = {}
        ELSE IF k \in queued[c] THEN Carriers(c, k) = {}
        ELSE /\ Carriers(c, k) # {}
             /\ \A i, j \in Carriers(c, k) : i = j

\* What is cached for a target was observed by its present worker, of its
\* present runtime, whatever was registered while the answer was on its way.
LabelsAreTrue ==
    \A c \in Cells : \A k \in Known(c) :
        /\ target[c][k] # NoTarget
        /\ observation[c][k].worker = worker[c]
        /\ observation[c][k].target = target[c][k]

\* No worker has more batches than it accepts, not even after its cell was
\* removed and registered again, and all of them together stay in bounds.
CapacityHolds ==
    /\ Cardinality(inflight) <= MaxInflight
    /\ \A c \in Cells : Cardinality({j \in inflight : j.cell = c}) <= MaxPerWorker

\* A job for the cell was handed out.
Served(c) == \E j \in inflight' \ inflight : j.cell = c /\ j.age = 0

Before(d, c) ==
    \E h, i \in 1..Len(order) : h < i /\ order[h] = d /\ order[i] = c

\* Cells that compete for slots take turns: after a cell was served, every
\* cell that could have been served stands before it, and until such a cell is
\* served nobody gets past it, whoever is registered or removed meanwhile.
NobodyOvertaken ==
    [][\A c, d \in Cells :
         /\ c # d
         /\ worker[d] # NoWorker /\ HasTurn(d) /\ ~Served(d)
         /\ worker'[c] # NoWorker /\ worker'[d] # NoWorker
         /\ Before(d, c) \/ Served(c)
         => Before(d, c)']_schedulerVars

\* An answer never replaces a younger one.
YoungerStays ==
    [][\A c \in Cells : \A k \in Known(c) \intersect Known(c)' :
        inflight' # inflight /\ inflight' \subseteq inflight
            => observation'[c][k].age <= observation[c][k].age]_schedulerVars
=============================================================================
