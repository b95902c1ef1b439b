--------------------------- MODULE LifecycleProofs ---------------------------
(***************************************************************************)
(* Theorems about CellLifecycle, for every set of tasks, every assignment  *)
(* of contexts and every bound.  The holder of the lock works on the       *)
(* incarnation the name refers to, in the context its records are bound to;*)
(* what it has verified cannot change before it purges, because only the   *)
(* holder creates and only an existing resource creates a namespace.       *)
(***************************************************************************)
EXTENDS CellLifecycle, TLAPS

-----------------------------------------------------------------------------
(* The inductive invariant.                                                *)

\* The journal by itself: a name without an instance has no records, and no
\* number is in use that was not given out.
JournalInv ==
    /\ row.live => handle # 0
    /\ ~row.live => row = NoRow
    /\ handle <= incarnations
    /\ \A p \in Previews : admitted[p] <= incarnations
    /\ row.source # Unbound => row.cluster <= cluster[row.source]

Compares == {"compare", "verify", "purge"}
Creates  == {"get", "create", "uid"}

\* What the holder of the lock may rely on.
HolderOK(t) ==
    /\ \/ tasks[t].inc = handle
       \/ handle = 0 /\ tasks[t].pc \in {"resolve", "reserve"}
    /\ tasks[t].pc \in Creates \union {"materialize", "identify", "bind"} => handle # 0
    /\ tasks[t].pc \in Creates \union Compares
                       \union {"identify", "bind", "validate", "close", "delete"}
       => row.live
    /\ tasks[t].pc \in Creates => row.source = Home[t]
    /\ tasks[t].pc \in Creates \union Compares \union {"bind"}
       => tasks[t].cluster <= cluster[Home[t]]
    /\ tasks[t].pc \in Compares
       => /\ SameContext(t)
          /\ row.source # Unbound => row.cluster <= tasks[t].cluster
    /\ tasks[t].pc \in {"verify", "purge"} => ~IsIntent(t)

HolderInv == \A t \in Tasks : lock = t => HolderOK(t)

BooksInv == JournalInv /\ HolderInv

\* Nothing is in any cluster but what belongs to the name's incarnation, where
\* its records are bound; and what was verified to be gone stays gone.
Owned(x) == row.live /\ x.inc = handle /\ x.source = row.source

ClusterInv ==
    /\ late = {}
    /\ \A c \in cells : Owned(c)
    /\ \A n \in namespaces : Owned(n)
    /\ \A t \in Tasks :
         tasks[t].pc = "purge" => Absent(Home[t], tasks[t].inc)

-----------------------------------------------------------------------------
(* Types.                                                                  *)

\* Every task works in a context, which is not the absence of one.
LEMMA Contexts ==
    \A t \in Tasks : Home[t] \in Sources /\ Home[t] # Unbound /\ t # Unbound
  BY LifecycleAssumption DEF Sources

LEMMA TypeInit == LifecycleInit => LifecycleTypeOK
  BY LifecycleAssumption DEF LifecycleInit, LifecycleTypeOK, NoRow, Idle, Pcs

\* A step of control keeps the shape of the tasks, and its task holds the lock
\* exactly while it is past the entry.
LEMMA GotoTyped ==
    ASSUME LifecycleTypeOK, NEW t \in Tasks, lock = t,
           NEW pc \in Pcs \ {"idle", "target"}, Goto(t, pc)
    PROVE  /\ lock' \in Tasks \union {Unbound}
           /\ tasks' \in [Tasks -> [pc : Pcs, inc : Nat, cluster : Nat]]
           /\ \A u \in Tasks : lock' = u <=> tasks'[u].pc \notin {"idle", "target"}
  BY DEF LifecycleTypeOK, Goto

LEMMA FinishTyped ==
    ASSUME LifecycleTypeOK, NEW t \in Tasks, lock = t, Finish(t)
    PROVE  /\ lock' \in Tasks \union {Unbound}
           /\ tasks' \in [Tasks -> [pc : Pcs, inc : Nat, cluster : Nat]]
           /\ \A u \in Tasks : lock' = u <=> tasks'[u].pc \notin {"idle", "target"}
  BY Contexts DEF LifecycleTypeOK, Finish, Idle, Pcs

LEMMA ReconciledTyped ==
    ASSUME LifecycleTypeOK, NEW t \in Tasks, lock = t, Reconciled(t)
    PROVE  /\ lock' \in Tasks \union {Unbound}
           /\ tasks' \in [Tasks -> [pc : Pcs, inc : Nat, cluster : Nat]]
           /\ \A u \in Tasks : lock' = u <=> tasks'[u].pc \notin {"idle", "target"}
  BY GotoTyped, FinishTyped DEF Reconciled, Pcs

\* Only the holder of the lock takes a step.
LEMMA Holds ==
    ASSUME LifecycleTypeOK, NEW t \in Tasks, Step(t)
    PROVE  lock = t
  BY DEF LifecycleTypeOK, Step, At, PurgeHandle, Identify, Compare, VerifyAbsent, Purge,
         Resolve, Reserve, Materialize, IdentifyCluster, BindCluster, GetResource,
         CreateResource, BindResource, Validate, BeginClose, RequestDeletion

LEMMA BindTyped ==
    ASSUME LifecycleTypeOK, NEW s \in Sources, NEW c \in Nat, NEW uid \in Nat,
           Bind(s, c, uid)
    PROVE  row' \in [live : BOOLEAN, closing : BOOLEAN,
                     source : Sources \union {Unbound}, cluster : Nat, uid : Nat]
  BY DEF LifecycleTypeOK, Bind

LEMMA StepTyped ==
    ASSUME LifecycleTypeOK, NEW t \in Tasks, Step(t)
    PROVE  LifecycleTypeOK'
<1>1. lock = t /\ Home[t] \in Sources
  BY Holds, Contexts
<1>2. ASSUME PurgeHandle(t) PROVE LifecycleTypeOK'
  BY <1>1, <1>2, ReconciledTyped DEF PurgeHandle, NoCluster, clusterVars, LifecycleTypeOK
<1>3. ASSUME Identify(t) PROVE LifecycleTypeOK'
  <2>1. CASE SameContext(t)
    BY <1>1, <1>3, <2>1 DEF Identify, LifecycleTypeOK, NoJournal, journalVars,
       NoCluster, clusterVars, Pcs
  <2>2. CASE ~SameContext(t)
    BY <1>1, <1>3, <2>2, FinishTyped DEF Identify, LifecycleTypeOK, NoJournal,
       journalVars, NoCluster, clusterVars
  <2>3. QED
    BY <2>1, <2>2
<1>4. ASSUME Compare(t) PROVE LifecycleTypeOK'
  <2>1. ASSUME NEW c \in Resources(Home[t], tasks[t].inc),
               Bind(Home[t], tasks[t].cluster, c.uid), Reconciled(t),
               UNCHANGED <<handle, admitted, incarnations, late, events>>
        PROVE  LifecycleTypeOK'
    <3>1. tasks[t].cluster \in Nat /\ c.uid \in Nat
      BY DEF LifecycleTypeOK, Resources
    <3>2. QED
      BY <1>1, <1>4, <2>1, <3>1, BindTyped, ReconciledTyped
         DEF Compare, NoCluster, clusterVars, LifecycleTypeOK
  <2>2. ASSUME UNCHANGED row, Finish(t),
               UNCHANGED <<handle, admitted, incarnations, late, events>>
        PROVE  LifecycleTypeOK'
    BY <1>1, <1>4, <2>2, FinishTyped DEF Compare, NoCluster, clusterVars,
       LifecycleTypeOK
  <2>3. ASSUME Reconciled(t) \/ Goto(t, "verify"), NoJournal PROVE LifecycleTypeOK'
    BY <1>1, <1>4, <2>3, ReconciledTyped, GotoTyped DEF Compare, NoCluster, clusterVars,
       NoJournal, journalVars, LifecycleTypeOK, Pcs
  <2>4. QED
    BY <1>4, <2>1, <2>2, <2>3 DEF Compare
<1>5. ASSUME VerifyAbsent(t) PROVE LifecycleTypeOK'
  BY <1>1, <1>5, GotoTyped, FinishTyped DEF VerifyAbsent, NoJournal, journalVars,
     NoCluster, clusterVars, LifecycleTypeOK, Pcs
<1>6. ASSUME Purge(t) PROVE LifecycleTypeOK'
  <2>1. row' \in [live : BOOLEAN, closing : BOOLEAN, source : Sources \union {Unbound},
                  cluster : Nat, uid : Nat]
    <3>1. NoRow \in [live : BOOLEAN, closing : BOOLEAN,
                    source : Sources \union {Unbound}, cluster : Nat, uid : Nat]
      BY DEF NoRow
    <3>2. QED
      BY <1>6, <3>1 DEF Purge, LifecycleTypeOK
  <2>2. handle' \in Nat
    BY <1>6 DEF Purge, LifecycleTypeOK
  <2>3. QED
    BY <1>1, <1>6, <2>1, <2>2, ReconciledTyped, FinishTyped DEF Purge, NoCluster,
       clusterVars, LifecycleTypeOK
<1>7. ASSUME Resolve(t) PROVE LifecycleTypeOK'
  BY <1>1, <1>7, GotoTyped, FinishTyped DEF Resolve, NoJournal, journalVars,
     NoCluster, clusterVars, LifecycleTypeOK, Pcs
<1>8. ASSUME Reserve(t) PROVE LifecycleTypeOK'
  <2>1. CASE Admits(t)
    BY <1>1, <1>8, <2>1 DEF Reserve, NewIncarnation, NoCluster, clusterVars,
       LifecycleTypeOK, Pcs
  <2>2. CASE ~Admits(t)
    BY <1>1, <1>8, <2>2, GotoTyped, FinishTyped DEF Reserve, NoJournal, journalVars,
       NoCluster, clusterVars, LifecycleTypeOK, Pcs
  <2>3. QED
    BY <2>1, <2>2
<1>9. ASSUME Materialize(t) PROVE LifecycleTypeOK'
  <2>1. row' \in [live : BOOLEAN, closing : BOOLEAN, source : Sources \union {Unbound},
                  cluster : Nat, uid : Nat]
    BY <1>9 DEF Materialize, LifecycleTypeOK
  <2>2. Goto(t, "identify") \/ Finish(t)
    BY <1>9 DEF Materialize
  <2>3. QED
    BY <1>1, <1>9, <2>1, <2>2, GotoTyped, FinishTyped DEF Materialize, NoCluster,
       clusterVars, LifecycleTypeOK, Pcs
<1>10. ASSUME IdentifyCluster(t) PROVE LifecycleTypeOK'
  <2>1. /\ tasks' = [tasks EXCEPT ![t].pc = "bind", ![t].cluster = cluster[Home[t]]]
        /\ UNCHANGED <<lock, journalVars, late, events, clusterVars>>
    BY <1>10 DEF IdentifyCluster, NoJournal, NoCluster
  <2>2. cluster[Home[t]] \in Nat /\ "bind" \in Pcs
    BY <1>1 DEF LifecycleTypeOK, Pcs
  <2>3. tasks' \in [Tasks -> [pc : Pcs, inc : Nat, cluster : Nat]]
    BY <2>1, <2>2 DEF LifecycleTypeOK
  <2>4. \A u \in Tasks : lock' = u <=> tasks'[u].pc \notin {"idle", "target"}
    BY <1>1, <2>1 DEF LifecycleTypeOK
  <2>5. QED
    BY <2>1, <2>3, <2>4 DEF LifecycleTypeOK, journalVars, clusterVars
<1>11. ASSUME BindCluster(t) PROVE LifecycleTypeOK'
  <2>1. tasks[t].cluster \in Nat
    BY DEF LifecycleTypeOK
  <2>2. row' \in [live : BOOLEAN, closing : BOOLEAN, source : Sources \union {Unbound},
                  cluster : Nat, uid : Nat]
    BY <1>1, <1>11, <2>1, BindTyped DEF BindCluster, LifecycleTypeOK
  <2>3. QED
    BY <1>1, <1>11, <2>2, GotoTyped, FinishTyped DEF BindCluster, NoCluster, clusterVars,
       LifecycleTypeOK, Pcs
<1>12. ASSUME GetResource(t) PROVE LifecycleTypeOK'
  BY <1>1, <1>12, GotoTyped, FinishTyped DEF GetResource, NoJournal, journalVars,
     NoCluster, clusterVars, LifecycleTypeOK, Pcs
<1>13. ASSUME CreateResource(t) PROVE LifecycleTypeOK'
  <2>1. CASE Resources(Home[t], tasks[t].inc) = {}
    <3>1. tasks[t].inc \in Nat
      BY DEF LifecycleTypeOK
    <3>2. /\ created' \in Nat
          /\ cells' \subseteq [source : Sources, inc : Nat, uid : Nat,
                               phase : {"new", "open", "deleting", "cleanup"}]
      BY <1>1, <1>13, <2>1, <3>1 DEF CreateResource, NewResource, LifecycleTypeOK
    <3>3. QED
      BY <1>1, <1>13, <2>1, <3>2, GotoTyped DEF CreateResource, NewResource, NoJournal,
         journalVars, LifecycleTypeOK, Pcs
  <2>2. CASE Resources(Home[t], tasks[t].inc) # {}
    BY <1>1, <1>13, <2>2, FinishTyped DEF CreateResource, NoJournal, journalVars,
       NoCluster, clusterVars, LifecycleTypeOK
  <2>3. QED
    BY <2>1, <2>2
<1>14. ASSUME BindResource(t) PROVE LifecycleTypeOK'
  <2>1. row' \in [live : BOOLEAN, closing : BOOLEAN, source : Sources \union {Unbound},
                  cluster : Nat, uid : Nat]
    <3>1. ASSUME NEW c \in Resources(Home[t], tasks[t].inc),
                 Bind(Home[t], tasks[t].cluster, c.uid)
          PROVE  row' \in [live : BOOLEAN, closing : BOOLEAN,
                           source : Sources \union {Unbound}, cluster : Nat, uid : Nat]
      <4>1. tasks[t].cluster \in Nat /\ c.uid \in Nat
        BY DEF LifecycleTypeOK, Resources
      <4>2. QED
        BY <1>1, <3>1, <4>1, BindTyped
    <3>2. QED
      BY <1>14, <3>1 DEF BindResource, LifecycleTypeOK
  <2>2. QED
    BY <1>1, <1>14, <2>1, FinishTyped DEF BindResource, NoCluster, clusterVars,
       LifecycleTypeOK
<1>15. ASSUME Validate(t) PROVE LifecycleTypeOK'
  BY <1>1, <1>15, GotoTyped, FinishTyped DEF Validate, NoJournal, journalVars,
     NoCluster, clusterVars, LifecycleTypeOK, Pcs
<1>16. ASSUME BeginClose(t) PROVE LifecycleTypeOK'
  <2>1. row' \in [live : BOOLEAN, closing : BOOLEAN, source : Sources \union {Unbound},
                  cluster : Nat, uid : Nat]
    BY <1>16 DEF BeginClose, LifecycleTypeOK
  <2>2. QED
    BY <1>1, <1>16, <2>1, GotoTyped DEF BeginClose, NoCluster, clusterVars,
       LifecycleTypeOK, Pcs
<1>17. ASSUME RequestDeletion(t) PROVE LifecycleTypeOK'
  <2>1. ASSUME NEW c \in Resources(Home[t], tasks[t].inc), Delete(c),
               UNCHANGED <<namespaces, cluster, created>>, Finish(t)
        PROVE  LifecycleTypeOK'
    <3>1. cells' \subseteq [source : Sources, inc : Nat, uid : Nat,
                            phase : {"new", "open", "deleting", "cleanup"}]
      BY <2>1 DEF Delete, Resources, LifecycleTypeOK
    <3>2. QED
      BY <1>1, <1>17, <2>1, <3>1, FinishTyped DEF RequestDeletion, NoJournal,
         journalVars, LifecycleTypeOK
  <2>2. ASSUME Finish(t) \/ Goto(t, "reconcile"), NoCluster PROVE LifecycleTypeOK'
    BY <1>1, <1>17, <2>2, GotoTyped, FinishTyped DEF RequestDeletion, NoJournal,
       journalVars, NoCluster, clusterVars, LifecycleTypeOK, Pcs
  <2>3. QED
    BY <1>17, <2>1, <2>2 DEF RequestDeletion
<1>18. QED
  BY <1>2, <1>3, <1>4, <1>5, <1>6, <1>7, <1>8, <1>9, <1>10, <1>11, <1>12, <1>13, <1>14,
     <1>15, <1>16, <1>17 DEF Step

LEMMA EnvironmentTyped ==
    ASSUME LifecycleTypeOK,
           \/ Adopt \/ CreateNamespace \/ BeginCleanup \/ DeleteNamespace
           \/ RemoveFinalizer \/ Terminate \/ DeleteOutside \/ Land
           \/ ReplaceCluster \/ ForceRemove
    PROVE  LifecycleTypeOK'
<1>1. ASSUME UNCHANGED <<journalVars, lock, tasks, created, cluster>>,
             late' \subseteq late, events' \in Nat,
             cells' \subseteq [source : Sources, inc : Nat, uid : Nat,
                               phase : {"new", "open", "deleting", "cleanup"}],
             namespaces' \subseteq [source : Sources, inc : Nat,
                                    phase : {"active", "terminating"}]
      PROVE  LifecycleTypeOK'
  BY <1>1 DEF LifecycleTypeOK, journalVars
<1>2. ASSUME Adopt PROVE LifecycleTypeOK'
  BY <1>1, <1>2 DEF Adopt, NoTask, NoJournal, journalVars, LifecycleTypeOK
<1>3. ASSUME CreateNamespace PROVE LifecycleTypeOK'
  BY <1>1, <1>3 DEF CreateNamespace, NoTask, NoJournal, journalVars, LifecycleTypeOK
<1>4. ASSUME BeginCleanup PROVE LifecycleTypeOK'
  BY <1>1, <1>4 DEF BeginCleanup, NoTask, NoJournal, journalVars, LifecycleTypeOK
<1>5. ASSUME DeleteNamespace PROVE LifecycleTypeOK'
  BY <1>1, <1>5 DEF DeleteNamespace, NoTask, NoJournal, journalVars, LifecycleTypeOK
<1>6. ASSUME RemoveFinalizer PROVE LifecycleTypeOK'
  BY <1>1, <1>6 DEF RemoveFinalizer, NoTask, NoJournal, journalVars, LifecycleTypeOK
<1>7. ASSUME Terminate PROVE LifecycleTypeOK'
  BY <1>1, <1>7 DEF Terminate, NoTask, NoJournal, journalVars, LifecycleTypeOK
<1>8. ASSUME DeleteOutside PROVE LifecycleTypeOK'
  BY <1>1, <1>8 DEF DeleteOutside, Delete, NoTask, NoJournal, journalVars,
     LifecycleTypeOK
<1>9. ASSUME Land PROVE LifecycleTypeOK'
  <2>1. PICK r \in late :
          /\ late' = late \ {r}
          /\ IF Resources(r.source, r.inc) = {} THEN NewResource(r.source, r.inc)
             ELSE NoCluster
    BY <1>9 DEF Land
  <2>2. r \in [source : Sources, inc : Nat]
    BY <2>1 DEF LifecycleTypeOK
  <2>3. /\ created' \in Nat
        /\ cells' \subseteq [source : Sources, inc : Nat, uid : Nat,
                             phase : {"new", "open", "deleting", "cleanup"}]
        /\ UNCHANGED <<namespaces, cluster>>
    BY <2>1, <2>2 DEF NewResource, NoCluster, clusterVars, LifecycleTypeOK
  <2>4. QED
    BY <1>9, <2>1, <2>3 DEF Land, NoTask, journalVars, LifecycleTypeOK
<1>10. ASSUME ReplaceCluster PROVE LifecycleTypeOK'
  BY <1>10 DEF ReplaceCluster, Occurs, NoTask, journalVars, LifecycleTypeOK
<1>11. ASSUME ForceRemove PROVE LifecycleTypeOK'
  <2>1. /\ cells' \subseteq cells
        /\ events' \in Nat
    BY <1>11 DEF ForceRemove, Occurs, LifecycleTypeOK
  <2>2. QED
    BY <1>1, <1>11, <2>1 DEF ForceRemove, NoTask, LifecycleTypeOK
<1>12. QED
  BY <1>2, <1>3, <1>4, <1>5, <1>6, <1>7, <1>8, <1>9, <1>10, <1>11

LEMMA TypeKept ==
    ASSUME LifecycleTypeOK, [LifecycleNext]_lifecycleVars
    PROVE  LifecycleTypeOK'
<1>1. ASSUME NEW t \in Tasks, Target(t) PROVE LifecycleTypeOK'
  BY <1>1, Contexts DEF Target, At, NoJournal, journalVars, NoCluster, clusterVars,
     LifecycleTypeOK, Idle, Pcs
<1>2. ASSUME NEW t \in Tasks, Acquire(t) PROVE LifecycleTypeOK'
  <2>1. tasks[t].pc \in {"idle", "target"} /\ lock = Unbound
    BY <1>2 DEF Acquire, At, LockFree
  <2>2. CASE UNCHANGED lock /\ tasks' = [tasks EXCEPT ![t] = Idle]
    BY <1>2, <2>1, <2>2, Contexts DEF Acquire, NoJournal, journalVars, NoCluster,
       clusterVars, LifecycleTypeOK, Idle, Pcs
  <2>3. CASE /\ lock' = t
             /\ tasks' = [tasks EXCEPT ![t] = [pc |-> EntryPoint(t), inc |-> handle,
                                               cluster |-> 0]]
    <3>1. EntryPoint(t) \in Pcs \ {"idle", "target"}
      BY DEF EntryPoint, Pcs
    <3>2. QED
      BY <1>2, <2>1, <2>3, <3>1, Contexts DEF Acquire, NoJournal, journalVars,
         NoCluster, clusterVars, LifecycleTypeOK
  <2>4. QED
    BY <1>2, <2>2, <2>3 DEF Acquire
<1>3. ASSUME NEW t \in Tasks, Crash(t) PROVE LifecycleTypeOK'
  <2>1. late' \subseteq [source : Sources, inc : Nat]
    BY <1>3, Contexts DEF Crash, LifecycleTypeOK
  <2>2. events' \in Nat
    BY <1>3 DEF Crash, Occurs, LifecycleTypeOK
  <2>3. QED
    BY <1>3, <2>1, <2>2, Contexts DEF Crash, journalVars, NoCluster, clusterVars,
       LifecycleTypeOK, Idle, Pcs
<1>4. CASE UNCHANGED lifecycleVars
  BY <1>4 DEF lifecycleVars, journalVars, clusterVars, LifecycleTypeOK
<1>5. QED
  BY <1>1, <1>2, <1>3, <1>4, StepTyped, EnvironmentTyped DEF LifecycleNext

(* The journal, the tasks and the clusters keep their types, and the lock  *)
(* has one holder, whichever process dies.                                 *)
THEOREM LifecycleTyped == LifecycleSpec => []LifecycleTypeOK
  BY TypeInit, TypeKept, PTL DEF LifecycleSpec

-----------------------------------------------------------------------------
(* The journal and the holder of the lock.                                 *)

LEMMA BooksInit == LifecycleInit => BooksInv
  BY Contexts DEF LifecycleInit, BooksInv, JournalInv, HolderInv, NoRow

LEMMA JournalStays ==
    ASSUME JournalInv, UNCHANGED <<journalVars, cluster>>
    PROVE  JournalInv'
  BY DEF JournalInv, journalVars

\* A task that goes on with the journal as it was.
LEMMA GoesOn ==
    ASSUME LifecycleTypeOK, BooksInv, NEW t \in Tasks, lock = t, NEW pc \in Pcs,
           Goto(t, pc), UNCHANGED <<journalVars, cluster>>,
           \/ tasks[t].inc = handle
           \/ handle = 0 /\ pc \in {"resolve", "reserve"},
           pc \in Creates \union {"materialize", "identify", "bind"} => handle # 0,
           pc \in Creates \union Compares
                  \union {"identify", "bind", "validate", "close", "delete"} => row.live,
           pc \in Creates => row.source = Home[t],
           pc \in Creates \union Compares \union {"bind"}
           => tasks[t].pc \in Creates \union Compares \union {"bind"},
           pc \in Compares => tasks[t].pc \in Compares,
           pc \in {"verify", "purge"} => ~IsIntent(t)
    PROVE  BooksInv'
<1>1. JournalInv'
  BY JournalStays DEF BooksInv
<1>2. /\ tasks'[t].pc = pc
      /\ tasks'[t].inc = tasks[t].inc
      /\ tasks'[t].cluster = tasks[t].cluster
      /\ lock' = t
  BY DEF Goto, LifecycleTypeOK
<1>3. HolderOK(t)
  BY DEF BooksInv, HolderInv
<1>4. /\ (\/ tasks'[t].inc = handle'
          \/ handle' = 0 /\ tasks'[t].pc \in {"resolve", "reserve"})
      /\ tasks'[t].pc \in Creates \union {"materialize", "identify", "bind"}
         => handle' # 0
      /\ tasks'[t].pc \in Creates \union Compares
                          \union {"identify", "bind", "validate", "close", "delete"}
         => row'.live
      /\ tasks'[t].pc \in Creates => row'.source = Home[t]
  BY <1>2 DEF journalVars
<1>5. tasks'[t].pc \in Creates \union Compares \union {"bind"}
      => tasks'[t].cluster <= cluster'[Home[t]]
  BY <1>2, <1>3 DEF HolderOK
<1>6. tasks'[t].pc \in Compares
      => /\ row'.source \in {Unbound, Home[t]}
         /\ row'.source # Unbound => row'.cluster <= tasks'[t].cluster
  BY <1>2, <1>3 DEF HolderOK, SameContext, journalVars
<1>7. tasks'[t].pc \in {"verify", "purge"} => ~IsIntent(t)'
  BY <1>2 DEF IsIntent, journalVars
<1>8. HolderOK(t)'
  BY <1>4, <1>5, <1>6, <1>7 DEF HolderOK, SameContext
<1>9. QED
  BY <1>1, <1>2, <1>8 DEF BooksInv, HolderInv

LEMMA Finishes ==
    ASSUME LifecycleTypeOK, NEW t \in Tasks, Finish(t), JournalInv'
    PROVE  BooksInv'
  BY Contexts DEF Finish, BooksInv, HolderInv

LEMMA ReconcileEnds ==
    ASSUME LifecycleTypeOK, NEW t \in Tasks, lock = t, Reconciled(t), JournalInv',
           tasks[t].inc = handle' \/ handle' = 0
    PROVE  BooksInv'
<1>1. CASE Finish(t)
  BY <1>1, Finishes
<1>2. CASE Goto(t, "resolve")
  <2>1. /\ tasks'[t].pc = "resolve"
        /\ tasks'[t].inc = tasks[t].inc
        /\ lock' = t
    BY <1>2 DEF Goto, LifecycleTypeOK
  <2>2. HolderOK(t)'
    BY <2>1 DEF HolderOK, Creates, Compares
  <2>3. QED
    BY <2>1, <2>2 DEF BooksInv, HolderInv
<1>3. QED
  BY <1>1, <1>2 DEF Reconciled

\* A step that binds the row leaves the rest of the journal as it is.
LEMMA BindKeeps ==
    ASSUME LifecycleTypeOK, BooksInv, NEW t \in Tasks, NEW uid \in Nat, row.live,
           Bind(Home[t], tasks[t].cluster, uid), tasks[t].cluster <= cluster[Home[t]],
           UNCHANGED <<handle, admitted, incarnations, cluster>>
    PROVE  /\ JournalInv'
           /\ row'.live
           /\ row'.source = Home[t]
<1>1. /\ row'.live
      /\ row'.source = Home[t]
      /\ row'.cluster = tasks[t].cluster
  BY DEF Bind, LifecycleTypeOK
<1>2. QED
  BY <1>1 DEF BooksInv, JournalInv

LEMMA StepBooks ==
    ASSUME LifecycleTypeOK, BooksInv, NEW t \in Tasks, Step(t)
    PROVE  BooksInv'
<1>1. /\ lock = t
      /\ Home[t] \in Sources
      /\ HolderOK(t)
      /\ JournalInv
      /\ tasks[t] \in [pc : Pcs, inc : Nat, cluster : Nat]
  BY Holds, Contexts DEF BooksInv, HolderInv, LifecycleTypeOK
<1>2. ASSUME PurgeHandle(t) PROVE BooksInv'
  <2>1. handle' = 0 /\ UNCHANGED <<row, admitted, incarnations, cluster>> /\ ~row.live
    BY <1>2 DEF PurgeHandle, NoCluster, clusterVars
  <2>2. JournalInv'
    BY <1>1, <2>1 DEF JournalInv, LifecycleTypeOK
  <2>3. QED
    BY <1>1, <1>2, <2>1, <2>2, ReconcileEnds DEF PurgeHandle
<1>3. ASSUME Identify(t) PROVE BooksInv'
  <2>1. JournalInv'
    BY <1>1, <1>3, JournalStays DEF Identify, NoJournal, NoCluster, clusterVars
  <2>2. CASE ~SameContext(t)
    BY <1>3, <2>1, <2>2, Finishes DEF Identify
  <2>3. CASE SameContext(t)
    <3>1. /\ tasks'[t].pc = "compare"
          /\ tasks'[t].inc = tasks[t].inc
          /\ tasks'[t].cluster = cluster[Home[t]]
          /\ lock' = t
          /\ row.live
          /\ UNCHANGED <<row, handle, cluster>>
      BY <1>1, <1>3, <2>3 DEF Identify, NoJournal, journalVars, NoCluster, clusterVars,
         LifecycleTypeOK
    <3>2. tasks[t].inc = handle
      BY <1>1, <1>3 DEF HolderOK, Identify, At
    <3>3. cluster[Home[t]] \in Nat
      BY <1>1 DEF LifecycleTypeOK
    <3>4. row.source \in {Unbound, Home[t]}
      BY <2>3 DEF SameContext
    <3>5. row.source # Unbound => row.cluster <= cluster[Home[t]]
      BY <1>1, <3>4 DEF JournalInv
    <3>6. HolderOK(t)'
      BY <3>1, <3>2, <3>3, <3>4, <3>5 DEF HolderOK, SameContext, Creates, Compares
    <3>7. QED
      BY <2>1, <3>1, <3>6 DEF BooksInv, HolderInv
  <2>4. QED
    BY <2>2, <2>3
<1>4. ASSUME Compare(t) PROVE BooksInv'
  <2>1. /\ tasks[t].inc = handle
        /\ row.live
        /\ tasks[t].cluster <= cluster[Home[t]]
        /\ tasks[t].pc = "compare"
        /\ UNCHANGED cluster
    BY <1>1, <1>4 DEF HolderOK, Compare, At, Compares, NoCluster, clusterVars
  <2>2. ASSUME NEW c \in Resources(Home[t], tasks[t].inc),
               Bind(Home[t], tasks[t].cluster, c.uid), Reconciled(t),
               UNCHANGED <<handle, admitted, incarnations, late, events>>
        PROVE  BooksInv'
    <3>1. c.uid \in Nat
      BY DEF LifecycleTypeOK, Resources
    <3>2. JournalInv'
      BY <2>1, <2>2, <3>1, BindKeeps
    <3>3. QED
      BY <1>1, <2>1, <2>2, <3>2, ReconcileEnds
  <2>3. ASSUME UNCHANGED row, Finish(t),
               UNCHANGED <<handle, admitted, incarnations, late, events>>
        PROVE  BooksInv'
    BY <1>1, <2>1, <2>3, JournalStays, Finishes DEF journalVars
  <2>4. ASSUME NoJournal, Reconciled(t) PROVE BooksInv'
    BY <1>1, <2>1, <2>4, JournalStays, ReconcileEnds DEF NoJournal, journalVars
  <2>5. ASSUME NoJournal, ~IsIntent(t), Goto(t, "verify") PROVE BooksInv'
    <3>1. "verify" \in Pcs \ (Creates \union {"materialize", "identify", "bind"})
      BY DEF Pcs, Creates
    <3>2. tasks[t].pc \in Compares
      BY <2>1 DEF Compares
    <3>3. QED
      BY <1>1, <2>1, <2>5, <3>1, <3>2, GoesOn DEF NoJournal
  <2>6. QED
    BY <1>4, <2>2, <2>3, <2>4, <2>5 DEF Compare
<1>5. ASSUME VerifyAbsent(t) PROVE BooksInv'
  <2>1. /\ UNCHANGED <<journalVars, cluster>>
        /\ tasks[t].pc = "verify"
        /\ Finish(t) \/ Goto(t, "purge")
    BY <1>5 DEF VerifyAbsent, At, NoJournal, NoCluster, clusterVars
  <2>2. CASE Finish(t)
    BY <1>1, <2>1, <2>2, JournalStays, Finishes
  <2>3. CASE Goto(t, "purge")
    <3>1. "purge" \in Pcs \ (Creates \union {"materialize", "identify", "bind"})
      BY DEF Pcs, Creates
    <3>2. tasks[t].pc \in Compares
      BY <2>1 DEF Compares
    <3>3. tasks[t].inc = handle /\ row.live /\ ~IsIntent(t)
      BY <1>1, <2>1, <3>2 DEF HolderOK
    <3>4. QED
      BY <1>1, <2>1, <2>3, <3>1, <3>2, <3>3, GoesOn
  <2>4. QED
    BY <2>1, <2>2, <2>3
<1>6. ASSUME Purge(t) PROVE BooksInv'
  <2>1. tasks[t].inc = handle
    BY <1>1, <1>6 DEF HolderOK, Purge, At
  <2>2. /\ handle' = 0
        /\ row' = NoRow
        /\ Reconciled(t)
        /\ UNCHANGED <<admitted, incarnations, cluster>>
    BY <1>6, <2>1 DEF Purge, NoCluster, clusterVars
  <2>3. NoRow.live = FALSE /\ NoRow.source = Unbound
    BY DEF NoRow
  <2>4. JournalInv'
    BY <1>1, <2>2, <2>3 DEF JournalInv, LifecycleTypeOK
  <2>5. QED
    BY <1>1, <2>2, <2>4, ReconcileEnds
<1>7. ASSUME Resolve(t) PROVE BooksInv'
  <2>1. /\ UNCHANGED <<journalVars, cluster>>
        /\ tasks[t].pc = "resolve"
    BY <1>7 DEF Resolve, At, NoJournal, NoCluster, clusterVars
  <2>2. CASE Finish(t)
    BY <1>1, <2>1, <2>2, JournalStays, Finishes
  <2>3. CASE handle = 0 /\ Goto(t, "reserve")
    <3>1. "reserve" \in Pcs \ (Creates \union {"materialize", "identify", "bind"}
                               \union Compares \union {"validate", "close", "delete"})
      BY DEF Pcs, Creates, Compares
    <3>2. QED
      BY <1>1, <2>1, <2>3, <3>1, GoesOn
  <2>4. CASE handle # 0 /\ Goto(t, "materialize")
    <3>1. /\ "materialize" \in Pcs \ (Creates \union {"identify", "bind"}
                               \union Compares \union {"validate", "close", "delete"})
      BY DEF Pcs, Creates, Compares
    <3>2. tasks[t].inc = handle
      BY <1>1, <2>1, <2>4 DEF HolderOK
    <3>3. QED
      BY <1>1, <2>1, <2>4, <3>1, <3>2, GoesOn
  <2>5. QED
    BY <1>7, <2>2, <2>3, <2>4 DEF Resolve
<1>8. ASSUME Reserve(t) PROVE BooksInv'
  <2>1. CASE Admits(t)
    <3>1. /\ handle = 0
          /\ handle' = incarnations + 1
          /\ incarnations' = incarnations + 1
          /\ admitted' = [p \in Previews |-> IF p = t THEN handle' ELSE admitted[p]]
          /\ tasks' = [tasks EXCEPT ![t].pc = "materialize", ![t].inc = handle']
          /\ UNCHANGED <<lock, row, cluster>>
      BY <1>8, <2>1 DEF Reserve, Admits, NewIncarnation, NoCluster, clusterVars
    <3>2. JournalInv'
      BY <1>1, <3>1 DEF JournalInv, LifecycleTypeOK
    <3>3. tasks'[t].pc = "materialize" /\ tasks'[t].inc = handle' /\ handle' # 0
      BY <3>1 DEF LifecycleTypeOK
    <3>4. HolderOK(t)'
      BY <3>3 DEF HolderOK, Creates, Compares
    <3>5. QED
      BY <1>1, <3>1, <3>2, <3>4 DEF BooksInv, HolderInv
  <2>2. CASE ~Admits(t) /\ Finish(t)
    BY <1>1, <1>8, <2>2, JournalStays, Finishes DEF Reserve, NoJournal, NoCluster,
       clusterVars
  <2>3. CASE ~Admits(t) /\ handle # 0 /\ Goto(t, "materialize")
    <3>1. /\ "materialize" \in Pcs \ (Creates \union {"identify", "bind"}
                               \union Compares \union {"validate", "close", "delete"})
      BY DEF Pcs, Creates, Compares
    <3>2. tasks[t].inc = handle
      BY <1>1, <2>3 DEF HolderOK
    <3>3. UNCHANGED <<journalVars, cluster>>
      BY <1>8, <2>3 DEF Reserve, NoJournal, NoCluster, clusterVars
    <3>4. QED
      BY <1>1, <2>3, <3>1, <3>2, <3>3, GoesOn
  <2>4. QED
    BY <1>8, <2>1, <2>2, <2>3 DEF Reserve
<1>9. ASSUME Materialize(t) PROVE BooksInv'
  <2>1. tasks[t].pc = "materialize" /\ tasks[t].inc = handle /\ handle # 0
    BY <1>1, <1>9 DEF Materialize, At, HolderOK
  <2>2. CASE row.closing
    <3>1. UNCHANGED <<journalVars, cluster>> /\ Finish(t)
      BY <1>9, <2>2 DEF Materialize, journalVars, NoCluster, clusterVars
    <3>2. QED
      BY <1>1, <3>1, JournalStays, Finishes
  <2>3. CASE ~row.closing
    <3>1. /\ row' = [row EXCEPT !.live = TRUE]
          /\ Goto(t, "identify")
          /\ UNCHANGED <<handle, admitted, incarnations, cluster>>
      BY <1>9, <2>3 DEF Materialize, NoCluster, clusterVars
    <3>2. row'.live /\ row'.source = row.source /\ row'.cluster = row.cluster
      BY <3>1 DEF LifecycleTypeOK
    <3>3. JournalInv'
      BY <1>1, <2>1, <3>1, <3>2 DEF JournalInv
    <3>4. tasks'[t].pc = "identify" /\ tasks'[t].inc = tasks[t].inc /\ lock' = t
      BY <1>1, <3>1 DEF Goto, LifecycleTypeOK
    <3>5. HolderOK(t)'
      BY <2>1, <3>1, <3>2, <3>4 DEF HolderOK, Creates, Compares
    <3>6. QED
      BY <3>3, <3>4, <3>5 DEF BooksInv, HolderInv
  <2>4. QED
    BY <2>2, <2>3
<1>10. ASSUME IdentifyCluster(t) PROVE BooksInv'
  <2>1. /\ tasks' = [tasks EXCEPT ![t].pc = "bind", ![t].cluster = cluster[Home[t]]]
        /\ UNCHANGED <<lock, journalVars, cluster>>
        /\ tasks[t].pc = "identify"
    BY <1>10 DEF IdentifyCluster, At, NoJournal, NoCluster, clusterVars
  <2>2. tasks[t].inc = handle /\ handle # 0 /\ row.live
    BY <1>1, <2>1 DEF HolderOK
  <2>3. /\ tasks'[t].pc = "bind"
        /\ tasks'[t].inc = tasks[t].inc
        /\ tasks'[t].cluster = cluster[Home[t]]
        /\ cluster[Home[t]] \in Nat
    BY <1>1, <2>1 DEF LifecycleTypeOK
  <2>4. HolderOK(t)'
    BY <2>1, <2>2, <2>3 DEF HolderOK, Creates, Compares, journalVars
  <2>5. QED
    BY <1>1, <2>1, <2>4, JournalStays DEF BooksInv, HolderInv
<1>11. ASSUME BindCluster(t) PROVE BooksInv'
  <2>1. /\ tasks[t].pc = "bind"
        /\ tasks[t].inc = handle /\ handle # 0 /\ row.live
        /\ tasks[t].cluster <= cluster[Home[t]]
        /\ UNCHANGED <<handle, admitted, incarnations, cluster>>
    BY <1>1, <1>11 DEF BindCluster, At, HolderOK, NoCluster, clusterVars
  <2>2. CASE UNCHANGED row /\ Finish(t)
    BY <1>1, <2>1, <2>2, JournalStays, Finishes DEF journalVars
  <2>3. CASE Bind(Home[t], tasks[t].cluster, 0) /\ Goto(t, "get")
    <3>1. JournalInv' /\ row'.live /\ row'.source = Home[t]
      BY <2>1, <2>3, BindKeeps DEF BooksInv
    <3>2. /\ tasks'[t].pc = "get"
          /\ tasks'[t].inc = tasks[t].inc
          /\ tasks'[t].cluster = tasks[t].cluster
          /\ lock' = t
      BY <1>1, <2>3 DEF Goto, LifecycleTypeOK
    <3>3. HolderOK(t)'
      BY <2>1, <3>1, <3>2 DEF HolderOK, Creates, Compares
    <3>4. QED
      BY <3>1, <3>2, <3>3 DEF BooksInv, HolderInv
  <2>4. QED
    BY <1>11, <2>2, <2>3 DEF BindCluster
<1>12. ASSUME GetResource(t) \/ CreateResource(t) PROVE BooksInv'
  <2>1. /\ UNCHANGED <<journalVars, cluster>>
        /\ tasks[t].pc \in {"get", "create"}
        /\ \/ Finish(t) \/ Goto(t, "create") \/ Goto(t, "uid")
    BY <1>12 DEF GetResource, CreateResource, At, NewResource, NoJournal, NoCluster,
       clusterVars
  <2>2. CASE Finish(t)
    BY <1>1, <2>1, <2>2, JournalStays, Finishes
  <2>3. ASSUME NEW pc \in {"create", "uid"}, Goto(t, pc) PROVE BooksInv'
    <3>1. /\ pc \in Pcs \ (Compares \union {"resolve", "reserve"})
          /\ tasks[t].pc \in Creates
      BY <2>1, <2>3 DEF Pcs, Creates, Compares
    <3>2. tasks[t].inc = handle /\ handle # 0 /\ row.live /\ row.source = Home[t]
      BY <1>1, <2>1, <3>1 DEF HolderOK
    <3>3. pc \notin {"verify", "purge"}
      BY <2>3
    <3>4. QED
      BY <1>1, <2>1, <2>3, <3>1, <3>2, <3>3, GoesOn
  <2>4. QED
    BY <2>1, <2>2, <2>3
<1>13. ASSUME BindResource(t) PROVE BooksInv'
  <2>1. /\ tasks[t].pc = "uid"
        /\ Finish(t)
        /\ UNCHANGED <<handle, admitted, incarnations, cluster>>
    BY <1>13 DEF BindResource, At, NoCluster, clusterVars
  <2>2. row.live /\ tasks[t].cluster <= cluster[Home[t]]
    BY <1>1, <2>1 DEF HolderOK, Creates
  <2>3. CASE UNCHANGED row
    BY <1>1, <2>1, <2>3, JournalStays, Finishes DEF journalVars
  <2>4. ASSUME NEW c \in Resources(Home[t], tasks[t].inc),
               Bind(Home[t], tasks[t].cluster, c.uid)
        PROVE  BooksInv'
    <3>1. c.uid \in Nat
      BY DEF LifecycleTypeOK, Resources
    <3>2. QED
      BY <2>1, <2>2, <2>4, <3>1, BindKeeps, Finishes
  <2>5. QED
    BY <1>13, <2>3, <2>4 DEF BindResource
<1>14. ASSUME Validate(t) PROVE BooksInv'
  <2>1. /\ UNCHANGED <<journalVars, cluster>>
        /\ tasks[t].pc = "validate"
        /\ Finish(t) \/ Goto(t, "close")
    BY <1>14 DEF Validate, At, NoJournal, NoCluster, clusterVars
  <2>2. tasks[t].inc = handle /\ row.live
    BY <1>1, <2>1 DEF HolderOK
  <2>3. "close" \in Pcs \ (Creates \union Compares
                           \union {"materialize", "identify", "bind"})
    BY DEF Pcs, Creates, Compares
  <2>4. QED
    BY <1>1, <2>1, <2>2, <2>3, JournalStays, Finishes, GoesOn
<1>15. ASSUME BeginClose(t) PROVE BooksInv'
  <2>1. /\ row' = [row EXCEPT !.closing = TRUE]
        /\ Goto(t, "delete")
        /\ UNCHANGED <<handle, admitted, incarnations, cluster>>
        /\ tasks[t].inc = handle /\ row.live
    BY <1>1, <1>15 DEF BeginClose, At, HolderOK, NoCluster, clusterVars
  <2>2. row'.live /\ row'.source = row.source /\ row'.cluster = row.cluster
    BY <2>1 DEF LifecycleTypeOK
  <2>3. JournalInv'
    BY <1>1, <2>1, <2>2 DEF JournalInv
  <2>4. tasks'[t].pc = "delete" /\ tasks'[t].inc = tasks[t].inc /\ lock' = t
    BY <1>1, <2>1 DEF Goto, LifecycleTypeOK
  <2>5. HolderOK(t)'
    BY <2>1, <2>2, <2>4 DEF HolderOK, Creates, Compares
  <2>6. QED
    BY <2>3, <2>4, <2>5 DEF BooksInv, HolderInv
<1>16. ASSUME RequestDeletion(t) PROVE BooksInv'
  <2>1. /\ UNCHANGED <<journalVars, cluster>>
        /\ tasks[t].pc = "delete"
        /\ Finish(t) \/ Goto(t, "reconcile")
    BY <1>16 DEF RequestDeletion, At, NoJournal, NoCluster, clusterVars
  <2>2. tasks[t].inc = handle
    BY <1>1, <2>1 DEF HolderOK
  <2>3. "reconcile" \in Pcs \ (Creates \union Compares \union
             {"materialize", "identify", "bind", "validate", "close", "delete"})
    BY DEF Pcs, Creates, Compares
  <2>4. QED
    BY <1>1, <2>1, <2>2, <2>3, JournalStays, Finishes, GoesOn
<1>17. QED
  BY <1>2, <1>3, <1>4, <1>5, <1>6, <1>7, <1>8, <1>9, <1>10, <1>11, <1>12, <1>13, <1>14,
     <1>15, <1>16 DEF Step

\* The environment touches the journal, the tasks and the identity of a
\* cluster at most by replacing a cluster.
LEMMA EnvironmentBooks ==
    ASSUME LifecycleTypeOK, BooksInv, UNCHANGED <<journalVars, lock, tasks>>,
           cluster' \in [Sources -> Nat],
           \A s \in Sources : cluster[s] <= cluster'[s]
    PROVE  BooksInv'
<1>1. cluster \in [Sources -> Nat] /\ row.cluster \in Nat
  BY DEF LifecycleTypeOK
<1>2. row.source # Unbound => row.source \in Sources
  BY DEF LifecycleTypeOK
<1>3. JournalInv'
  BY <1>1, <1>2 DEF BooksInv, JournalInv, journalVars
<1>4. ASSUME NEW t \in Tasks, lock = t PROVE HolderOK(t)'
  <2>1. HolderOK(t) /\ Home[t] \in Sources /\ tasks[t].cluster \in Nat
    BY <1>4, Contexts DEF BooksInv, HolderInv, LifecycleTypeOK
  <2>2. tasks[t].cluster <= cluster[Home[t]] => tasks[t].cluster <= cluster'[Home[t]]
    BY <1>1, <2>1
  <2>3. IsIntent(t)' <=> IsIntent(t)
    BY DEF IsIntent, journalVars
  <2>4. SameContext(t)' <=> SameContext(t)
    BY DEF SameContext, journalVars
  <2>5. QED
    BY <2>1, <2>2, <2>3, <2>4 DEF HolderOK, journalVars
<1>5. QED
  BY <1>3, <1>4 DEF BooksInv, HolderInv

LEMMA BooksKept ==
    ASSUME LifecycleTypeOK, BooksInv, [LifecycleNext]_lifecycleVars
    PROVE  BooksInv'
<1>1. ASSUME NEW t \in Tasks, Target(t) PROVE BooksInv'
  <2>1. /\ UNCHANGED <<journalVars, lock, cluster>>
        /\ tasks' = [tasks EXCEPT ![t] = [Idle EXCEPT !.pc = "target", !.inc = handle]]
        /\ tasks[t].pc = "idle"
    BY <1>1 DEF Target, At, NoJournal, NoCluster, clusterVars
  <2>2. lock # t
    BY <2>1 DEF LifecycleTypeOK
  <2>3. ASSUME NEW u \in Tasks, lock = u PROVE HolderOK(u)'
    <3>1. tasks'[u] = tasks[u] /\ HolderOK(u)
      BY <2>1, <2>2, <2>3 DEF LifecycleTypeOK, BooksInv, HolderInv
    <3>2. QED
      BY <2>1, <3>1 DEF HolderOK, IsIntent, SameContext, journalVars
  <2>4. QED
    BY <2>1, <2>3, JournalStays DEF BooksInv, HolderInv
<1>2. ASSUME NEW t \in Tasks, Acquire(t) PROVE BooksInv'
  <2>1. UNCHANGED <<journalVars, cluster>> /\ lock = Unbound
    BY <1>2 DEF Acquire, LockFree, NoJournal, NoCluster, clusterVars
  <2>2. CASE UNCHANGED lock
    BY <2>1, <2>2, Contexts, JournalStays DEF BooksInv, HolderInv
  <2>3. CASE /\ ~(t \in Closers /\ (handle # tasks[t].inc \/ ~row.live))
             /\ lock' = t
             /\ tasks' = [tasks EXCEPT ![t] = [pc |-> EntryPoint(t), inc |-> handle,
                                               cluster |-> 0]]
    <3>1. tasks'[t].pc = EntryPoint(t) /\ tasks'[t].inc = handle
      BY <2>3 DEF LifecycleTypeOK
    <3>2. /\ EntryPoint(t) \in {"reconcile", "validate", "reserve"}
          /\ EntryPoint(t) = "validate" => row.live
      BY <2>3 DEF EntryPoint
    <3>3. HolderOK(t)'
      BY <2>1, <3>1, <3>2 DEF HolderOK, Creates, Compares, journalVars
    <3>4. QED
      BY <2>1, <2>3, <3>3, JournalStays DEF BooksInv, HolderInv
  <2>4. QED
    BY <1>2, <2>2, <2>3 DEF Acquire
<1>3. ASSUME NEW t \in Tasks, Crash(t) PROVE BooksInv'
  <2>1. /\ UNCHANGED <<journalVars, cluster>>
        /\ tasks' = [tasks EXCEPT ![t] = Idle]
        /\ lock' = IF lock = t THEN Unbound ELSE lock
    BY <1>3 DEF Crash, NoCluster, clusterVars
  <2>2. ASSUME NEW u \in Tasks, lock' = u PROVE HolderOK(u)'
    <3>1. u # t /\ lock = u
      BY <2>1, <2>2, Contexts
    <3>2. tasks'[u] = tasks[u] /\ HolderOK(u)
      BY <2>1, <3>1 DEF LifecycleTypeOK, BooksInv, HolderInv
    <3>3. QED
      BY <2>1, <3>2 DEF HolderOK, IsIntent, SameContext, journalVars
  <2>3. QED
    BY <2>1, <2>2, JournalStays DEF BooksInv, HolderInv
<1>4. ASSUME \/ Adopt \/ CreateNamespace \/ BeginCleanup \/ DeleteNamespace
             \/ RemoveFinalizer \/ Terminate \/ DeleteOutside \/ Land
             \/ ReplaceCluster \/ ForceRemove
      PROVE  BooksInv'
  <2>1. UNCHANGED <<journalVars, lock, tasks>>
    BY <1>4 DEF Adopt, CreateNamespace, BeginCleanup, DeleteNamespace, RemoveFinalizer,
       Terminate, DeleteOutside, Land, ReplaceCluster, ForceRemove, NoTask, NoJournal
  <2>2. UNCHANGED cluster
        \/ \E s \in Sources : cluster' = [cluster EXCEPT ![s] = @ + 1]
    BY <1>4 DEF Adopt, CreateNamespace, BeginCleanup, DeleteNamespace, RemoveFinalizer,
       Terminate, DeleteOutside, Land, ReplaceCluster, ForceRemove, NewResource,
       NoCluster, clusterVars
  <2>3. cluster' \in [Sources -> Nat] /\ \A s \in Sources : cluster[s] <= cluster'[s]
    BY <2>2 DEF LifecycleTypeOK
  <2>4. QED
    BY <2>1, <2>3, EnvironmentBooks
<1>5. CASE UNCHANGED lifecycleVars
  BY <1>5, EnvironmentBooks DEF lifecycleVars, clusterVars, LifecycleTypeOK
<1>6. QED
  BY <1>1, <1>2, <1>3, <1>4, <1>5, StepBooks DEF LifecycleNext

LEMMA BooksHold == LifecycleSpec => [](LifecycleTypeOK /\ BooksInv)
  BY TypeInit, TypeKept, BooksInit, BooksKept, PTL DEF LifecycleSpec

-----------------------------------------------------------------------------
(* What the journal alone promises.                                        *)

\* Only a purge forgets an instance, and only the holder of the lock purges.
LEMMA Forgets ==
    ASSUME LifecycleTypeOK, BooksInv, [LifecycleNext]_lifecycleVars, row.live, ~row'.live
    PROVE  \E t \in Tasks : Purge(t) /\ HolderOK(t)
<1>1. ASSUME NEW t \in Tasks, Step(t), ~Purge(t) PROVE row'.live
  BY <1>1 DEF Step, LifecycleTypeOK, PurgeHandle, Identify, Compare, VerifyAbsent,
     Resolve, Reserve, Materialize, IdentifyCluster, BindCluster, GetResource,
     CreateResource, BindResource, Validate, BeginClose, RequestDeletion, Bind,
     NoJournal, journalVars
<1>2. ASSUME NEW t \in Tasks, Target(t) \/ Acquire(t) \/ Crash(t) PROVE row' = row
  BY <1>2 DEF Target, Acquire, Crash, NoJournal, journalVars
<1>3. ASSUME \/ Adopt \/ CreateNamespace \/ BeginCleanup \/ DeleteNamespace
             \/ RemoveFinalizer \/ Terminate \/ DeleteOutside \/ Land
             \/ ReplaceCluster \/ ForceRemove
      PROVE  row' = row
  BY <1>3 DEF Adopt, CreateNamespace, BeginCleanup, DeleteNamespace, RemoveFinalizer,
     Terminate, DeleteOutside, Land, ReplaceCluster, ForceRemove, NoJournal, journalVars
<1>4. PICK t \in Tasks : Purge(t)
  BY <1>1, <1>2, <1>3 DEF LifecycleNext, lifecycleVars, journalVars
<1>5. HolderOK(t)
  BY <1>4, Holds DEF Step, BooksInv, HolderInv
<1>6. QED
  BY <1>4, <1>5

(* The records of a cell that is not closing, and whose resource was not   *)
(* created yet in the cluster it is bound to, are never purged.            *)
THEOREM IntentsStay == LifecycleSpec => BoundIntentStays
<1>1. ASSUME LifecycleTypeOK, BooksInv, [LifecycleNext]_lifecycleVars,
             row.live, ~row'.live, ~row.closing, row.source # Unbound, row.uid = 0
      PROVE  cluster[row.source] # row.cluster
  <2>1. PICK t \in Tasks : Purge(t) /\ HolderOK(t)
    BY <1>1, Forgets
  <2>2. /\ SameContext(t)
        /\ row.cluster <= tasks[t].cluster
        /\ tasks[t].cluster <= cluster[Home[t]]
        /\ ~IsIntent(t)
    BY <1>1, <2>1 DEF Purge, At, HolderOK, Compares
  <2>3. row.source = Home[t]
    BY <1>1, <2>2 DEF SameContext
  <2>4. row.cluster # tasks[t].cluster
    BY <1>1, <2>2 DEF IsIntent
  <2>5. row.cluster \in Nat /\ tasks[t].cluster \in Nat /\ cluster[Home[t]] \in Nat
    BY <1>1, <2>1, Contexts DEF LifecycleTypeOK
  <2>6. QED
    BY <2>2, <2>3, <2>4, <2>5
<1>2. LifecycleTypeOK /\ BooksInv /\ [LifecycleNext]_lifecycleVars
      => [row.live /\ ~row'.live
          => \/ row.closing
             \/ row.source = Unbound
             \/ row.uid # 0
             \/ cluster[row.source] # row.cluster]_lifecycleVars
  BY <1>1
<1>3. QED
  BY <1>2, BooksHold, PTL DEF LifecycleSpec, BoundIntentStays

(* A preview that was admitted is never admitted again, whatever became of *)
(* its cell.                                                               *)
THEOREM PreviewsAdmittedOnce == LifecycleSpec => PreviewAdmittedOnce
<1>1. ASSUME LifecycleTypeOK, [LifecycleNext]_lifecycleVars, NEW p \in Previews,
             admitted[p] # 0
      PROVE  admitted'[p] = admitted[p]
  <2>1. ASSUME NEW t \in Tasks, Reserve(t) PROVE admitted'[p] = admitted[p]
    BY <1>1, <2>1 DEF Reserve, Admits, NoJournal, journalVars, LifecycleTypeOK
  <2>2. ASSUME NEW t \in Tasks, Step(t), ~Reserve(t) PROVE admitted' = admitted
    BY <2>2 DEF Step, PurgeHandle, Identify, Compare, VerifyAbsent, Purge, Resolve,
       Materialize, IdentifyCluster, BindCluster, GetResource, CreateResource,
       BindResource, Validate, BeginClose, RequestDeletion, NoJournal, journalVars
  <2>3. ASSUME NEW t \in Tasks, Target(t) \/ Acquire(t) \/ Crash(t)
        PROVE  admitted' = admitted
    BY <2>3 DEF Target, Acquire, Crash, NoJournal, journalVars
  <2>4. ASSUME \/ Adopt \/ CreateNamespace \/ BeginCleanup \/ DeleteNamespace
               \/ RemoveFinalizer \/ Terminate \/ DeleteOutside \/ Land
               \/ ReplaceCluster \/ ForceRemove
        PROVE  admitted' = admitted
    BY <2>4 DEF Adopt, CreateNamespace, BeginCleanup, DeleteNamespace, RemoveFinalizer,
       Terminate, DeleteOutside, Land, ReplaceCluster, ForceRemove, NoJournal,
       journalVars
  <2>5. QED
    BY <1>1, <2>1, <2>2, <2>3, <2>4 DEF LifecycleNext, lifecycleVars, journalVars
<1>2. LifecycleTypeOK /\ [LifecycleNext]_lifecycleVars
      => [\A p \in Previews : admitted[p] # 0 => admitted'[p] = admitted[p]]_lifecycleVars
  BY <1>1
<1>3. QED
  BY <1>2, LifecycleTyped, PTL DEF LifecycleSpec, PreviewAdmittedOnce

-----------------------------------------------------------------------------
(* The clusters.  The create request of a dead process is only contained   *)
(* when it does not outlive the process: nothing fences it.                *)

Prompt == "late" \notin Events

\* Steps that create no resource: whatever is in a cluster afterwards descends
\* from a resource or a namespace that was there.
LEMMA Descends ==
    ASSUME LifecycleTypeOK, ClusterInv, late' = {},
           row.live /\ row.source # Unbound
           => row'.live /\ row'.source = row.source /\ handle' = handle,
           \A c \in cells' : \E d \in cells : c.source = d.source /\ c.inc = d.inc,
           \A n \in namespaces' : \E d \in cells \union namespaces :
                n.source = d.source /\ n.inc = d.inc,
           \A t \in Tasks : tasks'[t].pc = "purge"
                => tasks[t].pc = "purge" /\ tasks'[t].inc = tasks[t].inc
    PROVE  ClusterInv'
<1>1. ASSUME NEW d \in cells \union namespaces PROVE Owned(d) /\ row.source # Unbound
  BY <1>1, LifecycleAssumption DEF ClusterInv, Owned, LifecycleTypeOK
<1>2. ASSUME NEW d \in cells \union namespaces
      PROVE  row'.live /\ d.inc = handle' /\ d.source = row'.source
  BY <1>1 DEF Owned
<1>3. \A c \in cells' : Owned(c)'
  BY <1>2 DEF Owned
<1>4. \A n \in namespaces' : Owned(n)'
  BY <1>2 DEF Owned
<1>5. ASSUME NEW t \in Tasks, tasks'[t].pc = "purge"
      PROVE  Absent(Home[t], tasks[t].inc)'
  <2>1. Absent(Home[t], tasks[t].inc) /\ tasks'[t].inc = tasks[t].inc
    BY <1>5 DEF ClusterInv
  <2>2. \A d \in cells \union namespaces :
            ~(d.source = Home[t] /\ d.inc = tasks[t].inc)
    BY <2>1 DEF Absent, Resources, HasNamespace
  <2>3. QED
    BY <2>1, <2>2 DEF Absent, Resources, HasNamespace
<1>6. QED
  BY <1>3, <1>4, <1>5 DEF ClusterInv

\* A task that goes on, elsewhere than to a purge.
LEMMA NotToPurge ==
    ASSUME LifecycleTypeOK, NEW t \in Tasks,
           \/ Finish(t)
           \/ Reconciled(t)
           \/ \E pc \in Pcs \ {"purge"} : Goto(t, pc)
    PROVE  \A u \in Tasks : tasks'[u].pc = "purge"
                => tasks[u].pc = "purge" /\ tasks'[u].inc = tasks[u].inc
  BY DEF Finish, Reconciled, Goto, Idle, LifecycleTypeOK

\* A row is bound once.
LEMMA BindsOnce ==
    ASSUME LifecycleTypeOK, NEW s \in Sources, NEW c \in Nat, NEW uid \in Nat,
           MayBind(s, c, uid), Bind(s, c, uid), row.source # Unbound
    PROVE  row'.live = row.live /\ row'.source = row.source
  BY DEF MayBind, Bind, LifecycleTypeOK

LEMMA StepClusters ==
    ASSUME LifecycleTypeOK, BooksInv, ClusterInv, NEW t \in Tasks, Step(t)
    PROVE  ClusterInv'
<1>1. /\ lock = t
      /\ Home[t] \in Sources
      /\ HolderOK(t)
      /\ JournalInv
      /\ tasks[t] \in [pc : Pcs, inc : Nat, cluster : Nat]
  BY Holds, Contexts DEF BooksInv, HolderInv, LifecycleTypeOK
<1>2. late = {} /\ late' = late
  BY DEF ClusterInv, Step, PurgeHandle, Identify, Compare, VerifyAbsent, Purge, Resolve,
     Reserve, Materialize, IdentifyCluster, BindCluster, GetResource, CreateResource,
     BindResource, Validate, BeginClose, RequestDeletion, NoJournal
<1>3. ASSUME row.live /\ row.source # Unbound
             => row'.live /\ row'.source = row.source /\ handle' = handle,
             UNCHANGED <<cells, namespaces>>,
             \A u \in Tasks : tasks'[u].pc = "purge"
                => tasks[u].pc = "purge" /\ tasks'[u].inc = tasks[u].inc
      PROVE  ClusterInv'
  BY <1>2, <1>3, Descends
<1>4. \A pc \in {"compare", "verify", "resolve", "reserve", "materialize", "identify",
                 "bind", "get", "create", "uid", "close", "delete", "reconcile"} :
          pc \in Pcs \ {"purge"}
  BY DEF Pcs
<1>5. ASSUME PurgeHandle(t) PROVE ClusterInv'
  BY <1>3, <1>5, NotToPurge DEF PurgeHandle, NoCluster, clusterVars
<1>6. ASSUME Identify(t) PROVE ClusterInv'
  <2>1. \A u \in Tasks : tasks'[u].pc = "purge"
                => tasks[u].pc = "purge" /\ tasks'[u].inc = tasks[u].inc
    BY <1>6, NotToPurge DEF Identify, LifecycleTypeOK
  <2>2. QED
    BY <1>3, <1>6, <2>1 DEF Identify, NoJournal, journalVars, NoCluster, clusterVars
<1>7. ASSUME Compare(t) PROVE ClusterInv'
  <2>1. UNCHANGED <<cells, namespaces, handle>>
    BY <1>7 DEF Compare, NoJournal, journalVars, NoCluster, clusterVars
  <2>2. Finish(t) \/ Reconciled(t) \/ Goto(t, "verify")
    BY <1>7 DEF Compare
  <2>3. ASSUME row.live, row.source # Unbound
        PROVE  row'.live /\ row'.source = row.source
    <3>1. ASSUME NEW c \in Resources(Home[t], tasks[t].inc),
                 MayBind(Home[t], tasks[t].cluster, c.uid),
                 Bind(Home[t], tasks[t].cluster, c.uid)
          PROVE  row'.live = row.live /\ row'.source = row.source
      <4>1. c.uid \in Nat
        BY DEF Resources, LifecycleTypeOK
      <4>2. QED
        BY <1>1, <2>3, <3>1, <4>1, BindsOnce
    <3>2. QED
      BY <1>7, <2>3, <3>1 DEF Compare, NoJournal, journalVars
  <2>4. QED
    BY <1>3, <1>4, <2>1, <2>2, <2>3, NotToPurge
<1>8. ASSUME VerifyAbsent(t) PROVE ClusterInv'
  <2>1. UNCHANGED <<row, handle, cells, namespaces>>
    BY <1>8 DEF VerifyAbsent, NoJournal, journalVars, NoCluster, clusterVars
  <2>2. CASE Finish(t)
    BY <1>3, <2>1, <2>2, NotToPurge
  <2>3. CASE Absent(Home[t], tasks[t].inc) /\ Goto(t, "purge")
    <3>1. \A u \in Tasks : tasks'[u].inc = tasks[u].inc
                           /\ (u # t => tasks'[u].pc = tasks[u].pc)
      BY <2>3 DEF Goto, LifecycleTypeOK
    <3>2. QED
      BY <1>2, <2>1, <2>3, <3>1 DEF ClusterInv, Owned, Absent, Resources, HasNamespace
  <2>4. QED
    BY <1>8, <2>2, <2>3 DEF VerifyAbsent
<1>9. ASSUME Purge(t) PROVE ClusterInv'
  <2>1. /\ tasks[t].pc = "purge"
        /\ tasks[t].inc = handle
        /\ SameContext(t)
        /\ Absent(Home[t], handle)
    BY <1>1, <1>9 DEF Purge, At, HolderOK, Compares, ClusterInv
  <2>2. cells = {} /\ namespaces = {}
    <3>1. ASSUME NEW d \in cells \union namespaces PROVE FALSE
      <4>1. d.inc = handle /\ d.source = row.source /\ d.source \in Sources
        BY <3>1 DEF ClusterInv, Owned, LifecycleTypeOK
      <4>2. d.source = Home[t]
        BY <2>1, <4>1, LifecycleAssumption DEF SameContext
      <4>3. QED
        BY <2>1, <3>1, <4>1, <4>2 DEF Absent, Resources, HasNamespace
    <3>2. QED
      BY <3>1
  <2>3. UNCHANGED <<cells, namespaces>>
    BY <1>9 DEF Purge, NoCluster, clusterVars
  <2>4. QED
    BY <1>2, <2>2, <2>3 DEF ClusterInv, Absent, Resources, HasNamespace
<1>10. ASSUME Resolve(t) PROVE ClusterInv'
  BY <1>3, <1>4, <1>10, NotToPurge DEF Resolve, NoJournal, journalVars, NoCluster,
     clusterVars
<1>11. ASSUME Reserve(t) PROVE ClusterInv'
  <2>1. UNCHANGED <<row, cells, namespaces>>
    BY <1>11 DEF Reserve, NoJournal, journalVars, NoCluster, clusterVars
  <2>2. row.live => handle' = handle
    BY <1>1, <1>11 DEF Reserve, Admits, JournalInv, NoJournal, journalVars
  <2>3. \A u \in Tasks : tasks'[u].pc = "purge"
                => tasks[u].pc = "purge" /\ tasks'[u].inc = tasks[u].inc
    <3>1. CASE Admits(t)
      BY <1>11, <3>1 DEF Reserve, LifecycleTypeOK
    <3>2. CASE ~Admits(t)
      BY <1>4, <1>11, <3>2, NotToPurge DEF Reserve
    <3>3. QED
      BY <3>1, <3>2
  <2>4. QED
    BY <1>3, <2>1, <2>2, <2>3
<1>12. ASSUME Materialize(t) PROVE ClusterInv'
  <2>1. row.live => row'.live /\ row'.source = row.source
    BY <1>12 DEF Materialize, LifecycleTypeOK
  <2>2. UNCHANGED <<handle, cells, namespaces>> /\ (Finish(t) \/ Goto(t, "identify"))
    BY <1>12 DEF Materialize, NoCluster, clusterVars
  <2>3. QED
    BY <1>3, <1>4, <2>1, <2>2, NotToPurge
<1>13. ASSUME IdentifyCluster(t) PROVE ClusterInv'
  <2>1. \A u \in Tasks : tasks'[u].pc = "purge"
                => tasks[u].pc = "purge" /\ tasks'[u].inc = tasks[u].inc
    BY <1>13 DEF IdentifyCluster, LifecycleTypeOK
  <2>2. QED
    BY <1>3, <1>13, <2>1 DEF IdentifyCluster, NoJournal, journalVars, NoCluster,
       clusterVars
<1>14. ASSUME BindCluster(t) PROVE ClusterInv'
  <2>1. UNCHANGED <<handle, cells, namespaces>> /\ (Finish(t) \/ Goto(t, "get"))
    BY <1>14 DEF BindCluster, NoCluster, clusterVars
  <2>2. row.live /\ row.source # Unbound => row'.live /\ row'.source = row.source
    BY <1>1, <1>14, BindsOnce DEF BindCluster
  <2>3. QED
    BY <1>3, <1>4, <2>1, <2>2, NotToPurge
<1>15. ASSUME GetResource(t) PROVE ClusterInv'
  BY <1>3, <1>4, <1>15, NotToPurge DEF GetResource, NoJournal, journalVars, NoCluster,
     clusterVars
<1>16. ASSUME CreateResource(t) PROVE ClusterInv'
  <2>1. /\ tasks[t].pc = "create" /\ tasks[t].inc = handle /\ row.live
        /\ row.source = Home[t]
        /\ UNCHANGED <<handle, row>>
    BY <1>1, <1>16 DEF CreateResource, At, HolderOK, Creates, NoJournal, journalVars
  <2>2. CASE Finish(t) /\ NoCluster
    BY <1>3, <2>1, <2>2, NotToPurge DEF NoCluster, clusterVars
  <2>3. CASE NewResource(Home[t], tasks[t].inc) /\ Goto(t, "uid")
    <3>1. \A u \in Tasks : tasks'[u].pc # "purge"
      BY <1>1, <2>1, <2>3 DEF Goto, LifecycleTypeOK
    <3>2. \A c \in cells' : Owned(c)'
      BY <2>1, <2>3 DEF NewResource, ClusterInv, Owned
    <3>3. \A n \in namespaces' : Owned(n)'
      BY <2>1, <2>3 DEF NewResource, ClusterInv, Owned
    <3>4. QED
      BY <1>2, <3>1, <3>2, <3>3 DEF ClusterInv
  <2>4. QED
    BY <1>16, <2>2, <2>3 DEF CreateResource
<1>17. ASSUME BindResource(t) PROVE ClusterInv'
  <2>1. UNCHANGED <<handle, cells, namespaces>> /\ Finish(t)
    BY <1>17 DEF BindResource, NoCluster, clusterVars
  <2>2. ASSUME row.live, row.source # Unbound
        PROVE  row'.live /\ row'.source = row.source
    <3>1. ASSUME NEW c \in Resources(Home[t], tasks[t].inc),
                 MayBind(Home[t], tasks[t].cluster, c.uid),
                 Bind(Home[t], tasks[t].cluster, c.uid)
          PROVE  row'.live = row.live /\ row'.source = row.source
      <4>1. c.uid \in Nat
        BY DEF Resources, LifecycleTypeOK
      <4>2. QED
        BY <1>1, <2>2, <3>1, <4>1, BindsOnce
    <3>2. QED
      BY <1>17, <2>2, <3>1 DEF BindResource
  <2>3. QED
    BY <1>3, <2>1, <2>2, NotToPurge
<1>18. ASSUME Validate(t) PROVE ClusterInv'
  BY <1>3, <1>4, <1>18, NotToPurge DEF Validate, NoJournal, journalVars, NoCluster,
     clusterVars
<1>19. ASSUME BeginClose(t) PROVE ClusterInv'
  <2>1. row'.live = row.live /\ row'.source = row.source
    BY <1>19 DEF BeginClose, LifecycleTypeOK
  <2>2. QED
    BY <1>3, <1>4, <1>19, <2>1, NotToPurge DEF BeginClose, NoCluster, clusterVars
<1>20. ASSUME RequestDeletion(t) PROVE ClusterInv'
  <2>1. /\ UNCHANGED <<row, handle, namespaces>>
        /\ Finish(t) \/ Goto(t, "reconcile")
    BY <1>20 DEF RequestDeletion, NoJournal, journalVars, NoCluster, clusterVars
  <2>2. \A c \in cells' : \E d \in cells : c.source = d.source /\ c.inc = d.inc
    <3>1. ASSUME NEW d \in Resources(Home[t], tasks[t].inc), Delete(d)
          PROVE  \A c \in cells' : \E e \in cells : c.source = e.source /\ c.inc = e.inc
      BY <3>1 DEF Delete, Resources, LifecycleTypeOK
    <3>2. QED
      BY <1>20, <3>1 DEF RequestDeletion, NoCluster, clusterVars
  <2>3. QED
    BY <1>2, <1>4, <2>1, <2>2, NotToPurge, Descends
<1>21. QED
  BY <1>5, <1>6, <1>7, <1>8, <1>9, <1>10, <1>11, <1>12, <1>13, <1>14, <1>15, <1>16,
     <1>17, <1>18, <1>19, <1>20 DEF Step

LEMMA ClustersKept ==
    ASSUME Prompt, LifecycleTypeOK, BooksInv, ClusterInv,
           [LifecycleNext]_lifecycleVars
    PROVE  ClusterInv'
<1>1. ASSUME NEW t \in Tasks, Target(t) \/ Acquire(t) \/ Crash(t) PROVE ClusterInv'
  <2>1. UNCHANGED <<row, handle, cells, namespaces, late>>
    BY <1>1 DEF Prompt, Target, Acquire, Crash, NoJournal, journalVars, NoCluster,
       clusterVars
  <2>2. \A u \in Tasks : tasks'[u].pc = "purge"
                => tasks[u].pc = "purge" /\ tasks'[u].inc = tasks[u].inc
    <3>1. CASE Target(t)
      BY <3>1 DEF Target, Idle, LifecycleTypeOK
    <3>2. CASE Acquire(t)
      <4>1. EntryPoint(t) # "purge"
        BY DEF EntryPoint
      <4>2. QED
        BY <3>2, <4>1 DEF Acquire, Idle, LifecycleTypeOK
    <3>3. CASE Crash(t)
      BY <3>3 DEF Crash, Idle, LifecycleTypeOK
    <3>4. QED
      BY <1>1, <3>1, <3>2, <3>3
  <2>3. QED
    BY <2>1, <2>2, Descends DEF ClusterInv
<1>2. ASSUME NoTask, UNCHANGED <<journalVars, late>>,
             \A c \in cells' : \E d \in cells : c.source = d.source /\ c.inc = d.inc,
             \A n \in namespaces' : \E d \in cells \union namespaces :
                n.source = d.source /\ n.inc = d.inc
      PROVE  ClusterInv'
  BY <1>2, Descends DEF ClusterInv, NoTask, journalVars
<1>3. ASSUME Adopt \/ BeginCleanup \/ DeleteOutside PROVE ClusterInv'
  <2>1. \A c \in cells' : \E d \in cells : c.source = d.source /\ c.inc = d.inc
    BY <1>3 DEF Adopt, BeginCleanup, DeleteOutside, Delete, LifecycleTypeOK
  <2>2. NoTask /\ UNCHANGED <<namespaces, journalVars, late>>
    BY <1>3 DEF Adopt, BeginCleanup, DeleteOutside, NoJournal
  <2>3. QED
    BY <1>2, <2>1, <2>2
<1>4. ASSUME CreateNamespace \/ DeleteNamespace \/ Terminate PROVE ClusterInv'
  <2>1. \A n \in namespaces' : \E d \in cells \union namespaces :
                n.source = d.source /\ n.inc = d.inc
    BY <1>4 DEF CreateNamespace, DeleteNamespace, Terminate, LifecycleTypeOK
  <2>2. NoTask /\ UNCHANGED <<cells, journalVars, late>>
    BY <1>4 DEF CreateNamespace, DeleteNamespace, Terminate, NoJournal
  <2>3. QED
    BY <1>2, <2>1, <2>2
<1>5. ASSUME RemoveFinalizer \/ ReplaceCluster \/ ForceRemove PROVE ClusterInv'
  <2>1. cells' \subseteq cells /\ namespaces' \subseteq namespaces
    BY <1>5 DEF RemoveFinalizer, ReplaceCluster, ForceRemove
  <2>2. NoTask /\ UNCHANGED <<journalVars, late>>
    BY <1>5 DEF RemoveFinalizer, ReplaceCluster, ForceRemove, NoJournal
  <2>3. QED
    BY <1>2, <2>1, <2>2
<1>6. ~Land
  BY DEF Land, ClusterInv
<1>7. CASE UNCHANGED lifecycleVars
  BY <1>2, <1>7 DEF lifecycleVars, clusterVars, NoTask
<1>8. QED
  BY <1>1, <1>3, <1>4, <1>5, <1>6, <1>7, StepClusters DEF LifecycleNext

LEMMA ClustersHold == ASSUME Prompt PROVE LifecycleSpec => []ClusterInv
<1>1. LifecycleInit => ClusterInv
  BY DEF LifecycleInit, ClusterInv, Idle
<1>2. LifecycleTypeOK /\ BooksInv /\ ClusterInv /\ [LifecycleNext]_lifecycleVars
      => ClusterInv'
  BY ClustersKept
<1>3. QED
  BY <1>1, <1>2, BooksHold, PTL DEF LifecycleSpec

(* No purge, by whatever task and after whatever crash, deletion by hand   *)
(* or replacement of a cluster, loses track of a resource or a namespace.  *)
THEOREM NothingIsOrphaned == ASSUME Prompt PROVE LifecycleSpec => []NothingOrphaned
<1>1. ClusterInv => NothingOrphaned
  BY DEF ClusterInv, Owned, NothingOrphaned
<1>2. QED
  BY <1>1, ClustersHold, PTL

(* Tasks that selected different contexts never create one name in two     *)
(* clusters.                                                               *)
THEOREM NamesLiveOnce == ASSUME Prompt PROVE LifecycleSpec => []OneClusterPerName
<1>1. ClusterInv => OneClusterPerName
  BY DEF ClusterInv, Owned, OneClusterPerName
<1>2. QED
  BY <1>1, ClustersHold, PTL
=============================================================================
