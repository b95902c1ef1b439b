--------------------------- MODULE TransferProofs --------------------------
(***************************************************************************)
(* Theorems about PrivateTransfer and their proofs.                        *)
(*                                                                         *)
(* The inductive invariant has a part for every handle, about its row      *)
(* alone, and a part for every operation, about where its start and its    *)
(* collection stand against that row.                                      *)
(***************************************************************************)
EXTENDS PrivateTransfer, TLAPS

\* What a row says about itself.
HeldRow(t) == t.capture \in {"reserved", "started", "ready", "unknown"}

RowOK(t) ==
    /\ t.capture \in {"absent", "reserved"} => t.producer = NoOne /\ t.sent = "none"
    /\ t.capture \in {"absent", "reserved", "started"} => ~t.delivered
    /\ t.capture = "started" => t.sent # "dirty"
    /\ t.capture = "ready" \/ t.delivered => t.producer # NoOne /\ t.sent = "clean"
    /\ t.capture = "ready" => t.body = t.producer
    /\ HeldRow(t) /\ t.delivered => t.inbox = t.producer
    /\ ~t.delivered => t.inbox = NoPayload
    /\ ~HeldRow(t) => t.body = NoPayload /\ t.inbox = NoPayload
    /\ t.consumer # NoOne => t.delivered
    /\ t.consumer = NoOne => t.received = "none"

\* What it says as long as nobody swept the transfer away.
QuietRow(t) ==
    /\ ~t.receiverInterrupted
    /\ t.capture # "expired"
    /\ t.producer # NoOne /\ t.capture # "started" => t.sent # "none"
    /\ t.capture = "released" /\ t.consumer # NoOne => t.received # "none"

HandleOK(h) ==
    /\ RowOK(transfer[h])
    /\ ~closed /\ h \notin late => QuietRow(transfer[h])

Binds(t, op) == IF op.role = "capture" THEN t.producer = op ELSE t.consumer = op

Ended(exit) == exit \in {"clean", "dirty"}

\* How far a command is: its phase, its stage, the number of its starts, its
\* process and its input, against the row of its transfer.
CommandOK(op, t, ph, st, n, pr, g) ==
    /\ ph = "pending" => n = 0
    /\ st \in {"claimed", "bound", "fenced", "admitted"} => ph = "running" /\ n = 0
    /\ st \in {"bound", "fenced"} => op.role = "consume"
    /\ st \in {"sourced", "copying"} =>
          op.role = "capture" /\ t.sent # "none" /\ t.capture # "ready" /\ ~t.delivered
    /\ st \in {"bound", "fenced", "admitted", "sourced", "copying"} => Binds(t, op)
    /\ n \in {0, 1}
    /\ n = 0 <=> pr = "none"
    /\ n = 1 => Binds(t, op)
    /\ op.role = "consume" /\ Binds(t, op) => op.by = t.destination
    /\ op.role = "consume" /\ (st = "admitted" \/ n = 1) => g = t.producer
    /\ op.role = "capture" /\ Binds(t, op) /\ t.sent # "none" => Ended(pr)
    /\ op.role = "consume" /\ Binds(t, op) /\ t.received # "none" => Ended(pr)

OperationOK(op) ==
    CommandOK(op, transfer[op.handle], phase[op], stage[op], starts[op],
              process[op], given[op])

\* Retention and cleanup.
SweepsOK ==
    /\ expiring \subseteq late
    /\ closing \/ todo # {} \/ halfway # {} \/ verified => closed
    /\ verified => \A h \in Handles : ~HeldRow(transfer[h])

TransferInv ==
    /\ TransferTypeOK
    /\ \A h \in Handles : HandleOK(h)
    /\ \A op \in Operations : OperationOK(op)
    /\ SweepsOK

-----------------------------------------------------------------------------
(* The assumption, as the proofs use it.                                   *)
LEMMA Commands ==
    ASSUME NEW op \in Operations
    PROVE  /\ op.handle \in Handles
           /\ op.role \in {"capture", "consume"}
           /\ op.by \in Authorities
           /\ op # NoOne /\ op # NoPayload /\ op # Garbled
BY TransferAssumption

(* A transaction replaces the row of one transfer.                         *)
LEMMA Saving ==
    ASSUME TransferTypeOK, NEW h \in Handles, NEW t \in Transfers, Save(h, t)
    PROVE  /\ transfer' \in [Handles -> Transfers]
           /\ transfer'[h] = t
           /\ \A g \in Handles : g # h => transfer'[g] = transfer[g]
BY DEF Save, TransferTypeOK

LEMMA AbsentType == Absent \in Transfers
BY DEF Absent, Transfers, Authorities, Payloads, Receipts

LEMMA InterruptedType ==
    ASSUME NEW t \in Transfers
    PROVE  LET u == Interrupted(t) IN
           /\ u \in Transfers
           /\ u.capture = IF t.capture = "started" THEN "unknown" ELSE t.capture
           /\ u.destination = t.destination
           /\ u.producer = t.producer /\ u.consumer = t.consumer
           /\ u.sent = t.sent /\ u.received = t.received
           /\ u.manifest = t.manifest /\ u.delivered = t.delivered
           /\ u.body = t.body /\ u.inbox = t.inbox
           /\ u.receiverInterrupted =
                 (t.receiverInterrupted \/ (t.consumer # NoOne /\ t.received = "none"))
BY DEF Interrupted, Transfers

LEMMA ErasedType ==
    ASSUME NEW t \in Transfers, NEW end \in {"released", "expired"}
    PROVE  LET u == Erased(t, end) IN
           /\ u \in Transfers
           /\ u.capture = end
           /\ u.body = NoPayload /\ u.inbox = NoPayload
           /\ u.destination = t.destination
           /\ u.producer = t.producer /\ u.consumer = t.consumer
           /\ u.sent = t.sent /\ u.received = t.received
           /\ u.manifest = t.manifest /\ u.delivered = t.delivered
           /\ u.receiverInterrupted = t.receiverInterrupted
BY DEF Erased, Transfers, Payloads

-----------------------------------------------------------------------------
(* Type correctness, action by action.                                     *)
LEMMA TypeInit == TransferInit => TransferTypeOK
<1> SUFFICES ASSUME TransferInit PROVE TransferTypeOK
  OBVIOUS
<1>1. transfer \in [Handles -> Transfers]
  BY AbsentType DEF TransferInit
<1>2. /\ phase \in [Operations -> {"pending", "cancelling", "running", "refused",
                                  "cancelled", "finished", "failed"}]
      /\ stage \in [Operations -> {"idle", "configured", "claimed", "bound",
                                  "fenced", "admitted", "sourced", "copying",
                                  "collected"}]
      /\ process \in [Operations -> {"none", "running", "clean", "dirty"}]
  BY DEF TransferInit
<1>3. starts \in [Operations -> Nat] /\ given \in [Operations -> Payloads]
  BY DEF TransferInit, Payloads
<1>4. 0 \in 0..MaxCrashes
  BY TransferAssumption
<1>5. QED
  BY <1>1, <1>2, <1>3, <1>4 DEF TransferInit, TransferTypeOK

(* What an action leaves of the types when it saves one row.               *)
LEMMA TypeOfRow ==
    ASSUME TransferTypeOK, NEW h \in Handles, NEW t \in Transfers, Save(h, t),
           UNCHANGED <<closed, late, action, stage, native, sweeps, crashes>>
    PROVE  TransferTypeOK'
BY Saving DEF TransferTypeOK, action, native, sweeps

LEMMA TypeRetain ==
    ASSUME TransferTypeOK, NEW h \in Handles, Retain(h)
    PROVE  TransferTypeOK'
<1> DEFINE t == transfer[h]
<1>1. t \in Transfers
  BY DEF TransferTypeOK
<1>2. Interrupted(t) \in Transfers
  BY <1>1, InterruptedType
<1>3. Erased(t, "expired") \in Transfers /\ Erased(t, "released") \in Transfers
  BY <1>1, ErasedType
<1>4. CASE Expires(h)
  BY <1>4 DEF Expires, TransferTypeOK, action, native, sweeps
<1>5. CASE ExpireInterrupt(h)
  BY <1>5, <1>2, Saving DEF ExpireInterrupt, TransferTypeOK, action, native
<1>6. CASE ExpireErase(h)
  BY <1>6, <1>3, Saving DEF ExpireErase, TransferTypeOK, action, native
<1>7. CASE CloseInterrupt(h)
  BY <1>7, <1>2, Saving DEF CloseInterrupt, TransferTypeOK, action, native
<1>8. CASE CloseErase(h)
  BY <1>8, <1>3, Saving DEF CloseErase, TransferTypeOK, action, native
<1>9. QED
  BY <1>4, <1>5, <1>6, <1>7, <1>8 DEF Retain

LEMMA TypeCall ==
    ASSUME TransferTypeOK, NEW h \in Handles,
           Prepare(h) \/ Deliver(h) \/ Release(h) \/ \E r \in Recipients : Handoff(h, r)
    PROVE  TransferTypeOK'
<1> DEFINE t == transfer[h]
<1>1. t \in Transfers
  BY DEF TransferTypeOK
<1>2. CASE Prepare(h)
  <2>1. [Absent EXCEPT !.capture = "reserved"] \in Transfers
    BY AbsentType DEF Transfers
  <2>2. QED
    BY <1>2, <2>1, TypeOfRow DEF Prepare
<1>3. CASE Deliver(h)
  <2>1. [t EXCEPT !.delivered = TRUE, !.inbox = t.body] \in Transfers
    BY <1>1 DEF Transfers
  <2>2. QED
    BY <1>3, <2>1, TypeOfRow DEF Deliver
<1>4. CASE Release(h)
  BY <1>1, <1>4, ErasedType, TypeOfRow DEF Release
<1>5. CASE \E r \in Recipients : Handoff(h, r)
  <2>1. PICK r \in Recipients : Handoff(h, r)
    BY <1>5
  <2>2. [t EXCEPT !.destination = r] \in Transfers
    BY <1>1 DEF Transfers, Authorities
  <2>3. QED
    BY <2>1, <2>2, TypeOfRow DEF Handoff
<1>6. QED
  BY <1>2, <1>3, <1>4, <1>5

(* The start and the collection of a command.                              *)
LEMMA TypeStart ==
    ASSUME TransferTypeOK, NEW op \in Operations, Start(op)
    PROVE  TransferTypeOK'
<1> DEFINE t == Transfer(op)
<1>1. t \in Transfers /\ op.handle \in Handles /\ t = transfer[op.handle]
  BY Commands DEF TransferTypeOK, Transfer
<1>2. Interrupted(t) \in Transfers
  BY <1>1, InterruptedType
<1> USE DEF action, native, sweeps, vault, Goto, Conclude
<1>3. CASE Configure(op) \/ Claim(op) \/ RefuseStart(op) \/ Cancel(op)
           \/ FinishCancel(op) \/ InputLost(op)
  BY <1>3 DEF Configure, Claim, RefuseStart, Cancel, FinishCancel, InputLost,
              TransferTypeOK
<1>4. CASE Begin(op)
  <2>1. /\ [t EXCEPT !.capture = "started", !.producer = op] \in Transfers
        /\ [t EXCEPT !.consumer = op] \in Transfers
    BY <1>1 DEF Transfers
  <2>2. transfer' \in [Handles -> Transfers]
    BY <1>1, <1>4, <2>1, Saving DEF Begin
  <2>3. QED
    BY <1>4, <2>2 DEF Begin, TransferTypeOK
<1>5. CASE Fence(op)
  <2>1. [t EXCEPT !.inputStarted = TRUE] \in Transfers
    BY <1>1 DEF Transfers
  <2>2. transfer' \in [Handles -> Transfers]
    BY <1>1, <1>5, <2>1, Saving DEF Fence, TransferTypeOK
  <2>3. QED
    BY <1>5, <2>2 DEF Fence, TransferTypeOK
<1>6. CASE HandOver(op)
  <2>1. transfer' \in [Handles -> Transfers]
    BY <1>1, <1>2, <1>6, Saving DEF HandOver, TransferTypeOK
  <2>2. t.inbox \in Payloads
    BY <1>1 DEF Transfers
  <2>3. QED
    BY <1>6, <2>1, <2>2 DEF HandOver, TransferTypeOK
<1>7. CASE Launch(op)
  BY <1>7 DEF Launch, TransferTypeOK
<1>8. QED
  BY <1>3, <1>4, <1>5, <1>6, <1>7 DEF Start

LEMMA TypeCollect ==
    ASSUME TransferTypeOK, NEW op \in Operations, Collect(op)
    PROVE  TransferTypeOK'
<1> DEFINE t == Transfer(op)
<1>1. t \in Transfers /\ op.handle \in Handles /\ t = transfer[op.handle]
  BY Commands DEF TransferTypeOK, Transfer
<1>2. Exited(op) => process[op] \in Receipts
  BY DEF Exited, Receipts
<1> USE DEF action, native, sweeps, vault, Goto, Conclude
<1>3. CASE Exit(op)
  BY <1>3 DEF Exit, TransferTypeOK
<1>4. CASE Finish(op) \/ GiveUp(op)
  BY <1>4 DEF Finish, GiveUp, Polls, TransferTypeOK
<1>5. CASE FinishReceive(op)
  <2>1. [t EXCEPT !.received = IF @ = "none" THEN process[op] ELSE @] \in Transfers
    BY <1>1, <1>2, <1>5 DEF FinishReceive, Transfers
  <2>2. transfer' \in [Handles -> Transfers]
    BY <1>1, <1>5, <2>1, Saving DEF FinishReceive
  <2>3. QED
    BY <1>5, <2>2 DEF FinishReceive, Polls, TransferTypeOK
<1>6. CASE FinishSource(op)
  <2> DEFINE u == [t EXCEPT
                      !.sent = IF @ = "none" THEN process[op] ELSE @,
                      !.capture = IF @ = "started" /\ process[op] = "dirty"
                                  THEN "unknown" ELSE @]
  <2>1. u \in Transfers
    BY <1>1, <1>2, <1>6 DEF FinishSource, Transfers
  <2>2. Save(op.handle, u) /\ stage' = [stage EXCEPT ![op] =
              IF u.capture = "started" THEN "sourced" ELSE "collected"]
    BY <1>6 DEF FinishSource
  <2>3. transfer' \in [Handles -> Transfers]
    BY <1>1, <2>1, <2>2, Saving
  <2>4. QED
    BY <1>6, <2>2, <2>3 DEF FinishSource, Polls, TransferTypeOK
<1>7. CASE InterruptCustody(op)
  <2>1. transfer' \in [Handles -> Transfers]
    BY <1>1, <1>7, InterruptedType, Saving DEF InterruptCustody
  <2>2. QED
    BY <1>7, <2>1 DEF InterruptCustody, TransferTypeOK
<1>8. CASE KeepManifest(op)
  <2>1. [t EXCEPT !.manifest = TRUE] \in Transfers
    BY <1>1 DEF Transfers
  <2>2. transfer' \in [Handles -> Transfers]
    BY <1>1, <1>8, <2>1, Saving DEF KeepManifest, TransferTypeOK
  <2>3. QED
    BY <1>8, <2>2 DEF KeepManifest, TransferTypeOK
<1>9. CASE CopyPayload(op)
  <2>1. /\ [t EXCEPT !.capture = "ready", !.body = op] \in Transfers
        /\ [t EXCEPT !.capture = "unknown"] \in Transfers
    BY <1>1 DEF Transfers, Payloads
  <2>2. transfer' \in [Handles -> Transfers]
    BY <1>1, <1>9, <2>1, Saving DEF CopyPayload, Intact, TransferTypeOK
  <2>3. stage' \in [Operations -> {"idle", "configured", "claimed", "bound",
                                  "fenced", "admitted", "sourced", "copying",
                                  "collected"}]
    BY <1>9 DEF CopyPayload, TransferTypeOK
  <2>4. QED
    BY <1>9, <2>2, <2>3 DEF CopyPayload, TransferTypeOK
<1>10. QED
  BY <1>3, <1>4, <1>5, <1>6, <1>7, <1>8, <1>9 DEF Collect

LEMMA TypeNext ==
    TransferTypeOK /\ [TransferNext]_vars => TransferTypeOK'
<1> SUFFICES ASSUME TransferTypeOK, [TransferNext]_vars PROVE TransferTypeOK'
  OBVIOUS
<1>1. CASE \E h \in Handles : Prepare(h) \/ Deliver(h) \/ Release(h) \/ Retain(h)
  BY <1>1, TypeCall, TypeRetain
<1>2. CASE \E h \in Handles, r \in Recipients : Handoff(h, r)
  BY <1>2, TypeCall
<1>3. CASE \E op \in Operations : Start(op) \/ Collect(op)
  BY <1>3, TypeStart, TypeCollect
<1>4. CASE Close \/ Verify
  BY <1>4 DEF Close, Verify, TransferTypeOK, vault, action, native
<1>5. CASE Crash
  <2>1. MaxCrashes \in Nat
    BY TransferAssumption
  <2>2. crashes' \in 0..MaxCrashes
    BY <1>5, <2>1 DEF Crash, TransferTypeOK
  <2>3. stage' \in [Operations -> {"idle", "configured", "claimed", "bound",
                                  "fenced", "admitted", "sourced", "copying",
                                  "collected"}]
    BY <1>5 DEF Crash
  <2>4. QED
    BY <1>5, <2>2, <2>3 DEF Crash, TransferTypeOK, vault, action, native
<1>6. CASE UNCHANGED vars
  BY <1>6 DEF vars, vault, action, native, sweeps, TransferTypeOK
<1>7. QED
  BY <1>1, <1>2, <1>3, <1>4, <1>5, <1>6 DEF TransferNext

-----------------------------------------------------------------------------
(* What the changes of one row do to the row's part of the invariant.      *)

(* The row of a change of the other commands' making: whatever it is, it   *)
(* rebinds no side and redirects no bound one, and touches the receipts of *)
(* its own command only.                                                   *)
Bystands(op, t, u) ==
    /\ t.producer # NoOne => u.producer = t.producer
    /\ t.consumer # NoOne => u.consumer = t.consumer /\ u.destination = t.destination
    /\ u.producer = op => t.producer = op /\ u.sent = t.sent
    /\ u.consumer = op => t.consumer = op /\ u.received = t.received
    /\ t.sent # "none" => u.sent = t.sent
    /\ t.producer = op /\ u.capture = "ready" => t.capture = "ready"
    /\ t.producer = op /\ u.delivered => t.delivered \/ t.capture = "ready"

LEMMA BystanderKept ==
    ASSUME NEW op \in Operations, NEW t \in Transfers, NEW u \in Transfers,
           NEW ph, NEW st, NEW n, NEW pr, NEW g,
           RowOK(t), CommandOK(op, t, ph, st, n, pr, g), Bystands(op, t, u)
    PROVE  CommandOK(op, u, ph, st, n, pr, g)
<1>1. op # NoOne /\ op.role \in {"capture", "consume"}
  BY Commands
<1>2. Binds(t, op) => Binds(u, op)
  BY <1>1 DEF Binds, Bystands
<1>3. Binds(u, op) => Binds(t, op)
  BY <1>1 DEF Binds, Bystands
<1>4. ASSUME op.role = "consume", Binds(t, op)
      PROVE  u.destination = t.destination /\ u.producer = t.producer
             /\ u.received = t.received
  BY <1>1, <1>4 DEF Binds, Bystands, RowOK
<1>5. ASSUME op.role = "capture", Binds(t, op)
      PROVE  /\ u.sent = t.sent
             /\ u.capture = "ready" => t.capture = "ready"
             /\ u.delivered => t.delivered \/ t.capture = "ready"
  BY <1>1, <1>5 DEF Binds, Bystands
<1>6. st \in {"sourced", "copying"} =>
         op.role = "capture" /\ u.sent # "none" /\ u.capture # "ready" /\ ~u.delivered
  BY <1>5 DEF CommandOK
<1>7. QED
  BY <1>1, <1>2, <1>3, <1>4, <1>5, <1>6 DEF CommandOK

(* An interruption.                                                        *)
LEMMA InterruptedRow ==
    ASSUME NEW t \in Transfers, RowOK(t)
    PROVE  LET u == Interrupted(t) IN
           /\ RowOK(u)
           /\ HeldRow(u) = HeldRow(t)
           /\ \A op : Bystands(op, t, u)
<1> DEFINE u == Interrupted(t)
<1>1. /\ u.capture = IF t.capture = "started" THEN "unknown" ELSE t.capture
      /\ u.destination = t.destination
      /\ u.producer = t.producer /\ u.consumer = t.consumer
      /\ u.sent = t.sent /\ u.received = t.received
      /\ u.delivered = t.delivered
      /\ u.body = t.body /\ u.inbox = t.inbox
  BY InterruptedType
<1> HIDE DEF u
<1>2. HeldRow(u) = HeldRow(t)
  BY <1>1 DEF HeldRow
<1>3. RowOK(u)
  BY <1>1, <1>2 DEF RowOK
<1>4. \A op : Bystands(op, t, u)
  BY <1>1 DEF Bystands
<1>5. QED
  BY <1>2, <1>3, <1>4 DEF u

(* An erasure.                                                             *)
LEMMA ErasedRow ==
    ASSUME NEW t \in Transfers, RowOK(t), NEW end \in {"released", "expired"}
    PROVE  LET u == Erased(t, end) IN
           /\ RowOK(u)
           /\ ~HeldRow(u)
           /\ \A op : Bystands(op, t, u)
<1> DEFINE u == Erased(t, end)
<1>1. /\ u.capture = end
      /\ u.body = NoPayload /\ u.inbox = NoPayload
      /\ u.destination = t.destination
      /\ u.producer = t.producer /\ u.consumer = t.consumer
      /\ u.sent = t.sent /\ u.received = t.received
      /\ u.delivered = t.delivered
  BY ErasedType
<1> HIDE DEF u
<1>2. ~HeldRow(u)
  BY <1>1 DEF HeldRow
<1>3. RowOK(u)
  BY <1>1, <1>2 DEF RowOK
<1>4. \A op : Bystands(op, t, u)
  BY <1>1 DEF Bystands
<1>5. QED
  BY <1>2, <1>3, <1>4 DEF u

-----------------------------------------------------------------------------
(* The frame of an action that saves one row.                              *)
LEMMA RowsKept ==
    ASSUME TransferInv, NEW h \in Handles, NEW u \in Transfers, Save(h, u),
           RowOK(u), closed' = closed, late' = late,
           ~closed /\ h \notin late => QuietRow(u)
    PROVE  \A g \in Handles : HandleOK(g)'
<1>1. /\ transfer'[h] = u
      /\ \A g \in Handles : g # h => transfer'[g] = transfer[g]
  BY Saving DEF TransferInv
<1>2. \A g \in Handles : HandleOK(g)
  BY DEF TransferInv
<1>3. SUFFICES ASSUME NEW g \in Handles PROVE HandleOK(g)'
  OBVIOUS
<1>4. CASE g = h
  BY <1>1, <1>4 DEF HandleOK
<1>5. CASE g # h
  BY <1>1, <1>2, <1>5 DEF HandleOK
<1>6. QED
  BY <1>4, <1>5

(* The standing of a command whose row is changed by others, or not at all. *)
Still(op) ==
    /\ phase'[op] = phase[op] /\ stage'[op] = stage[op]
    /\ starts'[op] = starts[op] /\ process'[op] = process[op]
    /\ given'[op] = given[op]

LEMMA OthersKept ==
    ASSUME TransferInv, NEW h \in Handles, NEW u \in Transfers, Save(h, u),
           NEW op \in Operations, Still(op),
           op.handle = h => Bystands(op, transfer[h], u)
    PROVE  OperationOK(op)'
<1>1. /\ transfer'[h] = u
      /\ \A g \in Handles : g # h => transfer'[g] = transfer[g]
  BY Saving DEF TransferInv
<1>2. op.handle \in Handles
  BY Commands
<1>3. OperationOK(op) /\ HandleOK(h) /\ transfer[h] \in Transfers
  BY DEF TransferInv, TransferTypeOK
<1>4. CASE op.handle = h
  <2>1. CommandOK(op, u, phase[op], stage[op], starts[op], process[op], given[op])
    BY <1>3, <1>4, BystanderKept DEF OperationOK, HandleOK
  <2>2. QED
    BY <1>1, <1>4, <2>1 DEF OperationOK, Still
<1>5. CASE op.handle # h
  BY <1>1, <1>2, <1>3, <1>5 DEF OperationOK, Still
<1>6. QED
  BY <1>4, <1>5

(* A cleanup that is verified stays so: no change gives a row its payloads *)
(* back but in an open vault.                                              *)
LEMMA SweepsKept ==
    ASSUME TransferInv, NEW h \in Handles, NEW u \in Transfers, Save(h, u),
           UNCHANGED <<closed, late, sweeps>>,
           HeldRow(u) => HeldRow(transfer[h]) \/ ~closed
    PROVE  SweepsOK'
<1>1. /\ transfer'[h] = u
      /\ \A g \in Handles : g # h => transfer'[g] = transfer[g]
  BY Saving DEF TransferInv
<1>2. SweepsOK
  BY DEF TransferInv
<1>3. verified => \A g \in Handles : ~HeldRow(transfer'[g])
  BY <1>1, <1>2 DEF SweepsOK
<1>4. QED
  BY <1>2, <1>3 DEF SweepsOK, sweeps

(* A call of the vault or of a sweep, which no command takes part in.      *)
LEMMA CallKept ==
    ASSUME TransferInv, NEW h \in Handles, NEW u \in Transfers, Save(h, u),
           TransferTypeOK', UNCHANGED <<closed, late, action, stage, native>>,
           RowOK(u), ~closed /\ h \notin late => QuietRow(u),
           \A op \in Operations : Bystands(op, transfer[h], u)
    PROVE  /\ \A g \in Handles : HandleOK(g)'
           /\ \A op \in Operations : OperationOK(op)'
<1>1. \A g \in Handles : HandleOK(g)'
  BY RowsKept
<1>2. ASSUME NEW op \in Operations PROVE OperationOK(op)'
  BY OthersKept DEF Still, action, native
<1>3. QED
  BY <1>1, <1>2

LEMMA PrepareKeeps ==
    ASSUME TransferInv, NEW h \in Handles, Prepare(h), TransferTypeOK'
    PROVE  TransferInv'
<1> DEFINE u == [Absent EXCEPT !.capture = "reserved"]
<1>1. /\ u \in Transfers /\ u.capture = "reserved"
      /\ u.producer = NoOne /\ u.consumer = NoOne
      /\ u.sent = "none" /\ u.received = "none"
      /\ ~u.delivered /\ ~u.receiverInterrupted
      /\ u.body = NoPayload /\ u.inbox = NoPayload
  BY AbsentType DEF Absent, Transfers
<1>2. /\ transfer[h].producer = NoOne /\ transfer[h].consumer = NoOne
      /\ transfer[h].sent = "none" /\ transfer[h].received = "none"
  BY DEF Prepare, Absent
<1>3. Save(h, u) /\ ~closed
      /\ UNCHANGED <<closed, late, action, stage, native, sweeps, crashes>>
  BY DEF Prepare, AdmissionOpen
<1> HIDE DEF u
<1>4. RowOK(u) /\ QuietRow(u)
  BY <1>1 DEF RowOK, QuietRow, HeldRow
<1>5. ASSUME NEW op \in Operations PROVE Bystands(op, transfer[h], u)
  BY <1>1, <1>2, Commands DEF Bystands
<1>6. SweepsOK'
  BY <1>1, <1>3, SweepsKept
<1>7. QED
  BY <1>1, <1>3, <1>4, <1>5, <1>6, CallKept DEF TransferInv

LEMMA HandoffKeeps ==
    ASSUME TransferInv, NEW h \in Handles, NEW r \in Recipients, Handoff(h, r),
           TransferTypeOK'
    PROVE  TransferInv'
<1> DEFINE t == transfer[h]
           u == [t EXCEPT !.destination = r]
<1>1. t \in Transfers /\ RowOK(t) /\ (~closed /\ h \notin late => QuietRow(t))
  BY DEF TransferInv, TransferTypeOK, HandleOK
<1>2. /\ u \in Transfers /\ u.capture = t.capture
      /\ u.producer = t.producer /\ u.consumer = t.consumer
      /\ u.sent = t.sent /\ u.received = t.received
      /\ u.delivered = t.delivered /\ u.receiverInterrupted = t.receiverInterrupted
      /\ u.body = t.body /\ u.inbox = t.inbox
  BY <1>1 DEF Transfers, Authorities
<1>3. Save(h, u) /\ t.consumer = NoOne
      /\ UNCHANGED <<closed, late, action, stage, native, sweeps, crashes>>
  BY DEF Handoff, MayHandOff
<1> HIDE DEF t, u
<1>4. RowOK(u) /\ (QuietRow(t) => QuietRow(u)) /\ (HeldRow(u) => HeldRow(t))
  BY <1>1, <1>2 DEF RowOK, QuietRow, HeldRow
<1>5. ASSUME NEW op \in Operations PROVE Bystands(op, t, u)
  BY <1>2, <1>3, Commands DEF Bystands
<1>6. SweepsOK'
  BY <1>2, <1>3, <1>4, SweepsKept DEF t
<1>7. QED
  BY <1>1, <1>2, <1>3, <1>4, <1>5, <1>6, CallKept DEF TransferInv, t

LEMMA DeliverKeeps ==
    ASSUME TransferInv, NEW h \in Handles, Deliver(h), TransferTypeOK'
    PROVE  TransferInv'
<1> DEFINE t == transfer[h]
           u == [t EXCEPT !.delivered = TRUE, !.inbox = t.body]
<1>1. t \in Transfers /\ RowOK(t) /\ (~closed /\ h \notin late => QuietRow(t))
  BY DEF TransferInv, TransferTypeOK, HandleOK
<1>2. /\ u \in Transfers /\ u.capture = t.capture /\ u.destination = t.destination
      /\ u.producer = t.producer /\ u.consumer = t.consumer
      /\ u.sent = t.sent /\ u.received = t.received
      /\ u.delivered /\ u.receiverInterrupted = t.receiverInterrupted
      /\ u.body = t.body /\ u.inbox = t.body
  BY <1>1 DEF Transfers
<1>3. Save(h, u) /\ t.capture = "ready"
      /\ UNCHANGED <<closed, late, action, stage, native, sweeps, crashes>>
  BY DEF Deliver
<1> HIDE DEF t, u
<1>4. RowOK(u) /\ (QuietRow(t) => QuietRow(u)) /\ (HeldRow(u) => HeldRow(t))
  BY <1>1, <1>2, <1>3 DEF RowOK, QuietRow, HeldRow
<1>5. ASSUME NEW op \in Operations PROVE Bystands(op, t, u)
  BY <1>2, <1>3, Commands DEF Bystands
<1>6. SweepsOK'
  BY <1>2, <1>3, <1>4, SweepsKept DEF t
<1>7. QED
  BY <1>1, <1>2, <1>3, <1>4, <1>5, <1>6, CallKept DEF TransferInv, t

LEMMA ReleaseKeeps ==
    ASSUME TransferInv, NEW h \in Handles, Release(h), TransferTypeOK'
    PROVE  TransferInv'
<1> DEFINE t == transfer[h]
           u == Erased(t, "released")
<1>1. t \in Transfers /\ RowOK(t) /\ (~closed /\ h \notin late => QuietRow(t))
  BY DEF TransferInv, TransferTypeOK, HandleOK
<1>2. Save(h, u) /\ ~Busy(t)
      /\ UNCHANGED <<closed, late, action, stage, native, sweeps, crashes>>
  BY DEF Release
<1>3. u \in Transfers /\ RowOK(u) /\ ~HeldRow(u) /\ \A op : Bystands(op, t, u)
  BY <1>1, ErasedType, ErasedRow
<1>4. /\ u.capture = "released" /\ u.producer = t.producer /\ u.consumer = t.consumer
      /\ u.sent = t.sent /\ u.received = t.received
      /\ u.receiverInterrupted = t.receiverInterrupted
  BY <1>1, ErasedType
<1> HIDE DEF t, u
<1>5. QuietRow(t) => QuietRow(u)
  BY <1>2, <1>4 DEF QuietRow, Busy, Unresolved
<1>6. SweepsOK'
  BY <1>2, <1>3, SweepsKept
<1>7. QED
  BY <1>1, <1>2, <1>3, <1>5, <1>6, CallKept DEF TransferInv, t

LEMMA ExpiresKeeps ==
    ASSUME TransferInv, NEW h \in Handles, Expires(h), TransferTypeOK'
    PROVE  TransferInv'
<1>1. /\ late' = late \union {h}
      /\ UNCHANGED <<transfer, closed, action, stage, native, sweeps, crashes>>
  BY DEF Expires
<1>2. \A g \in Handles : HandleOK(g)'
  BY <1>1 DEF TransferInv, HandleOK
<1>3. \A op \in Operations : OperationOK(op)'
  BY <1>1 DEF TransferInv, OperationOK, action, native
<1>4. SweepsOK'
  BY <1>1 DEF TransferInv, SweepsOK, sweeps
<1>5. QED
  BY <1>2, <1>3, <1>4 DEF TransferInv

(* A sweep interrupts and erases in a vault that is closed, or past the    *)
(* retention of the transfer.                                              *)
LEMMA SweepKeeps ==
    ASSUME TransferInv, NEW h \in Handles, TransferTypeOK',
           ExpireInterrupt(h) \/ ExpireErase(h) \/ CloseInterrupt(h) \/ CloseErase(h)
    PROVE  TransferInv'
<1> DEFINE t == transfer[h]
<1>1. t \in Transfers /\ RowOK(t) /\ SweepsOK
  BY DEF TransferInv, TransferTypeOK, HandleOK
<1>2. PICK u \in Transfers :
         Save(h, u) /\ u \in {Interrupted(t), Erased(t, "expired"), Erased(t, "released")}
  BY <1>1, InterruptedType, ErasedType
     DEF ExpireInterrupt, ExpireErase, CloseInterrupt, CloseErase
<1>3. RowOK(u) /\ (HeldRow(u) => HeldRow(t)) /\ \A op : Bystands(op, t, u)
  BY <1>1, <1>2, InterruptedRow, ErasedRow
<1>4. closed \/ h \in late
  BY <1>1 DEF SweepsOK, ExpireInterrupt, ExpireErase, CloseInterrupt, CloseErase
<1>5. /\ UNCHANGED <<closed, late, action, stage, native, crashes, closing, verified>>
      /\ expiring' \subseteq expiring \union (IF h \in late THEN {h} ELSE {})
      /\ todo' \subseteq todo
      /\ halfway' # {} => todo # {} \/ halfway # {}
  BY DEF ExpireInterrupt, ExpireErase, CloseInterrupt, CloseErase
<1>6. /\ transfer'[h] = u
      /\ \A g \in Handles : g # h => transfer'[g] = transfer[g]
  BY <1>2, Saving DEF TransferInv
<1>7. SweepsOK'
  <2>1. expiring' \subseteq late'
    BY <1>1, <1>5 DEF SweepsOK
  <2>2. closing' \/ todo' # {} \/ halfway' # {} \/ verified' => closed'
    BY <1>1, <1>5 DEF SweepsOK
  <2>3. verified' => \A g \in Handles : ~HeldRow(transfer'[g])
    BY <1>1, <1>3, <1>5, <1>6 DEF SweepsOK
  <2>4. QED
    BY <2>1, <2>2, <2>3 DEF SweepsOK
<1>8. QED
  BY <1>2, <1>3, <1>4, <1>5, <1>7, CallKept DEF TransferInv

(* The beginning and the end of a close call, and a restart.               *)
LEMMA CloseKeeps ==
    ASSUME TransferInv, Close \/ Verify \/ Crash, TransferTypeOK'
    PROVE  TransferInv'
<1>1. /\ UNCHANGED <<transfer, late, action, native>>
      /\ closed => closed'
      /\ (closed' = closed) \/ Close
  BY DEF Close, Verify, Crash, vault
<1>2. \A h \in Handles : HandleOK(h)'
  BY <1>1 DEF TransferInv, HandleOK, TransferTypeOK
<1>3. ASSUME NEW op \in Operations PROVE OperationOK(op)'
  <2>1. OperationOK(op)
    BY DEF TransferInv
  <2>2. stage'[op] \in {stage[op], "idle"}
    BY DEF Close, Verify, Crash
  <2>3. QED
    BY <1>1, <2>1, <2>2 DEF OperationOK, CommandOK, action, native
<1>4. SweepsOK'
  <2>1. CASE Close
    BY <1>1, <2>1 DEF TransferInv, SweepsOK, Close
  <2>2. CASE Verify
    BY <1>1, <2>2 DEF TransferInv, SweepsOK, Verify, vault, Held, HeldRow
  <2>3. CASE Crash
    BY <1>1, <2>3 DEF TransferInv, SweepsOK, Crash, vault
  <2>4. QED
    BY <2>1, <2>2, <2>3
<1>5. QED
  BY <1>2, <1>3, <1>4 DEF TransferInv

-----------------------------------------------------------------------------
(* The steps of a command.                                                 *)
OnlyMoves(op) == \A q \in Operations : q # op => Still(q)

(* A step that leaves the vault alone.                                     *)
LEMMA MoveKept ==
    ASSUME TransferInv, NEW op \in Operations, UNCHANGED <<vault, sweeps>>,
           OnlyMoves(op), OperationOK(op)', TransferTypeOK'
    PROVE  TransferInv'
<1>1. \A h \in Handles : HandleOK(h)'
  BY DEF TransferInv, HandleOK, vault
<1>2. ASSUME NEW q \in Operations, q # op PROVE OperationOK(q)'
  BY <1>2 DEF TransferInv, OperationOK, OnlyMoves, Still, vault
<1>3. SweepsOK'
  BY DEF TransferInv, SweepsOK, vault, sweeps
<1>4. QED
  BY <1>1, <1>2, <1>3 DEF TransferInv

(* A step that also saves the row of the command's transfer.               *)
LEMMA StepKept ==
    ASSUME TransferInv, NEW op \in Operations, NEW u \in Transfers,
           Save(op.handle, u), UNCHANGED <<closed, late, sweeps>>,
           OnlyMoves(op), TransferTypeOK',
           RowOK(u), ~closed /\ op.handle \notin late => QuietRow(u),
           HeldRow(u) => HeldRow(transfer[op.handle]) \/ ~closed,
           \A q \in Operations : q # op => Bystands(q, transfer[op.handle], u),
           CommandOK(op, u, phase'[op], stage'[op], starts'[op], process'[op], given'[op])
    PROVE  TransferInv'
<1>1. op.handle \in Handles
  BY Commands
<1>2. \A h \in Handles : HandleOK(h)'
  BY <1>1, RowsKept
<1>3. ASSUME NEW q \in Operations, q # op PROVE OperationOK(q)'
  BY <1>1, <1>3, OthersKept DEF OnlyMoves
<1>4. OperationOK(op)'
  <2>1. transfer'[op.handle] = u
    BY <1>1, Saving DEF TransferInv
  <2>2. QED
    BY <2>1 DEF OperationOK
<1>5. SweepsOK'
  BY <1>1, SweepsKept
<1>6. QED
  BY <1>2, <1>3, <1>4, <1>5 DEF TransferInv

LEMMA MovesKeep ==
    ASSUME TransferInv, NEW op \in Operations, TransferTypeOK',
           \/ Configure(op) \/ Claim(op) \/ RefuseStart(op) \/ Launch(op)
           \/ InputLost(op) \/ Cancel(op) \/ FinishCancel(op)
           \/ Exit(op) \/ Finish(op) \/ GiveUp(op)
    PROVE  TransferInv'
<1> DEFINE t == Transfer(op)
<1>1. TransferTypeOK /\ t = transfer[op.handle]
      /\ CommandOK(op, t, phase[op], stage[op], starts[op], process[op], given[op])
  BY DEF TransferInv, OperationOK, Transfer
<1> HIDE DEF t
<1>2. UNCHANGED <<vault, sweeps>>
  BY DEF Configure, Claim, RefuseStart, Launch, InputLost, Cancel, FinishCancel,
         Exit, Finish, GiveUp
<1>3. OnlyMoves(op)
  BY <1>1 DEF TransferTypeOK, OnlyMoves, Still, Configure, Claim, RefuseStart, Launch,
              InputLost, Cancel, FinishCancel, Exit, Finish, GiveUp, Polls,
              action, native, Goto, Conclude
<1>4. given' = given
  BY DEF Configure, Claim, RefuseStart, Launch, InputLost, Cancel, FinishCancel,
         Exit, Finish, GiveUp, native
<1>5. CommandOK(op, t, phase'[op], stage'[op], starts'[op], process'[op], given'[op])
  <2> USE DEF action, native, Goto, Conclude
  <2>1. CASE Configure(op) \/ Claim(op) \/ RefuseStart(op) \/ InputLost(op)
             \/ Cancel(op) \/ FinishCancel(op) \/ Finish(op) \/ GiveUp(op)
    <3>1. process' = process /\ starts' = starts
      BY <2>1 DEF Configure, Claim, RefuseStart, InputLost, Cancel, FinishCancel,
                  Finish, GiveUp
    <3>2. \/ /\ phase'[op] \in {phase[op], "refused", "cancelling", "cancelled",
                                "finished", "failed"}
             /\ stage'[op] \in {"idle", "configured"}
          \/ /\ phase[op] = "pending" /\ phase'[op] = "running"
             /\ stage'[op] = "claimed"
          \/ /\ stage'[op] = stage[op]
             /\ stage[op] \in {"idle", "configured"} \/ phase[op] # "running"
             /\ phase'[op] \in {"refused", "cancelling"}
          \/ /\ stage'[op] = stage[op]
             /\ stage[op] = "idle" /\ phase'[op] \in {"cancelled", "failed"}
      BY <1>1, <2>1 DEF TransferTypeOK, Configure, Claim, RefuseStart, InputLost,
                        Cancel, FinishCancel, Finish, GiveUp, Polls
    <3>3. QED
      BY <1>1, <1>4, <3>1, <3>2 DEF CommandOK
  <2>2. CASE Launch(op)
    <3>1. /\ stage[op] = "admitted" /\ stage'[op] = "idle" /\ phase' = phase
          /\ \/ process'[op] = "running" /\ starts'[op] = starts[op] + 1
             \/ process'[op] = process[op] /\ starts'[op] = starts[op]
      BY <1>1, <2>2 DEF TransferTypeOK, Launch
    <3>2. QED
      BY <1>1, <1>4, <3>1 DEF CommandOK, Ended
  <2>3. CASE Exit(op)
    <3>1. /\ process[op] = "running" /\ Ended(process'[op])
          /\ phase' = phase /\ stage' = stage /\ starts' = starts
      BY <1>1, <2>3 DEF TransferTypeOK, Exit, Ended
    <3>2. QED
      BY <1>1, <1>4, <3>1 DEF CommandOK, Ended
  <2>4. QED
    BY <2>1, <2>2, <2>3
<1>6. OperationOK(op)'
  BY <1>1, <1>2, <1>5 DEF OperationOK, vault
<1>7. QED
  BY <1>2, <1>3, <1>6, MoveKept

(* What a step may use of its command and its row.                         *)
LEMMA StepFacts ==
    ASSUME TransferInv, NEW op \in Operations
    PROVE  LET t == Transfer(op) IN
           /\ t = transfer[op.handle] /\ t \in Transfers /\ op.handle \in Handles
           /\ RowOK(t)
           /\ ~closed /\ op.handle \notin late => QuietRow(t)
           /\ CommandOK(op, t, phase[op], stage[op], starts[op], process[op], given[op])
           /\ op # NoOne /\ op # NoPayload /\ op.role \in {"capture", "consume"}
           /\ op \in DOMAIN phase /\ op \in DOMAIN stage
           /\ op \in DOMAIN starts /\ op \in DOMAIN process /\ op \in DOMAIN given
BY Commands DEF TransferInv, TransferTypeOK, HandleOK, OperationOK, Transfer

LEMMA BeginKeeps ==
    ASSUME TransferInv, NEW op \in Operations, Begin(op), TransferTypeOK'
    PROVE  TransferInv'
<1> DEFINE t == Transfer(op)
<1>1. /\ t = transfer[op.handle] /\ t \in Transfers /\ op.handle \in Handles
      /\ RowOK(t) /\ (~closed /\ op.handle \notin late => QuietRow(t))
      /\ CommandOK(op, t, phase[op], stage[op], starts[op], process[op], given[op])
      /\ op # NoOne /\ op \in DOMAIN stage
  BY StepFacts
<1>2. OnlyMoves(op) /\ UNCHANGED <<closed, late, sweeps>>
      /\ phase' = phase /\ starts' = starts /\ process' = process /\ given' = given
      /\ stage[op] = "claimed"
  BY <1>1 DEF Begin, OnlyMoves, Still, action, native, Goto, TransferTypeOK
<1>3. CASE op.role = "capture"
  <2> DEFINE u == [t EXCEPT !.capture = "started", !.producer = op]
  <2>1. /\ u \in Transfers /\ u.capture = "started" /\ u.destination = t.destination
        /\ u.producer = op /\ u.consumer = t.consumer
        /\ u.sent = t.sent /\ u.received = t.received
        /\ u.delivered = t.delivered /\ u.receiverInterrupted = t.receiverInterrupted
        /\ u.body = t.body /\ u.inbox = t.inbox
    BY <1>1 DEF Transfers
  <2>2. Save(op.handle, u) /\ t.capture = "reserved" /\ stage'[op] = "admitted"
    BY <1>1, <1>3 DEF Begin, MayCapture, Goto
  <2> HIDE DEF u, t
  <2>3. RowOK(u) /\ (QuietRow(t) => QuietRow(u)) /\ HeldRow(t)
    BY <1>1, <2>1, <2>2 DEF RowOK, QuietRow, HeldRow
  <2>4. ASSUME NEW q \in Operations, q # op PROVE Bystands(q, t, u)
    BY <1>1, <2>1, <2>2, <2>4 DEF Bystands, RowOK
  <2>5. CommandOK(op, u, phase'[op], stage'[op], starts'[op], process'[op], given'[op])
    BY <1>1, <1>2, <1>3, <2>1, <2>2 DEF CommandOK, Binds, RowOK
  <2>6. QED
    BY <1>1, <1>2, <2>1, <2>2, <2>3, <2>4, <2>5, StepKept
<1>4. CASE op.role # "capture"
  <2> DEFINE u == [t EXCEPT !.consumer = op]
  <2>1. /\ u \in Transfers /\ u.capture = t.capture /\ u.destination = t.destination
        /\ u.producer = t.producer /\ u.consumer = op
        /\ u.sent = t.sent /\ u.received = t.received
        /\ u.delivered = t.delivered /\ u.receiverInterrupted = t.receiverInterrupted
        /\ u.body = t.body /\ u.inbox = t.inbox
    BY <1>1 DEF Transfers
  <2>2. Save(op.handle, u) /\ t.delivered /\ t.consumer = NoOne
        /\ HeldRow(t) /\ op.by = t.destination /\ op.role = "consume"
        /\ stage'[op] = "bound"
    BY <1>1, <1>4 DEF Begin, MayReceive, Admits, Usable, Held, HeldRow, Goto
  <2> HIDE DEF u, t
  <2>3. RowOK(u) /\ (QuietRow(t) => QuietRow(u))
    BY <1>1, <2>1, <2>2 DEF RowOK, QuietRow, HeldRow
  <2>4. ASSUME NEW q \in Operations, q # op PROVE Bystands(q, t, u)
    BY <1>1, <2>1, <2>2, <2>4 DEF Bystands
  <2>5. CommandOK(op, u, phase'[op], stage'[op], starts'[op], process'[op], given'[op])
    BY <1>1, <1>2, <2>1, <2>2 DEF CommandOK, Binds, RowOK
  <2>6. QED
    BY <1>1, <1>2, <2>1, <2>2, <2>3, <2>4, <2>5, StepKept
<1>5. QED
  BY <1>3, <1>4

LEMMA FenceKeeps ==
    ASSUME TransferInv, NEW op \in Operations, Fence(op), TransferTypeOK'
    PROVE  TransferInv'
<1> DEFINE t == Transfer(op)
           u == [t EXCEPT !.inputStarted = TRUE]
<1>1. /\ t = transfer[op.handle] /\ t \in Transfers /\ op.handle \in Handles
      /\ RowOK(t) /\ (~closed /\ op.handle \notin late => QuietRow(t))
      /\ CommandOK(op, t, phase[op], stage[op], starts[op], process[op], given[op])
      /\ op # NoOne /\ op \in DOMAIN stage /\ op \in DOMAIN phase
  BY StepFacts
<1>2. OnlyMoves(op) /\ UNCHANGED <<closed, late, sweeps>>
      /\ starts' = starts /\ process' = process /\ given' = given
      /\ stage[op] = "bound"
  BY <1>1 DEF Fence, OnlyMoves, Still, native, Goto, Conclude, TransferTypeOK
<1>3. CASE MayConsume(op)
  <2>1. /\ u \in Transfers /\ u.capture = t.capture /\ u.destination = t.destination
        /\ u.producer = t.producer /\ u.consumer = t.consumer
        /\ u.sent = t.sent /\ u.received = t.received
        /\ u.delivered = t.delivered /\ u.receiverInterrupted = t.receiverInterrupted
        /\ u.body = t.body /\ u.inbox = t.inbox
    BY <1>1 DEF Transfers
  <2>2. Save(op.handle, u) /\ phase' = phase /\ stage'[op] = "fenced"
    BY <1>1, <1>3 DEF Fence, Goto
  <2> HIDE DEF u, t
  <2>3. RowOK(u) /\ (QuietRow(t) => QuietRow(u)) /\ (HeldRow(u) => HeldRow(t))
    BY <1>1, <2>1 DEF RowOK, QuietRow, HeldRow
  <2>4. ASSUME NEW q \in Operations, q # op PROVE Bystands(q, t, u)
    BY <2>1, Commands, <2>4 DEF Bystands
  <2>5. CommandOK(op, u, phase'[op], stage'[op], starts'[op], process'[op], given'[op])
    BY <1>1, <1>2, <2>1, <2>2 DEF CommandOK, Binds
  <2>6. QED
    BY <1>1, <1>2, <2>1, <2>2, <2>3, <2>4, <2>5, StepKept
<1>4. CASE ~MayConsume(op)
  <2>1. /\ transfer' = transfer
        /\ stage'[op] = "idle" /\ phase'[op] = "refused"
    BY <1>1, <1>4 DEF Fence, Goto, Conclude
  <2>2. CommandOK(op, t, phase'[op], stage'[op], starts'[op], process'[op], given'[op])
    BY <1>1, <1>2, <2>1 DEF CommandOK
  <2>3. QED
    BY <1>1, <1>2, <2>1, <2>2, MoveKept DEF OperationOK, vault
<1>5. QED
  BY <1>3, <1>4

LEMMA HandOverKeeps ==
    ASSUME TransferInv, NEW op \in Operations, HandOver(op), TransferTypeOK'
    PROVE  TransferInv'
<1> DEFINE t == Transfer(op)
           u == Interrupted(t)
<1>1. /\ t = transfer[op.handle] /\ t \in Transfers /\ op.handle \in Handles
      /\ RowOK(t) /\ (~closed /\ op.handle \notin late => QuietRow(t))
      /\ CommandOK(op, t, phase[op], stage[op], starts[op], process[op], given[op])
      /\ op # NoOne /\ op # NoPayload
      /\ op \in DOMAIN stage /\ op \in DOMAIN phase /\ op \in DOMAIN given
  BY StepFacts
<1>2. OnlyMoves(op) /\ UNCHANGED <<closed, late, sweeps>>
      /\ starts' = starts /\ process' = process /\ stage[op] = "fenced"
  BY <1>1 DEF HandOver, OnlyMoves, Still, Goto, Conclude, TransferTypeOK
<1>3. op.role = "consume" /\ t.consumer = op /\ t.delivered
  BY <1>1, <1>2 DEF CommandOK, Binds, RowOK
<1>4. CASE t.inbox # NoPayload
  <2>1. /\ transfer' = transfer /\ phase' = phase
        /\ stage'[op] = "admitted" /\ given'[op] = t.inbox
    BY <1>1, <1>4 DEF HandOver, Goto
  <2>2. t.inbox = t.producer
    BY <1>1, <1>3, <1>4 DEF RowOK
  <2>3. CommandOK(op, t, phase'[op], stage'[op], starts'[op], process'[op], given'[op])
    BY <1>1, <1>2, <2>1, <2>2 DEF CommandOK
  <2>4. QED
    BY <1>1, <1>2, <2>1, <2>3, MoveKept DEF OperationOK, vault
<1>5. CASE t.inbox = NoPayload
  <2>1. /\ Save(op.handle, u) /\ given' = given
        /\ stage'[op] = "idle" /\ phase'[op] = "refused"
    BY <1>1, <1>5 DEF HandOver, Goto, Conclude
  <2>2. /\ u \in Transfers /\ u.destination = t.destination
        /\ u.producer = t.producer /\ u.consumer = t.consumer
        /\ u.sent = t.sent /\ u.received = t.received
    BY <1>1, InterruptedType
  <2>3. RowOK(u) /\ HeldRow(u) = HeldRow(t) /\ \A q : Bystands(q, t, u)
    BY <1>1, InterruptedRow
  <2>4. t.producer \in Operations /\ t.producer # NoPayload
    BY <1>1, <1>3, Commands DEF RowOK, Transfers
  \* The payload is gone: it was erased, and a quiet erasure has both receipts.
  <2>5. closed \/ op.handle \in late
    <3>1. ~HeldRow(t)
      BY <1>1, <1>3, <1>5, <2>4 DEF RowOK
    <3>2. t.received = "none"
      BY <1>1, <1>2, <1>3 DEF CommandOK, Binds, Ended
    <3>3. t.capture \in {"released", "expired"}
      BY <1>1, <1>3, <3>1 DEF HeldRow, RowOK, Transfers
    <3>4. ~QuietRow(t)
      BY <1>1, <1>3, <3>2, <3>3 DEF QuietRow
    <3>5. QED
      BY <1>1, <3>4
  <2> HIDE DEF u, t
  <2>6. CommandOK(op, u, phase'[op], stage'[op], starts'[op], process'[op], given'[op])
    BY <1>1, <1>2, <2>1, <2>2 DEF CommandOK, Binds
  <2>7. QED
    BY <1>1, <1>2, <2>1, <2>2, <2>3, <2>5, <2>6, StepKept
<1>6. QED
  BY <1>4, <1>5

LEMMA FinishReceiveKeeps ==
    ASSUME TransferInv, NEW op \in Operations, FinishReceive(op), TransferTypeOK'
    PROVE  TransferInv'
<1> DEFINE t == Transfer(op)
           u == [t EXCEPT !.received = IF @ = "none" THEN process[op] ELSE @]
<1>1. /\ t = transfer[op.handle] /\ t \in Transfers /\ op.handle \in Handles
      /\ RowOK(t) /\ (~closed /\ op.handle \notin late => QuietRow(t))
      /\ CommandOK(op, t, phase[op], stage[op], starts[op], process[op], given[op])
      /\ op # NoOne /\ op \in DOMAIN stage
  BY StepFacts
<1>2. /\ OnlyMoves(op) /\ UNCHANGED <<closed, late, sweeps>>
      /\ phase' = phase /\ starts' = starts /\ process' = process /\ given' = given
      /\ Ended(process[op]) /\ op.role = "consume" /\ t.consumer = op
      /\ Save(op.handle, u) /\ stage'[op] = "collected"
  BY <1>1 DEF FinishReceive, OnlyMoves, Still, native, Goto, TransferTypeOK,
              Exited, Ended
<1>3. /\ u \in Transfers /\ u.capture = t.capture /\ u.destination = t.destination
      /\ u.producer = t.producer /\ u.consumer = t.consumer /\ u.sent = t.sent
      /\ u.received = IF t.received = "none" THEN process[op] ELSE t.received
      /\ u.delivered = t.delivered /\ u.receiverInterrupted = t.receiverInterrupted
      /\ u.body = t.body /\ u.inbox = t.inbox
  BY <1>1, <1>2 DEF Transfers, Receipts, Ended
<1> HIDE DEF u, t
<1>4. RowOK(u) /\ (QuietRow(t) => QuietRow(u)) /\ (HeldRow(u) => HeldRow(t))
  BY <1>1, <1>2, <1>3 DEF RowOK, QuietRow, HeldRow
<1>5. ASSUME NEW q \in Operations, q # op PROVE Bystands(q, t, u)
  BY <1>2, <1>3, <1>5 DEF Bystands
<1>6. CommandOK(op, u, phase'[op], stage'[op], starts'[op], process'[op], given'[op])
  BY <1>1, <1>2, <1>3 DEF CommandOK, Binds
<1>7. QED
  BY <1>1, <1>2, <1>3, <1>4, <1>5, <1>6, StepKept

LEMMA FinishSourceKeeps ==
    ASSUME TransferInv, NEW op \in Operations, FinishSource(op), TransferTypeOK'
    PROVE  TransferInv'
<1> DEFINE t == Transfer(op)
           u == [t EXCEPT
                    !.sent = IF @ = "none" THEN process[op] ELSE @,
                    !.capture = IF @ = "started" /\ process[op] = "dirty"
                                THEN "unknown" ELSE @]
<1>1. /\ t = transfer[op.handle] /\ t \in Transfers /\ op.handle \in Handles
      /\ RowOK(t) /\ (~closed /\ op.handle \notin late => QuietRow(t))
      /\ CommandOK(op, t, phase[op], stage[op], starts[op], process[op], given[op])
      /\ op # NoOne /\ op \in DOMAIN stage
  BY StepFacts
<1>2. /\ OnlyMoves(op) /\ UNCHANGED <<closed, late, sweeps>>
      /\ phase' = phase /\ starts' = starts /\ process' = process /\ given' = given
      /\ Ended(process[op]) /\ op.role = "capture" /\ t.producer = op
      /\ Save(op.handle, u)
      /\ stage'[op] = IF u.capture = "started" THEN "sourced" ELSE "collected"
  BY <1>1 DEF FinishSource, OnlyMoves, Still, native, Goto, TransferTypeOK,
              Exited, Ended
<1>3. /\ u \in Transfers /\ u.destination = t.destination
      /\ u.capture = IF t.capture = "started" /\ process[op] = "dirty"
                     THEN "unknown" ELSE t.capture
      /\ u.producer = t.producer /\ u.consumer = t.consumer
      /\ u.sent = IF t.sent = "none" THEN process[op] ELSE t.sent
      /\ u.received = t.received
      /\ u.delivered = t.delivered /\ u.receiverInterrupted = t.receiverInterrupted
      /\ u.body = t.body /\ u.inbox = t.inbox
  BY <1>1, <1>2 DEF Transfers, Receipts, Ended
<1> HIDE DEF u, t
<1>4. RowOK(u) /\ (HeldRow(u) => HeldRow(t))
  BY <1>1, <1>2, <1>3 DEF RowOK, HeldRow, Ended
<1>5. QuietRow(t) => QuietRow(u)
  BY <1>1, <1>2, <1>3 DEF QuietRow, Ended
<1>6. ASSUME NEW q \in Operations, q # op PROVE Bystands(q, t, u)
  BY <1>1, <1>2, <1>3, <1>6 DEF Bystands
<1>7. CommandOK(op, u, phase'[op], stage'[op], starts'[op], process'[op], given'[op])
  BY <1>1, <1>2, <1>3 DEF CommandOK, Binds, RowOK, Ended
<1>8. QED
  BY <1>1, <1>2, <1>3, <1>4, <1>5, <1>6, <1>7, StepKept

LEMMA InterruptCustodyKeeps ==
    ASSUME TransferInv, NEW op \in Operations, InterruptCustody(op), TransferTypeOK'
    PROVE  TransferInv'
<1> DEFINE t == Transfer(op)
           u == Interrupted(t)
<1>1. /\ t = transfer[op.handle] /\ t \in Transfers /\ op.handle \in Handles
      /\ RowOK(t) /\ (~closed /\ op.handle \notin late => QuietRow(t))
      /\ CommandOK(op, t, phase[op], stage[op], starts[op], process[op], given[op])
      /\ op \in DOMAIN stage
  BY StepFacts
<1>2. /\ OnlyMoves(op) /\ UNCHANGED <<closed, late, sweeps>>
      /\ phase' = phase /\ starts' = starts /\ process' = process /\ given' = given
      /\ stage[op] = "sourced" /\ stage'[op] = "collected" /\ Save(op.handle, u)
  BY <1>1 DEF InterruptCustody, OnlyMoves, Still, action, native, Goto, TransferTypeOK
<1>3. /\ u \in Transfers /\ u.destination = t.destination
      /\ u.capture = IF t.capture = "started" THEN "unknown" ELSE t.capture
      /\ u.producer = t.producer /\ u.consumer = t.consumer
      /\ u.sent = t.sent /\ u.received = t.received
      /\ u.receiverInterrupted =
            (t.receiverInterrupted \/ (t.consumer # NoOne /\ t.received = "none"))
  BY <1>1, InterruptedType
<1>4. RowOK(u) /\ HeldRow(u) = HeldRow(t) /\ \A q : Bystands(q, t, u)
  BY <1>1, InterruptedRow
<1> HIDE DEF u, t
<1>5. t.sent # "none" /\ ~t.delivered /\ t.consumer = NoOne
  BY <1>1, <1>2 DEF CommandOK, RowOK
<1>6. QuietRow(t) => QuietRow(u)
  BY <1>1, <1>3, <1>5 DEF QuietRow
<1>7. CommandOK(op, u, phase'[op], stage'[op], starts'[op], process'[op], given'[op])
  BY <1>1, <1>2, <1>3 DEF CommandOK, Binds
<1>8. QED
  BY <1>1, <1>2, <1>3, <1>4, <1>6, <1>7, StepKept

LEMMA KeepManifestKeeps ==
    ASSUME TransferInv, NEW op \in Operations, KeepManifest(op), TransferTypeOK'
    PROVE  TransferInv'
<1> DEFINE t == Transfer(op)
           u == [t EXCEPT !.manifest = TRUE]
<1>1. /\ t = transfer[op.handle] /\ t \in Transfers /\ op.handle \in Handles
      /\ RowOK(t) /\ (~closed /\ op.handle \notin late => QuietRow(t))
      /\ CommandOK(op, t, phase[op], stage[op], starts[op], process[op], given[op])
      /\ op \in DOMAIN stage
  BY StepFacts
<1>2. /\ OnlyMoves(op) /\ UNCHANGED <<closed, late, sweeps>>
      /\ phase' = phase /\ starts' = starts /\ process' = process /\ given' = given
      /\ stage[op] = "sourced"
  BY <1>1 DEF KeepManifest, OnlyMoves, Still, action, native, Goto, TransferTypeOK
<1>3. CASE Usable(op.handle) /\ t.capture = "started"
  <2>1. /\ u \in Transfers /\ u.capture = t.capture /\ u.destination = t.destination
        /\ u.producer = t.producer /\ u.consumer = t.consumer
        /\ u.sent = t.sent /\ u.received = t.received
        /\ u.delivered = t.delivered /\ u.receiverInterrupted = t.receiverInterrupted
        /\ u.body = t.body /\ u.inbox = t.inbox
    BY <1>1 DEF Transfers
  <2>2. Save(op.handle, u) /\ stage'[op] = "copying"
    BY <1>1, <1>3 DEF KeepManifest, Goto
  <2> HIDE DEF u, t
  <2>3. RowOK(u) /\ (QuietRow(t) => QuietRow(u)) /\ (HeldRow(u) => HeldRow(t))
    BY <1>1, <2>1 DEF RowOK, QuietRow, HeldRow
  <2>4. ASSUME NEW q \in Operations, q # op PROVE Bystands(q, t, u)
    BY <2>1, Commands, <2>4 DEF Bystands
  <2>5. CommandOK(op, u, phase'[op], stage'[op], starts'[op], process'[op], given'[op])
    BY <1>1, <1>2, <2>1, <2>2 DEF CommandOK, Binds
  <2>6. QED
    BY <1>1, <1>2, <2>1, <2>2, <2>3, <2>4, <2>5, StepKept
<1>4. CASE ~(Usable(op.handle) /\ t.capture = "started")
  <2>1. transfer' = transfer /\ stage'[op] = "idle"
    BY <1>1, <1>4 DEF KeepManifest, Goto
  <2>2. CommandOK(op, t, phase'[op], stage'[op], starts'[op], process'[op], given'[op])
    BY <1>1, <1>2, <2>1 DEF CommandOK
  <2>3. QED
    BY <1>1, <1>2, <2>1, <2>2, MoveKept DEF OperationOK, vault
<1>5. QED
  BY <1>3, <1>4

LEMMA CopyPayloadKeeps ==
    ASSUME TransferInv, NEW op \in Operations, CopyPayload(op), TransferTypeOK'
    PROVE  TransferInv'
<1> DEFINE t == Transfer(op)
           u == [t EXCEPT !.capture = "ready", !.body = op]
           v == [t EXCEPT !.capture = "unknown"]
<1>1. /\ t = transfer[op.handle] /\ t \in Transfers /\ op.handle \in Handles
      /\ RowOK(t) /\ (~closed /\ op.handle \notin late => QuietRow(t))
      /\ CommandOK(op, t, phase[op], stage[op], starts[op], process[op], given[op])
      /\ op # NoOne /\ op \in DOMAIN stage
  BY StepFacts
<1>2. /\ OnlyMoves(op) /\ UNCHANGED <<closed, late, sweeps>>
      /\ phase' = phase /\ starts' = starts /\ process' = process /\ given' = given
      /\ stage[op] = "copying"
  BY <1>1 DEF CopyPayload, OnlyMoves, Still, action, native, Goto, TransferTypeOK
<1>3. op.role = "capture" /\ t.producer = op /\ t.sent # "none" /\ ~t.delivered
      /\ t.consumer = NoOne
  BY <1>1, <1>2 DEF CommandOK, Binds, RowOK
<1>4. \/ Save(op.handle, u) /\ t.capture = "started" /\ stage'[op] = "collected"
      \/ Save(op.handle, v) /\ t.capture = "started" /\ stage'[op] = "idle"
      \/ transfer' = transfer /\ stage'[op] = "idle"
  BY <1>1 DEF CopyPayload, Intact, Goto
<1>5. CASE Save(op.handle, u) /\ t.capture = "started" /\ stage'[op] = "collected"
  <2>1. /\ u \in Transfers /\ u.capture = "ready" /\ u.destination = t.destination
        /\ u.producer = t.producer /\ u.consumer = t.consumer
        /\ u.sent = t.sent /\ u.received = t.received
        /\ u.delivered = t.delivered /\ u.receiverInterrupted = t.receiverInterrupted
        /\ u.body = op /\ u.inbox = t.inbox
    BY <1>1 DEF Transfers, Payloads
  <2>2. t.sent = "clean"
    BY <1>1, <1>3, <1>5 DEF RowOK, Transfers, Receipts
  <2>3. Save(op.handle, u) /\ stage'[op] = "collected" /\ t.capture = "started"
    BY <1>5
  <2> HIDE DEF u, t
  <2>4. RowOK(u) /\ (QuietRow(t) => QuietRow(u)) /\ HeldRow(t)
    BY <1>1, <1>3, <2>1, <2>2, <2>3 DEF RowOK, QuietRow, HeldRow
  <2>5. ASSUME NEW q \in Operations, q # op PROVE Bystands(q, t, u)
    BY <1>3, <2>1, <2>5 DEF Bystands
  <2>6. CommandOK(op, u, phase'[op], stage'[op], starts'[op], process'[op], given'[op])
    BY <1>1, <1>2, <2>1, <2>3 DEF CommandOK, Binds
  <2>7. QED
    BY <1>1, <1>2, <2>1, <2>3, <2>4, <2>5, <2>6, StepKept
<1>6. CASE Save(op.handle, v) /\ t.capture = "started" /\ stage'[op] = "idle"
  <2>1. /\ v \in Transfers /\ v.capture = "unknown" /\ v.destination = t.destination
        /\ v.producer = t.producer /\ v.consumer = t.consumer
        /\ v.sent = t.sent /\ v.received = t.received
        /\ v.delivered = t.delivered /\ v.receiverInterrupted = t.receiverInterrupted
        /\ v.body = t.body /\ v.inbox = t.inbox
    BY <1>1 DEF Transfers
  <2>2. Save(op.handle, v) /\ stage'[op] = "idle" /\ t.capture = "started"
    BY <1>6
  <2> HIDE DEF v, t
  <2>3. RowOK(v) /\ (QuietRow(t) => QuietRow(v)) /\ HeldRow(t)
    BY <1>1, <1>3, <2>1, <2>2 DEF RowOK, QuietRow, HeldRow
  <2>4. ASSUME NEW q \in Operations, q # op PROVE Bystands(q, t, v)
    BY <1>3, <2>1, <2>4 DEF Bystands
  <2>5. CommandOK(op, v, phase'[op], stage'[op], starts'[op], process'[op], given'[op])
    BY <1>1, <1>2, <2>1, <2>2 DEF CommandOK, Binds
  <2>6. QED
    BY <1>1, <1>2, <2>1, <2>2, <2>3, <2>4, <2>5, StepKept
<1>7. CASE transfer' = transfer /\ stage'[op] = "idle"
  <2>1. CommandOK(op, t, phase'[op], stage'[op], starts'[op], process'[op], given'[op])
    BY <1>1, <1>2, <1>7 DEF CommandOK
  <2>2. QED
    BY <1>1, <1>2, <1>7, <2>1, MoveKept DEF OperationOK, vault
<1>8. QED
  BY <1>4, <1>5, <1>6, <1>7

-----------------------------------------------------------------------------
LEMMA InvInit == TransferInit => TransferInv
<1> SUFFICES ASSUME TransferInit PROVE TransferInv
  OBVIOUS
<1>1. TransferTypeOK
  BY TypeInit
<1>2. /\ Absent.capture = "absent" /\ Absent.producer = NoOne
      /\ Absent.consumer = NoOne /\ Absent.sent = "none" /\ Absent.received = "none"
      /\ ~Absent.delivered /\ ~Absent.receiverInterrupted
      /\ Absent.body = NoPayload /\ Absent.inbox = NoPayload
  BY DEF Absent
<1>3. RowOK(Absent) /\ QuietRow(Absent) /\ ~HeldRow(Absent)
  BY <1>2 DEF RowOK, QuietRow, HeldRow
<1>4. \A h \in Handles : transfer[h] = Absent
  BY DEF TransferInit
<1>5. \A h \in Handles : HandleOK(h)
  BY <1>3, <1>4 DEF HandleOK
<1>6. ASSUME NEW op \in Operations PROVE OperationOK(op)
  <2>1. /\ phase[op] = "pending" /\ stage[op] = "idle" /\ starts[op] = 0
        /\ process[op] = "none" /\ transfer[op.handle] = Absent
    BY <1>4, Commands DEF TransferInit
  <2>2. ~Binds(Absent, op)
    BY <1>2, Commands DEF Binds
  <2>3. QED
    BY <2>1, <2>2 DEF OperationOK, CommandOK
<1>7. SweepsOK
  BY DEF TransferInit, SweepsOK
<1>8. QED
  BY <1>1, <1>5, <1>6, <1>7 DEF TransferInv

LEMMA InvNext == TransferInv /\ [TransferNext]_vars => TransferInv'
<1> SUFFICES ASSUME TransferInv, [TransferNext]_vars PROVE TransferInv'
  OBVIOUS
<1>1. TransferTypeOK'
  BY TypeNext DEF TransferInv
<1>2. CASE \E h \in Handles : Prepare(h) \/ Deliver(h) \/ Release(h) \/ Retain(h)
  BY <1>1, <1>2, PrepareKeeps, DeliverKeeps, ReleaseKeeps, ExpiresKeeps, SweepKeeps
     DEF Retain
<1>3. CASE \E h \in Handles, r \in Recipients : Handoff(h, r)
  BY <1>1, <1>3, HandoffKeeps
<1>4. CASE \E op \in Operations : Start(op) \/ Collect(op)
  <2>1. PICK op \in Operations : Start(op) \/ Collect(op)
    BY <1>4
  <2>2. CASE Start(op)
    BY <1>1, <2>2, MovesKeep, BeginKeeps, FenceKeeps, HandOverKeeps DEF Start
  <2>3. CASE Collect(op)
    BY <1>1, <2>3, MovesKeep, FinishReceiveKeeps, FinishSourceKeeps,
       InterruptCustodyKeeps, KeepManifestKeeps, CopyPayloadKeeps DEF Collect
  <2>4. QED
    BY <2>1, <2>2, <2>3
<1>5. CASE Close \/ Verify \/ Crash
  BY <1>1, <1>5, CloseKeeps
<1>6. CASE UNCHANGED vars
  <2>1. UNCHANGED <<transfer, closed, late, phase, stage, process, starts, given,
                    expiring, closing, todo, halfway, verified>>
    BY <1>6 DEF vars, vault, action, native, sweeps
  <2>2. \A h \in Handles : HandleOK(h)'
    BY <2>1 DEF TransferInv, HandleOK
  <2>3. \A op \in Operations : OperationOK(op)'
    BY <2>1 DEF TransferInv, OperationOK
  <2>4. SweepsOK'
    BY <2>1 DEF TransferInv, SweepsOK
  <2>5. QED
    BY <1>1, <2>2, <2>3, <2>4 DEF TransferInv
<1>7. QED
  BY <1>2, <1>3, <1>4, <1>5, <1>6 DEF TransferNext

(* The rows, the commands and the sweeps of the vault stand as described   *)
(* above in every reachable state (native_exec.rs, custody.rs).            *)
THEOREM TransferInvariant == TransferSpec => []TransferInv
BY InvInit, InvNext, PTL DEF TransferSpec

-----------------------------------------------------------------------------
(* The state keeps its types; in particular no payload row and no input    *)
(* ever holds garbled bytes (capture).                                     *)
THEOREM TransferTypes == TransferSpec => []TransferTypeOK
<1>1. TransferInv => TransferTypeOK
  BY DEF TransferInv
<1>2. QED
  BY <1>1, TransferInvariant, PTL

(* A command runs once at most, and only if a side of its transfer is      *)
(* bound to it: each side runs one command (begin_capture, begin_receive,  *)
(* and the conditional status write that claims an action).                *)
THEOREM CommandsRunOnce == TransferSpec => []SpentOnce
<1>1. ASSUME TransferInv, NEW op \in Operations
      PROVE  starts[op] <= 1 /\ (starts[op] > 0 => BoundTo(op))
  <2>1. starts[op] \in {0, 1} /\ (starts[op] = 1 => Binds(transfer[op.handle], op))
    BY <1>1 DEF TransferInv, OperationOK, CommandOK
  <2>2. QED
    BY <2>1 DEF Binds, BoundTo, Transfer
<1>2. TransferInv => SpentOnce
  BY <1>1 DEF SpentOnce
<1>3. QED
  BY <1>2, TransferInvariant, PTL

(* A consumer that was started was given what the producer of its transfer *)
(* left after a clean exit, and is the transfer's destination (handoff,    *)
(* deliver, begin_receive, consume).                                       *)
THEOREM RecipientsGetPayloads == TransferSpec => []RecipientGetsPayload
<1>1. ASSUME TransferInv, NEW op \in Operations, starts[op] > 0, op.role = "consume"
      PROVE  /\ given[op] = Transfer(op).producer
             /\ Transfer(op).sent = "clean"
             /\ op.by = Transfer(op).destination
  <2> DEFINE t == Transfer(op)
  <2>1. /\ RowOK(t) /\ op # NoOne
        /\ CommandOK(op, t, phase[op], stage[op], starts[op], process[op], given[op])
    BY <1>1, StepFacts
  <2>2. starts[op] = 1 /\ t.consumer = op
    BY <1>1, <2>1 DEF CommandOK, Binds
  <2>3. QED
    BY <1>1, <2>1, <2>2 DEF CommandOK, Binds, RowOK
<1>2. TransferInv => RecipientGetsPayload
  BY <1>1 DEF RecipientGetsPayload
<1>3. QED
  BY <1>2, TransferInvariant, PTL

(* While the vault is open and the retention lasts, a released transfer    *)
(* has no command that runs or is still to be started (release, erase).    *)
THEOREM ReleasesAreQuiet == TransferSpec => []ReleasedIsQuiet
<1>1. ASSUME TransferInv, NEW op \in Operations, Transfer(op).capture = "released",
             ~closed, op.handle \notin late, BoundTo(op)
      PROVE  process[op] # "running" /\ stage[op] \notin {"bound", "fenced", "admitted"}
  <2> DEFINE t == Transfer(op)
  <2>1. /\ QuietRow(t) /\ op # NoOne /\ op.role \in {"capture", "consume"}
        /\ CommandOK(op, t, phase[op], stage[op], starts[op], process[op], given[op])
    BY <1>1, StepFacts
  <2>2. Binds(t, op)
    BY <1>1 DEF BoundTo, Binds
  \* Each bound side has its receipt, so the command has ended.
  <2>3. Ended(process[op])
    BY <1>1, <2>1, <2>2 DEF QuietRow, CommandOK, Binds
  <2>4. QED
    BY <2>1, <2>3 DEF CommandOK, Ended
<1>2. TransferInv => ReleasedIsQuiet
  BY <1>1 DEF ReleasedIsQuiet
<1>3. QED
  BY <1>2, TransferInvariant, PTL

(* After a verified cleanup the vault holds no payload (close, admission). *)
THEOREM CleanupsAreFinal == TransferSpec => []CleanupIsFinal
<1>1. ASSUME TransferInv, verified, NEW h \in Handles
      PROVE  ~Held(h) /\ transfer[h].body = NoPayload /\ transfer[h].inbox = NoPayload
  <2>1. RowOK(transfer[h]) /\ ~HeldRow(transfer[h])
    BY <1>1 DEF TransferInv, HandleOK, SweepsOK
  <2>2. QED
    BY <2>1 DEF RowOK, Held, HeldRow
<1>2. TransferInv => CleanupIsFinal
  BY <1>1 DEF CleanupIsFinal
<1>3. QED
  BY <1>2, TransferInvariant, PTL

-----------------------------------------------------------------------------
(* The contract of a transfer (CustodyContract), with the row and command   *)
(* invariant above and the parties of every row.                           *)

\* A command that takes a side of a transfer has not been started.
Joins(op, h, role) ==
    op \in Operations /\ op.handle = h /\ op.role = role /\ starts[op] = 0

\* The two sides of a transfer are commands of that transfer, each of its role,
\* and the producer acts for the owner.
Parties ==
    \A h \in Handles :
       LET t == transfer[h] IN
       /\ t.producer # NoOne =>
             /\ t.producer \in Operations
             /\ t.producer.handle = h /\ t.producer.role = "capture"
             /\ t.producer.by = Owner
       /\ t.consumer # NoOne =>
             /\ t.consumer \in Operations
             /\ t.consumer.handle = h /\ t.consumer.role = "consume"

\* What a transaction of the vault may do to the custody.
Gives(t, u) ==
    \/ Custody(u) = Custody(t)
    \/ Custody(t) = "held" /\ Custody(u) = "over"
    \/ Custody(t) \in {"none", "held"} /\ Custody(u) = "lost"

\* What a call of the vault may do to a row, handoff and capture apart.
Allowed(h, t, u) ==
    /\ u.destination = t.destination
    /\ \/ u.producer = t.producer
       \/ /\ t.producer = NoOne
          /\ Joins(u.producer, h, "capture") /\ u.producer.by = Owner
    /\ \/ u.consumer = t.consumer
       \/ t.consumer = NoOne /\ Joins(u.consumer, h, "consume")
    /\ Gives(t, u)

\* Erasing a row drops what was held, and nothing else.
LEMMA ErasedGives ==
    ASSUME NEW t \in Transfers, RowOK(t), NEW end \in {"released", "expired"}
    PROVE  Gives(t, Erased(t, end))
<1> DEFINE u == Erased(t, end)
<1>1. u.capture = end /\ u.delivered = t.delivered
  BY ErasedType
<1> HIDE DEF u
<1>2. Gives(t, u)
  BY <1>1 DEF Gives, Custody, RowOK
<1>3. QED
  BY <1>2 DEF u

\* So does giving up what is still under way.
LEMMA InterruptedGives ==
    ASSUME NEW t \in Transfers, RowOK(t)
    PROVE  Gives(t, Interrupted(t))
<1> DEFINE u == Interrupted(t)
<1>1. /\ u.capture = IF t.capture = "started" THEN "unknown" ELSE t.capture
      /\ u.delivered = t.delivered
  BY InterruptedType
<1> HIDE DEF u
<1>2. Gives(t, u)
  BY <1>1 DEF Gives, Custody, RowOK
<1>3. QED
  BY <1>2 DEF u

\* Both keep the sides and the destination.
LEMMA SweptAllowed ==
    ASSUME TransferInv, NEW h \in Handles,
           NEW u \in {Interrupted(transfer[h]), Erased(transfer[h], "released"),
                      Erased(transfer[h], "expired")}
    PROVE  u \in Transfers /\ Allowed(h, transfer[h], u)
<1> DEFINE t == transfer[h]
<1>1. t \in Transfers /\ RowOK(t)
  BY DEF TransferInv, TransferTypeOK, HandleOK
<1> HIDE DEF t
<1>2. u \in {Interrupted(t), Erased(t, "released"), Erased(t, "expired")}
  BY DEF t
<1>3. /\ u \in Transfers /\ u.destination = t.destination
      /\ u.producer = t.producer /\ u.consumer = t.consumer
  BY <1>1, <1>2, InterruptedType, ErasedType
<1>4. Gives(t, u)
  BY <1>1, <1>2, ErasedGives, InterruptedGives
<1>5. QED
  BY <1>3, <1>4 DEF Allowed, t

\* A transaction of the vault, which starts and hands over nothing.
Commits(h) ==
    /\ \E u \in Transfers : Save(h, u) /\ Allowed(h, transfer[h], u)
    /\ UNCHANGED <<starts, given, verified>>

\* The copy is verified: the row that was started becomes ready.
Holds(op) ==
    /\ Transfer(op).capture = "started" /\ ~closed
    /\ \E u \in Transfers : /\ Save(op.handle, u) /\ u.capture = "ready"
                            /\ u.producer = Transfer(op).producer
                            /\ u.consumer = Transfer(op).consumer
                            /\ u.destination = Transfer(op).destination
    /\ UNCHANGED <<starts, given, verified>>

\* The calls that name a transfer and no command.
LEMMA CallCommits ==
    ASSUME TransferInv, NEW h \in Handles,
           \/ Prepare(h) \/ Deliver(h) \/ Release(h)
           \/ ExpireInterrupt(h) \/ ExpireErase(h) \/ CloseInterrupt(h) \/ CloseErase(h)
    PROVE  Commits(h)
<1> DEFINE t == transfer[h]
<1>1. t \in Transfers /\ RowOK(t)
  BY DEF TransferInv, TransferTypeOK, HandleOK
<1>2. UNCHANGED <<starts, given, verified>>
  BY DEF Prepare, Deliver, Release, ExpireInterrupt, ExpireErase, CloseInterrupt,
         CloseErase, native, sweeps
<1>3. CASE Prepare(h)
  <2> DEFINE u == [Absent EXCEPT !.capture = "reserved"]
  <2>1. /\ u \in Transfers /\ u.capture = "reserved" /\ u.destination = Owner
        /\ u.producer = NoOne /\ u.consumer = NoOne
    BY AbsentType DEF Absent, Transfers
  <2>2. /\ t.capture = "absent" /\ t.destination = Owner
        /\ t.producer = NoOne /\ t.consumer = NoOne
    BY <1>3 DEF Prepare, Absent
  <2>3. Save(h, u)
    BY <1>3 DEF Prepare
  <2> HIDE DEF u, t
  <2>4. Allowed(h, t, u)
    BY <2>1, <2>2 DEF Allowed, Gives, Custody
  <2>5. QED
    BY <1>2, <2>1, <2>3, <2>4 DEF Commits, t
<1>4. CASE Deliver(h)
  <2> DEFINE u == [t EXCEPT !.delivered = TRUE, !.inbox = t.body]
  <2>1. /\ u \in Transfers /\ u.capture = t.capture /\ u.destination = t.destination
        /\ u.producer = t.producer /\ u.consumer = t.consumer
    BY <1>1 DEF Transfers
  <2>2. Save(h, u) /\ t.capture = "ready"
    BY <1>4 DEF Deliver
  <2> HIDE DEF u, t
  <2>3. Allowed(h, t, u)
    BY <2>1, <2>2 DEF Allowed, Gives, Custody
  <2>4. QED
    BY <1>2, <2>1, <2>2, <2>3 DEF Commits, t
<1>5. CASE \/ Release(h) \/ ExpireInterrupt(h) \/ ExpireErase(h)
           \/ CloseInterrupt(h) \/ CloseErase(h)
  <2>1. \E u \in {Interrupted(t), Erased(t, "released"), Erased(t, "expired")} : Save(h, u)
    BY <1>5 DEF Release, ExpireInterrupt, ExpireErase, CloseInterrupt, CloseErase
  <2>2. QED
    BY <1>2, <2>1, SweptAllowed DEF Commits
<1>6. QED
  BY <1>3, <1>4, <1>5

\* Admission binds a side to a command that has not started.
LEMMA BeginCommits ==
    ASSUME TransferInv, NEW op \in Operations, Begin(op)
    PROVE  Commits(op.handle)
<1> DEFINE t == Transfer(op)
<1>1. /\ t = transfer[op.handle] /\ t \in Transfers /\ op.handle \in Handles
      /\ RowOK(t) /\ op # NoOne
      /\ CommandOK(op, t, phase[op], stage[op], starts[op], process[op], given[op])
  BY StepFacts
<1>2. stage[op] = "claimed" /\ UNCHANGED <<starts, given, verified>>
  BY DEF Begin, native, sweeps
<1>3. starts[op] = 0
  BY <1>1, <1>2 DEF CommandOK
<1>4. CASE op.role = "capture" /\ MayCapture(op)
             /\ Save(op.handle, [t EXCEPT !.capture = "started", !.producer = op])
  <2> DEFINE u == [t EXCEPT !.capture = "started", !.producer = op]
  <2>1. /\ u \in Transfers /\ u.capture = "started" /\ u.destination = t.destination
        /\ u.producer = op /\ u.consumer = t.consumer
    BY <1>1 DEF Transfers
  <2>2. t.capture = "reserved" /\ op.by = Owner /\ Save(op.handle, u)
    BY <1>4 DEF MayCapture
  <2> HIDE DEF u, t
  <2>3. Allowed(op.handle, t, u)
    BY <1>1, <1>3, <1>4, <2>1, <2>2 DEF Allowed, Joins, Gives, Custody, RowOK
  <2>4. QED
    BY <1>1, <1>2, <2>1, <2>2, <2>3 DEF Commits
<1>5. CASE op.role = "consume" /\ MayReceive(op)
             /\ Save(op.handle, [t EXCEPT !.consumer = op])
  <2> DEFINE u == [t EXCEPT !.consumer = op]
  <2>1. /\ u \in Transfers /\ u.capture = t.capture /\ u.destination = t.destination
        /\ u.producer = t.producer /\ u.consumer = op /\ u.delivered = t.delivered
    BY <1>1 DEF Transfers
  <2>2. t.consumer = NoOne /\ Save(op.handle, u)
    BY <1>5 DEF MayReceive
  <2> HIDE DEF u, t
  <2>3. Allowed(op.handle, t, u)
    BY <1>1, <1>3, <1>5, <2>1, <2>2 DEF Allowed, Joins, Gives, Custody
  <2>4. QED
    BY <1>1, <1>2, <2>1, <2>2, <2>3 DEF Commits
<1>6. QED
  BY <1>4, <1>5 DEF Begin

\* Saves that touch neither party nor destination nor what was delivered.
LEMMA PlainCommits ==
    ASSUME TransferInv, NEW op \in Operations, NEW u \in Transfers, Save(op.handle, u),
           UNCHANGED <<starts, given, verified>>,
           u.destination = Transfer(op).destination,
           u.producer = Transfer(op).producer, u.consumer = Transfer(op).consumer,
           u.delivered = Transfer(op).delivered,
           \/ u.capture = Transfer(op).capture
           \/ Transfer(op).capture = "started" /\ u.capture = "unknown"
    PROVE  Commits(op.handle)
<1> DEFINE t == Transfer(op)
<1>1. t = transfer[op.handle] /\ RowOK(t)
  BY StepFacts
<1>2. Allowed(op.handle, t, u)
  BY <1>1 DEF Allowed, Gives, Custody, RowOK
<1>3. QED
  BY <1>1, <1>2 DEF Commits

\* What the start and the collection of a command do to its row.
LEMMA CollectCommits ==
    ASSUME TransferInv, NEW op \in Operations,
           \/ Fence(op) \/ FinishReceive(op) \/ FinishSource(op) \/ InterruptCustody(op)
           \/ KeepManifest(op) \/ CopyPayload(op)
    PROVE  \/ UNCHANGED <<transfer, starts, given, verified>>
           \/ Commits(op.handle)
           \/ CopyPayload(op) /\ Holds(op)
<1> DEFINE t == Transfer(op)
<1>1. /\ t = transfer[op.handle] /\ t \in Transfers /\ op.handle \in Handles
      /\ RowOK(t) /\ op \in Operations
  BY StepFacts
<1>2. UNCHANGED <<starts, given, verified>>
  BY DEF Fence, FinishReceive, FinishSource, InterruptCustody, KeepManifest, CopyPayload,
         native, sweeps
<1>3. CASE Fence(op)
  <2> DEFINE u == [t EXCEPT !.inputStarted = TRUE]
  <2>1. /\ u \in Transfers /\ u.capture = t.capture /\ u.destination = t.destination
        /\ u.producer = t.producer /\ u.consumer = t.consumer /\ u.delivered = t.delivered
    BY <1>1 DEF Transfers
  <2>2. Save(op.handle, u) \/ UNCHANGED transfer
    BY <1>3 DEF Fence
  <2> HIDE DEF u
  <2>3. QED
    BY <1>2, <2>1, <2>2, PlainCommits
<1>4. CASE FinishReceive(op)
  <2> DEFINE u == [t EXCEPT !.received = IF @ = "none" THEN process[op] ELSE @]
  <2>1. /\ u \in Transfers /\ u.capture = t.capture /\ u.destination = t.destination
        /\ u.producer = t.producer /\ u.consumer = t.consumer /\ u.delivered = t.delivered
    BY <1>1, <1>4 DEF Transfers, Receipts, FinishReceive, Exited
  <2>2. Save(op.handle, u)
    BY <1>4 DEF FinishReceive
  <2> HIDE DEF u
  <2>3. QED
    BY <1>2, <2>1, <2>2, PlainCommits
<1>5. CASE FinishSource(op)
  <2> DEFINE u == [t EXCEPT
                    !.sent = IF @ = "none" THEN process[op] ELSE @,
                    !.capture = IF @ = "started" /\ process[op] = "dirty"
                                THEN "unknown" ELSE @]
  <2>1. /\ u \in Transfers /\ u.destination = t.destination
        /\ u.producer = t.producer /\ u.consumer = t.consumer /\ u.delivered = t.delivered
        /\ \/ u.capture = t.capture
           \/ t.capture = "started" /\ u.capture = "unknown"
    <3>1. Ended(process[op])
      BY <1>5 DEF FinishSource, Exited, Ended
    <3>2. /\ u \in Transfers /\ u.destination = t.destination
          /\ u.producer = t.producer /\ u.consumer = t.consumer
          /\ u.delivered = t.delivered
          /\ u.capture = IF t.capture = "started" /\ process[op] = "dirty"
                         THEN "unknown" ELSE t.capture
      BY <1>1, <3>1 DEF Transfers, Receipts, Ended
    <3>3. QED
      BY <3>2
  <2>2. Save(op.handle, u)
    BY <1>5 DEF FinishSource
  <2> HIDE DEF u
  <2>3. QED
    BY <1>2, <2>1, <2>2, PlainCommits
<1>6. CASE InterruptCustody(op)
  <2>1. Save(op.handle, Interrupted(t))
    BY <1>6 DEF InterruptCustody
  <2>2. QED
    BY <1>1, <1>2, <2>1, SweptAllowed DEF Commits
<1>7. CASE KeepManifest(op)
  <2> DEFINE u == [t EXCEPT !.manifest = TRUE]
  <2>1. /\ u \in Transfers /\ u.capture = t.capture /\ u.destination = t.destination
        /\ u.producer = t.producer /\ u.consumer = t.consumer /\ u.delivered = t.delivered
    BY <1>1 DEF Transfers
  <2>2. Save(op.handle, u) \/ UNCHANGED transfer
    BY <1>7 DEF KeepManifest
  <2> HIDE DEF u
  <2>3. QED
    BY <1>2, <2>1, <2>2, PlainCommits
<1>8. CASE CopyPayload(op)
  <2>1. CASE UNCHANGED transfer
    BY <1>2, <2>1
  <2>2. CASE Save(op.handle, [t EXCEPT !.capture = "unknown"]) /\ t.capture = "started"
    <3> DEFINE u == [t EXCEPT !.capture = "unknown"]
    <3>1. /\ u \in Transfers /\ u.capture = "unknown" /\ u.destination = t.destination
          /\ u.producer = t.producer /\ u.consumer = t.consumer /\ u.delivered = t.delivered
      BY <1>1 DEF Transfers
    <3> HIDE DEF u
    <3>2. QED
      BY <1>2, <2>2, <3>1, PlainCommits DEF u
  <2>3. CASE /\ t.capture = "started" /\ ~closed
             /\ Save(op.handle, [t EXCEPT !.capture = "ready", !.body = op])
    <3> DEFINE u == [t EXCEPT !.capture = "ready", !.body = op]
    <3>1. /\ u \in Transfers /\ u.capture = "ready" /\ u.destination = t.destination
          /\ u.producer = t.producer /\ u.consumer = t.consumer
      BY <1>1 DEF Transfers, Payloads
    <3> HIDE DEF u
    <3>2. Save(op.handle, u)
      BY <2>3 DEF u
    <3>3. Holds(op)
      BY <1>2, <2>3, <3>1, <3>2 DEF Holds
    <3>4. QED
      BY <1>8, <3>3
  <2>4. QED
    BY <1>8, <2>1, <2>2, <2>3 DEF CopyPayload, Intact, Admits, AdmissionOpen
<1>9. QED
  BY <1>3, <1>4, <1>5, <1>6, <1>7, <1>8

\* The steps, by what they do to rows, starts and inputs.
LEMMA StepKinds ==
    ASSUME TransferInv, [TransferNext]_vars
    PROVE  \/ UNCHANGED <<transfer, starts, given, verified>>
           \/ \E h \in Handles : Commits(h)
           \/ \E h \in Handles, r \in Recipients : Handoff(h, r)
           \/ \E op \in Operations : CopyPayload(op) /\ Holds(op)
           \/ \E op \in Operations : HandOver(op) \/ Launch(op)
           \/ Verify
<1>1. ASSUME NEW h \in Handles, Expires(h)
      PROVE  UNCHANGED <<transfer, starts, given, verified>>
  BY <1>1 DEF Expires, native, sweeps
<1>2. ASSUME NEW op \in Operations,
             \/ Configure(op) \/ Claim(op) \/ RefuseStart(op) \/ InputLost(op)
             \/ Cancel(op) \/ FinishCancel(op) \/ Exit(op) \/ Finish(op) \/ GiveUp(op)
      PROVE  UNCHANGED <<transfer, starts, given, verified>>
  BY <1>2 DEF Configure, Claim, RefuseStart, InputLost, Cancel, FinishCancel, Exit,
              Finish, GiveUp, vault, native, sweeps
<1>3. CASE Close \/ Crash \/ UNCHANGED vars
  BY <1>3 DEF Close, Crash, vars, vault, native, sweeps
<1>4. \A op \in Operations : op.handle \in Handles
  BY Commands
<1>5. CASE \E h \in Handles : Prepare(h) \/ Deliver(h) \/ Release(h) \/ Retain(h)
  BY <1>1, <1>5, CallCommits DEF Retain
<1>6. CASE \E op \in Operations : Start(op) \/ Collect(op)
  <2>1. PICK op \in Operations : Start(op) \/ Collect(op)
    BY <1>6
  <2>2. CASE Start(op)
    BY <1>2, <1>4, <2>2, BeginCommits, CollectCommits DEF Start
  <2>3. CASE Collect(op)
    BY <1>2, <1>4, <2>3, CollectCommits DEF Collect
  <2>4. QED
    BY <2>1, <2>2, <2>3
<1>7. QED
  BY <1>3, <1>5, <1>6 DEF TransferNext

\* No side is taken at first.
LEMMA PartiesInit == TransferInit => Parties
  BY DEF TransferInit, Parties, Absent

\* A row that is saved with its sides, or with one that has just joined.
LEMMA PartiesSame ==
    ASSUME TransferInv, Parties, NEW h \in Handles, NEW u \in Transfers, Save(h, u),
           \/ u.producer = transfer[h].producer
           \/ Joins(u.producer, h, "capture") /\ u.producer.by = Owner,
           u.consumer = transfer[h].consumer \/ Joins(u.consumer, h, "consume")
    PROVE  Parties'
<1>1. /\ transfer'[h] = u
      /\ \A g \in Handles : g # h => transfer'[g] = transfer[g]
  BY Saving DEF TransferInv
<1>2. QED
  BY <1>1 DEF Parties, Joins

\* No step binds a side to a command of another transfer.
LEMMA PartiesKept == TransferInv /\ Parties /\ [TransferNext]_vars => Parties'
<1> SUFFICES ASSUME TransferInv, Parties, [TransferNext]_vars PROVE Parties'
  OBVIOUS
<1>1. CASE UNCHANGED transfer
  BY <1>1 DEF Parties
<1>2. ASSUME NEW h \in Handles, Commits(h) PROVE Parties'
  BY <1>2, PartiesSame DEF Commits, Allowed
<1>3. ASSUME NEW h \in Handles, NEW r \in Recipients, Handoff(h, r) PROVE Parties'
  <2> DEFINE u == [transfer[h] EXCEPT !.destination = r]
  <2>1. transfer[h] \in Transfers
    BY DEF TransferInv, TransferTypeOK
  <2>2. /\ u \in Transfers
        /\ u.producer = transfer[h].producer /\ u.consumer = transfer[h].consumer
    BY <2>1 DEF Transfers, Authorities
  <2>3. Save(h, u)
    BY <1>3 DEF Handoff
  <2> HIDE DEF u
  <2>4. QED
    BY <2>2, <2>3, PartiesSame
<1>4. ASSUME NEW op \in Operations, Holds(op) PROVE Parties'
  BY <1>4, Commands, PartiesSame DEF Holds, Transfer
<1>5. ASSUME NEW op \in Operations, HandOver(op) PROVE Parties'
  <2>1. CASE UNCHANGED transfer
    BY <1>1, <2>1
  <2>2. CASE Save(op.handle, Interrupted(Transfer(op)))
    <3>1. op.handle \in Handles /\ Transfer(op) = transfer[op.handle]
          /\ Transfer(op) \in Transfers
      BY StepFacts
    <3>2. QED
      BY <2>2, <3>1, InterruptedType, PartiesSame
  <2>3. QED
    BY <1>5, <2>1, <2>2 DEF HandOver
<1>6. ASSUME NEW op \in Operations, Launch(op) PROVE Parties'
  BY <1>1, <1>6 DEF Launch, vault
<1>7. CASE Verify
  BY <1>1, <1>7 DEF Verify, vault
<1>8. QED
  BY <1>1, <1>2, <1>3, <1>4, <1>5, <1>6, <1>7, StepKinds

\* The sides are as described in every reachable state.
LEMMA PartiesHold == TransferSpec => []Parties
  BY TransferInvariant, PartiesInit, PartiesKept, PTL DEF TransferSpec

\* The refinement mapping, a handle at a time.
SenderOf(h) ==
    IF Started(transfer[h].producer) THEN transfer[h].producer ELSE NoOne
ReceiverOf(h) ==
    IF Started(transfer[h].consumer) THEN transfer[h].consumer ELSE NoOne
GotOf(h) ==
    IF Started(transfer[h].consumer) THEN given[transfer[h].consumer] ELSE NoPayload

\* An empty vault is an initial state of the contract.
LEMMA ContractInit == TransferInit => Contract!Init
<1> SUFFICES ASSUME TransferInit PROVE Contract!Init
  OBVIOUS
<1>1. \A h \in Handles : /\ transfer[h].producer = NoOne /\ transfer[h].consumer = NoOne
                         /\ transfer[h].destination = Owner
                         /\ Custody(transfer[h]) = "none"
  BY DEF TransferInit, Absent, Custody
<1>2. ~Started(NoOne) /\ ~verified
  BY DEF TransferInit, Started
<1>3. QED
  BY <1>1, <1>2 DEF Contract!Init

\* A transaction drops a payload or is not seen by the wallets.
LEMMA ContractCommit ==
    ASSUME TransferInv, NEW h \in Handles, Commits(h)
    PROVE  Contract!Next \/ UNCHANGED Contract!contractVars
<1>1. PICK u \in Transfers : Save(h, u) /\ Allowed(h, transfer[h], u)
  BY DEF Commits
<1>2. /\ transfer'[h] = u
      /\ \A g \in Handles : g # h => transfer'[g] = transfer[g]
  BY <1>1, Saving DEF TransferInv
<1>3. UNCHANGED <<starts, given, verified>>
  BY DEF Commits
<1>4. ASSUME NEW op PROVE Started(op)' = Started(op)
  BY <1>3 DEF Started
<1>5. /\ SenderOf(h)' = SenderOf(h) /\ ReceiverOf(h)' = ReceiverOf(h)
      /\ GotOf(h)' = GotOf(h)
      /\ transfer'[h].destination = transfer[h].destination
  <2>1. ~Started(NoOne) /\ \A op : starts[op] = 0 => ~Started(op)
    BY DEF Started
  <2>2. QED
    BY <1>1, <1>2, <1>3, <2>1 DEF Allowed, Joins, SenderOf, ReceiverOf, GotOf, Started
<1>6. \A g \in Handles : /\ SenderOf(g)' = SenderOf(g) /\ ReceiverOf(g)' = ReceiverOf(g)
                         /\ GotOf(g)' = GotOf(g)
                         /\ transfer'[g].destination = transfer[g].destination
                         /\ g # h => Custody(transfer'[g]) = Custody(transfer[g])
  BY <1>2, <1>3, <1>5 DEF SenderOf, ReceiverOf, GotOf, Started
<1> DEFINE old == [g \in Handles |-> Custody(transfer[g])]
           new == [g \in Handles |-> Custody(transfer'[g])]
<1>7. /\ [g \in Handles |-> SenderOf(g)]' = [g \in Handles |-> SenderOf(g)]
      /\ [g \in Handles |-> ReceiverOf(g)]' = [g \in Handles |-> ReceiverOf(g)]
      /\ [g \in Handles |-> GotOf(g)]' = [g \in Handles |-> GotOf(g)]
      /\ [g \in Handles |-> transfer[g].destination]'
            = [g \in Handles |-> transfer[g].destination]
  BY <1>6
<1>8. \/ new = old
      \/ /\ old[h] = "held" /\ new = [old EXCEPT ![h] = "over"]
      \/ /\ old[h] \in {"none", "held"} /\ new = [old EXCEPT ![h] = "lost"]
  <2>1. Gives(transfer[h], transfer'[h])
    BY <1>1, <1>2 DEF Allowed
  <2>2. QED
    BY <1>6, <2>1 DEF Gives
<1>9. Contract!Drop(h) \/ UNCHANGED Contract!contractVars
  BY <1>3, <1>7, <1>8
     DEF SenderOf, ReceiverOf, GotOf, Contract!Drop, Contract!contractVars
<1>10. QED
  BY <1>9 DEF Contract!Next

\* A handoff readdresses a payload that nobody was given.
LEMMA ContractHandoff ==
    ASSUME TransferInv, NEW h \in Handles, NEW r \in Recipients, Handoff(h, r)
    PROVE  Contract!Next
<1> DEFINE t == transfer[h]
           u == [t EXCEPT !.destination = r]
<1>1. t \in Transfers
  BY DEF TransferInv, TransferTypeOK
<1>2. /\ u \in Transfers /\ u.capture = t.capture /\ u.destination = r
      /\ u.producer = t.producer /\ u.consumer = t.consumer
      /\ u.delivered = t.delivered
  BY <1>1 DEF Transfers, Authorities
<1>3. /\ Save(h, u) /\ t.capture = "ready" /\ t.destination = Owner /\ t.consumer = NoOne
      /\ UNCHANGED <<starts, given, verified>>
  BY DEF Handoff, MayHandOff, native, sweeps
<1>4. /\ transfer'[h] = u
      /\ \A g \in Handles : g # h => transfer'[g] = transfer[g]
  BY <1>2, <1>3, Saving DEF TransferInv
<1> HIDE DEF t, u
<1>5. \A g \in Handles : /\ transfer'[g].producer = transfer[g].producer
                         /\ transfer'[g].consumer = transfer[g].consumer
                         /\ Custody(transfer'[g]) = Custody(transfer[g])
                         /\ transfer'[g].destination
                               = IF g = h THEN r ELSE transfer[g].destination
  BY <1>2, <1>4 DEF t, Custody
<1>6. Custody(t) = "held" /\ ~Started(t.consumer)
  BY <1>3 DEF Custody, Started
<1>7. Contract!Readdress(h, r)
  BY <1>3, <1>5, <1>6 DEF Contract!Readdress, Started, t
<1>8. QED
  BY <1>7 DEF Contract!Next

\* Before the bytes are committed, the producer has left a clean receipt.
LEMMA ContractHold ==
    ASSUME TransferInv, NEW op \in Operations, CopyPayload(op), Holds(op)
    PROVE  Contract!Next
<1> DEFINE t == Transfer(op)
           h == op.handle
<1>1. /\ t = transfer[h] /\ h \in Handles /\ RowOK(t) /\ op # NoOne
      /\ CommandOK(op, t, phase[op], stage[op], starts[op], process[op], given[op])
  BY StepFacts
<1>2. PICK u \in Transfers : /\ Save(h, u) /\ u.capture = "ready"
                             /\ u.producer = t.producer /\ u.consumer = t.consumer
                             /\ u.destination = t.destination
  BY DEF Holds
<1>3. /\ transfer'[h] = u
      /\ \A g \in Handles : g # h => transfer'[g] = transfer[g]
  BY <1>1, <1>2, Saving DEF TransferInv
<1>4. stage[op] = "copying" /\ t.capture = "started" /\ ~closed
      /\ UNCHANGED <<starts, given, verified>>
  BY DEF CopyPayload, Holds
<1> HIDE DEF t, h
<1>5. t.producer = op /\ Started(op)
  BY <1>1, <1>4 DEF CommandOK, Binds, Ended, Started
<1>6. ~verified
  BY <1>4 DEF TransferInv, SweepsOK
<1>7. \A g \in Handles : /\ transfer'[g].producer = transfer[g].producer
                         /\ transfer'[g].consumer = transfer[g].consumer
                         /\ transfer'[g].destination = transfer[g].destination
                         /\ Custody(transfer'[g])
                               = IF g = h THEN "held" ELSE Custody(transfer[g])
  BY <1>1, <1>2, <1>3 DEF Custody
<1>8. Custody(t) = "none"
  BY <1>4 DEF Custody
<1>9. Contract!Hold(h)
  BY <1>1, <1>4, <1>5, <1>6, <1>7, <1>8 DEF Contract!Hold, Started
<1>10. QED
  BY <1>1, <1>9 DEF Contract!Next

\* The input is written for a command that has not started.
LEMMA ContractHandOver ==
    ASSUME TransferInv, NEW op \in Operations, HandOver(op)
    PROVE  Contract!Next \/ UNCHANGED Contract!contractVars
<1>1. /\ Transfer(op) = transfer[op.handle] /\ op.handle \in Handles
      /\ CommandOK(op, Transfer(op), phase[op], stage[op], starts[op], process[op],
                   given[op])
  BY StepFacts
<1>2. starts[op] = 0 /\ UNCHANGED <<starts, verified>>
  BY <1>1 DEF HandOver, CommandOK, sweeps
<1>3. CASE Save(op.handle, Interrupted(Transfer(op))) /\ UNCHANGED given
  <2>1. Commits(op.handle)
    BY <1>1, <1>2, <1>3, SweptAllowed DEF Commits
  <2>2. QED
    BY <1>1, <2>1, ContractCommit
<1>4. CASE given' = [given EXCEPT ![op] = Transfer(op).inbox] /\ UNCHANGED transfer
  <2>1. ~Started(op)
    BY <1>2 DEF Started
  <2>2. \A q : q # op => given'[q] = given[q]
    BY <1>4 DEF TransferInv, TransferTypeOK
  <2>3. \A h \in Handles : GotOf(h)' = GotOf(h)
    BY <1>2, <1>4, <2>1, <2>2 DEF GotOf, Started
  <2>4. [h \in Handles |-> GotOf(h)]' = [h \in Handles |-> GotOf(h)]
    BY <2>3
  <2>5. QED
    BY <1>2, <1>4, <2>4 DEF Contract!contractVars, Started, GotOf
<1>5. QED
  BY <1>3, <1>4 DEF HandOver

\* A start is the producer's, or the addressee's with what the producer left.
LEMMA ContractLaunch ==
    ASSUME TransferInv, Parties, NEW op \in Operations, Launch(op)
    PROVE  Contract!Next \/ UNCHANGED Contract!contractVars
<1> DEFINE t == Transfer(op)
           h == op.handle
<1>1. /\ t = transfer[h] /\ h \in Handles /\ RowOK(t) /\ t \in Transfers
      /\ op # NoOne /\ op.role \in {"capture", "consume"}
      /\ CommandOK(op, t, phase[op], stage[op], starts[op], process[op], given[op])
  BY StepFacts
<1>2. UNCHANGED <<transfer, given, verified>> /\ stage[op] = "admitted"
  BY DEF Launch, vault, sweeps
<1>3. CASE UNCHANGED starts
  BY <1>2, <1>3 DEF Contract!contractVars, Started
<1>4. CASE starts' = [starts EXCEPT ![op] = @ + 1]
  <2>1. starts[op] = 0 /\ starts'[op] = 1 /\ \A q : q # op => starts'[q] = starts[q]
    BY <1>1, <1>2, <1>4 DEF CommandOK, TransferInv, TransferTypeOK
  <2>2. ~Started(op) /\ Started(op)' /\ \A q : q # op => Started(q)' = Started(q)
    BY <1>1, <2>1 DEF Started
  <2>3. Binds(t, op)
    BY <1>1, <1>2 DEF CommandOK
  <2> HIDE DEF t, h
  <2>4. CASE op.role = "capture"
    <3>1. t.producer = op
      BY <2>3, <2>4 DEF Binds
    <3>2. \A g \in Handles : /\ transfer[g].producer = op => g = h
                             /\ transfer[g].consumer # op
      BY <1>1, <2>4 DEF Parties, h
    <3>3. \A g \in Handles : /\ SenderOf(g)' = IF g = h THEN op ELSE SenderOf(g)
                             /\ ReceiverOf(g)' = ReceiverOf(g) /\ GotOf(g)' = GotOf(g)
      BY <1>1, <1>2, <2>2, <3>1, <3>2 DEF SenderOf, ReceiverOf, GotOf, Started
    <3>4. SenderOf(h) = NoOne
      BY <1>1, <2>2, <3>1 DEF SenderOf
    <3>5. Custody(t) # "held" /\ op.by = Owner
      <4>1. t.sent = "none"
        BY <1>1, <2>1, <2>3, <2>4 DEF CommandOK, Ended, Transfers, Receipts
      <4>2. op.by = Owner
        BY <1>1, <3>1 DEF Parties
      <4>3. QED
        BY <1>1, <4>1, <4>2 DEF RowOK, Custody
    <3>6. Contract!Send(op)
      BY <1>1, <1>2, <2>4, <3>3, <3>4, <3>5
         DEF Contract!Send, SenderOf, ReceiverOf, GotOf, h
    <3>7. QED
      BY <3>6 DEF Contract!Next
  <2>5. CASE op.role = "consume"
    <3>1. t.consumer = op /\ given[op] = t.producer /\ op.by = t.destination
      BY <1>1, <1>2, <2>3, <2>5 DEF Binds, CommandOK
    <3>2. \A g \in Handles : /\ transfer[g].consumer = op => g = h
                             /\ transfer[g].producer # op
      BY <1>1, <2>5 DEF Parties, h
    <3>3. /\ t.delivered /\ t.producer # NoOne /\ t.sent = "clean"
          /\ Custody(t) \in {"held", "over"}
      BY <1>1, <3>1 DEF RowOK, Custody, Transfers
    <3>4. t.producer \in Operations /\ t.producer.handle = h /\ t.producer.role = "capture"
      BY <1>1, <3>3 DEF Parties
    <3>5. Started(t.producer)
      <4>1. CommandOK(t.producer, t, phase[t.producer], stage[t.producer],
                      starts[t.producer], process[t.producer], given[t.producer])
        BY <1>1, <3>4 DEF TransferInv, OperationOK
      <4>2. QED
        BY <3>3, <3>4, <4>1 DEF CommandOK, Binds, Ended, Started
    <3>6. \A g \in Handles : /\ SenderOf(g)' = SenderOf(g)
                             /\ ReceiverOf(g)' = IF g = h THEN op ELSE ReceiverOf(g)
                             /\ GotOf(g)' = IF g = h THEN t.producer ELSE GotOf(g)
      BY <1>1, <1>2, <2>2, <3>1, <3>2 DEF SenderOf, ReceiverOf, GotOf, Started
    <3>7. ReceiverOf(h) = NoOne /\ SenderOf(h) = t.producer
      BY <1>1, <2>2, <3>1, <3>5 DEF ReceiverOf, SenderOf
    <3>8. Contract!Receive(op)
      BY <1>1, <1>2, <2>5, <3>1, <3>3, <3>4, <3>6, <3>7
         DEF Contract!Receive, SenderOf, ReceiverOf, GotOf, h
    <3>9. QED
      BY <3>8 DEF Contract!Next
  <2>6. QED
    BY <1>1, <2>4, <2>5
<1>5. QED
  BY <1>3, <1>4 DEF Launch

\* A verified cleanup empties the vault; any other is not seen.
LEMMA ContractVerify ==
    ASSUME TransferInv, Verify
    PROVE  Contract!Next \/ UNCHANGED Contract!contractVars
<1>1. UNCHANGED <<transfer, starts, given>>
      /\ verified' = (verified \/ \A h \in Handles : ~Held(h))
  BY DEF Verify, vault, native
<1>2. CASE \A h \in Handles : ~Held(h)
  <2>1. \A h \in Handles : Custody(transfer[h]) # "held"
    BY <1>2 DEF Held, Custody
  <2>2. Contract!Empty
    BY <1>1, <1>2, <2>1 DEF Contract!Empty, Started
  <2>3. QED
    BY <2>2 DEF Contract!Next
<1>3. CASE ~\A h \in Handles : ~Held(h)
  <2>1. verified' = verified
    BY <1>1, <1>3 DEF TransferInv, TransferTypeOK
  <2>2. QED
    BY <1>1, <2>1 DEF Contract!contractVars, Started
<1>4. QED
  BY <1>2, <1>3

\* Every step is one of the contract, or is not seen.
LEMMA ContractStep ==
    ASSUME TransferInv, Parties, [TransferNext]_vars
    PROVE  Contract!Next \/ UNCHANGED Contract!contractVars
<1>1. CASE UNCHANGED <<transfer, starts, given, verified>>
  BY <1>1 DEF Contract!contractVars, Started
<1>2. QED
  BY <1>1, StepKinds, ContractCommit, ContractHandoff, ContractHold, ContractHandOver,
     ContractLaunch, ContractVerify

(* The vault and the controller keep the contract of a transfer: whatever   *)
(* is claimed, admitted, interrupted, expired or restarted, one command of  *)
(* the owner produces, the address changes once, and one command of the     *)
(* addressee is given what the producer left (native_exec.rs, custody.rs).  *)
THEOREM VaultImplementsCustody == TransferSpec => CustodyIsKept
<1>1. TransferInv /\ Parties /\ [TransferNext]_vars
        => [Contract!Next]_Contract!contractVars
  BY ContractStep
<1>2. QED
  BY <1>1, ContractInit, TransferInvariant, PartiesHold, PTL
     DEF TransferSpec, CustodyIsKept, Contract!Spec
=============================================================================
