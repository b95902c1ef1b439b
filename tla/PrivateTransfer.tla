--------------------------- MODULE PrivateTransfer --------------------------
(***************************************************************************)
(* Private payloads between the wallets of one cell.                       *)
(*                                                                         *)
(* The vault of a cell keeps a transfer per handle: a native command of    *)
(* the source wallet produces a payload, the controller captures it,       *)
(* delivers it to the inbox of the destination and hands it to one native  *)
(* command there.  A command may move money, so it never runs twice: the   *)
(* status of its action claims it, then the vault admits it, and a crash   *)
(* in between leaves the outcome unknown.                                  *)
(*                                                                         *)
(* A call of the vault commits one SQLite transaction, or several that     *)
(* check the revision of what the call read: such a transaction is one     *)
(* action here, and a call that meets a newer revision changes nothing.    *)
(* Reconciles of different actions interleave between transactions.        *)
(***************************************************************************)
EXTENDS Naturals, FiniteSets

CONSTANTS
    Handles,      \* references of transfers
    Operations,   \* native commands bound to a payload, see the assumption
    Owner,        \* the authority that prepares transfers
    Recipients,   \* authorities a transfer may be handed to
    NoOne,
    Garbled,      \* bytes that are not what the producer wrote
    NoPayload,
    MaxActive,    \* Limits::active_transfers
    MaxCrashes    \* bound on restarts of the controller

Authorities == {Owner} \union Recipients
Payloads    == Operations \union {NoPayload}

ASSUME TransferAssumption ==
    /\ \A op \in Operations :
          /\ op.handle \in Handles
          /\ op.role \in {"capture", "consume"}
          /\ op.by \in Authorities
    /\ Owner \notin Recipients
    /\ NoOne \notin Operations
    /\ {Garbled, NoPayload} \cap Operations = {} /\ Garbled # NoPayload
    /\ MaxActive \in Nat /\ MaxCrashes \in Nat

VARIABLES
    transfer,    \* the row of every handle, with its two payload rows
    closed,      \* identity.closed
    late,        \* handles past expires_at_unix
    phase,       \* status phase of every action
    shown,       \* actions whose claim a reconcile has seen
    stage,       \* where the reconcile of an action stands
    process,     \* the native command of every action
    starts,      \* how often it was started
    given,       \* the private input written for it
    expiring,    \* handles that an expire call has interrupted
    closing,     \* a close call is running
    todo,        \* handles it has still to interrupt
    halfway,     \* handles it has still to erase
    verified,    \* storage_cleanup_verified
    crashes

vault   == <<transfer, closed, late>>
action  == <<phase, shown>>
native  == <<process, starts, given>>
sweeps  == <<expiring, closing, todo, halfway, verified>>
vars    == <<vault, action, stage, native, sweeps, crashes>>

-----------------------------------------------------------------------------
Receipts == {"none", "clean", "dirty"}

Transfers ==
    [capture : {"absent", "reserved", "started", "ready", "unknown",
                "released", "expired"},
     destination : Authorities,
     producer : Operations \union {NoOne}, consumer : Operations \union {NoOne},
     sent : Receipts, received : Receipts,
     sourceInterrupted : BOOLEAN, receiverInterrupted : BOOLEAN,
     manifest : BOOLEAN, delivered : BOOLEAN, inputStarted : BOOLEAN,
     body : Payloads, inbox : Payloads]

Absent ==
    [capture |-> "absent", destination |-> Owner,
     producer |-> NoOne, consumer |-> NoOne, sent |-> "none", received |-> "none",
     sourceInterrupted |-> FALSE, receiverInterrupted |-> FALSE,
     manifest |-> FALSE, delivered |-> FALSE, inputStarted |-> FALSE,
     body |-> NoPayload, inbox |-> NoPayload]

\* The transfer takes capacity: its two payload rows exist.
Held(h) == transfer[h].capture \in {"reserved", "started", "ready", "unknown"}

Usable(h) == Held(h) /\ h \notin late

\* Faulty variant: nobody asks whether the vault is closed.
AlwaysOpen == TRUE

AdmissionOpen == ~closed

Admits(h) == AdmissionOpen /\ Usable(h)

\* A bound command without a receipt may still be at work.
Unresolved(t) ==
    t.consumer # NoOne /\ t.received = "none" /\ ~t.receiverInterrupted

\* Faulty variant: the receiver is not asked.
BusyProducing(t) == t.capture = "started"

Busy(t) == t.capture = "started" \/ Unresolved(t)

Interrupted(t) ==
    [t EXCEPT
        !.sourceInterrupted = @ \/ (t.producer # NoOne /\ t.sent = "none"),
        !.capture = IF @ = "started" THEN "unknown" ELSE @,
        !.receiverInterrupted = @ \/ (t.consumer # NoOne /\ t.received = "none")]

Erased(t, end) ==
    [t EXCEPT !.capture = end, !.body = NoPayload, !.inbox = NoPayload]

Save(h, t) == transfer' = [transfer EXCEPT ![h] = t]

-----------------------------------------------------------------------------
TransferInit ==
    /\ transfer = [h \in Handles |-> Absent]
    /\ closed = FALSE
    /\ late = {}
    /\ phase = [op \in Operations |-> "pending"]
    /\ shown = {}
    /\ stage = [op \in Operations |-> "idle"]
    /\ process = [op \in Operations |-> "none"]
    /\ starts = [op \in Operations |-> 0]
    /\ given = [op \in Operations |-> NoPayload]
    /\ expiring = {}
    /\ closing = FALSE
    /\ todo = {}
    /\ halfway = {}
    /\ verified = FALSE
    /\ crashes = 0

-----------------------------------------------------------------------------
(* Transfer actions: each is one call of the vault.  The cell that the     *)
(* call looked up may be deleted since, so nothing here asks for a live    *)
(* cell; the vault does, with its closed flag.                             *)

\* A repeated request finds its transfer and changes nothing.
Prepare(h) ==
    /\ AdmissionOpen
    /\ transfer[h] = Absent
    /\ Cardinality({g \in Handles : Held(g)}) < MaxActive
    /\ Save(h, [Absent EXCEPT !.capture = "reserved"])
    /\ UNCHANGED <<closed, late, action, stage, native, sweeps, crashes>>

\* Faulty variant: the recipient may change after the delivery.
MayHandOffDelivered(t) == t.capture = "ready" /\ t.destination = Owner

MayHandOff(t) ==
    /\ t.capture = "ready"
    /\ t.destination = Owner
    /\ ~t.delivered
    /\ t.consumer = NoOne

Handoff(h, r) ==
    /\ Admits(h)
    /\ MayHandOff(transfer[h])
    /\ Save(h, [transfer[h] EXCEPT !.destination = r])
    /\ UNCHANGED <<closed, late, action, stage, native, sweeps, crashes>>

\* A repeated delivery verifies the inbox and changes nothing.
Deliver(h) ==
    /\ Admits(h)
    /\ transfer[h].capture = "ready"
    /\ ~transfer[h].delivered
    /\ Save(h, [transfer[h] EXCEPT !.delivered = TRUE, !.inbox = transfer[h].body])
    /\ UNCHANGED <<closed, late, action, stage, native, sweeps, crashes>>

Release(h) ==
    /\ transfer[h].capture # "absent"
    /\ ~Busy(transfer[h])
    /\ Save(h, Erased(transfer[h], "released"))
    /\ UNCHANGED <<closed, late, action, stage, native, sweeps, crashes>>

-----------------------------------------------------------------------------
(* The start of a native command.                                          *)

Goto(op, s) == stage' = [stage EXCEPT ![op] = s]
Conclude(op, p) == phase' = [phase EXCEPT ![op] = p]
Transfer(op) == transfer[op.handle]

Configurable(op) ==
    LET t == Transfer(op) IN
    /\ t.capture # "absent"
    /\ IF op.role = "capture"
       THEN op.by = Owner /\ t.producer = NoOne
       ELSE op.by = t.destination /\ t.delivered /\ t.consumer = NoOne

\* The reconcile sees the action unclaimed: its cache may lag.  A refusal is written over
\* whatever the status is: the cell may be closing or the access revoked, so
\* an action that could be configured may be refused too.
Configure(op) ==
    /\ stage[op] = "idle"
    /\ phase[op] \in {"pending", "cancelling", "running"}
    /\ op \notin shown
    /\ \/ /\ Configurable(op)
          /\ Goto(op, "configured")
          /\ UNCHANGED phase
       \/ Conclude(op, "refused") /\ UNCHANGED stage
    /\ UNCHANGED <<vault, shown, native, sweeps, crashes>>

\* Wins if the observed version is still the current one.
Claim(op) ==
    /\ stage[op] = "configured"
    /\ IF phase[op] = "pending"
       THEN Conclude(op, "running") /\ Goto(op, "claimed")
       ELSE Goto(op, "idle") /\ UNCHANGED phase
    /\ UNCHANGED <<vault, shown, native, sweeps, crashes>>

\* Faulty variant: a capture that was started may be started again.
MayCaptureAgain(op) ==
    /\ Admits(op.handle) /\ op.by = Owner
    /\ Transfer(op).capture \in {"reserved", "started"}

MayCapture(op) ==
    Admits(op.handle) /\ op.by = Owner /\ Transfer(op).capture = "reserved"

MayReceive(op) ==
    /\ Admits(op.handle)
    /\ op.by = Transfer(op).destination
    /\ Transfer(op).delivered
    /\ Transfer(op).consumer = NoOne

\* begin_capture or begin_receive.
Begin(op) ==
    /\ stage[op] = "claimed"
    /\ \/ /\ op.role = "capture" /\ MayCapture(op)
          /\ Save(op.handle,
                  [Transfer(op) EXCEPT !.capture = "started", !.producer = op])
          /\ Goto(op, "admitted")
       \/ /\ op.role = "consume" /\ MayReceive(op)
          /\ Save(op.handle, [Transfer(op) EXCEPT !.consumer = op])
          /\ Goto(op, "bound")
    /\ UNCHANGED <<closed, late, action, native, sweeps, crashes>>

\* The vault refuses, the cell is closing or the access is revoked.
RefuseStart(op) ==
    /\ stage[op] = "claimed"
    /\ Conclude(op, "refused")
    /\ Goto(op, "idle")
    /\ UNCHANGED <<vault, shown, native, sweeps, crashes>>

MayConsume(op) ==
    /\ Admits(op.handle)
    /\ op.by = Transfer(op).destination
    /\ Transfer(op).consumer = op
    /\ Transfer(op).received = "none"
    /\ ~Transfer(op).receiverInterrupted
    /\ ~Transfer(op).inputStarted

\* consume commits the input fence before it reads a byte.
Fence(op) ==
    /\ stage[op] = "bound"
    /\ \/ /\ MayConsume(op)
          /\ Save(op.handle, [Transfer(op) EXCEPT !.inputStarted = TRUE])
          /\ Goto(op, "fenced")
          /\ UNCHANGED phase
       \/ /\ ~MayConsume(op)
          /\ Conclude(op, "refused")
          /\ Goto(op, "idle")
          /\ UNCHANGED transfer
    /\ UNCHANGED <<closed, late, shown, native, sweeps, crashes>>

\* The inbox is read after the transaction: it may be erased by then.
HandOver(op) ==
    /\ stage[op] = "fenced"
    /\ \/ /\ Transfer(op).inbox # NoPayload
          /\ given' = [given EXCEPT ![op] = Transfer(op).inbox]
          /\ Goto(op, "admitted")
          /\ UNCHANGED <<transfer, phase>>
       \/ /\ Transfer(op).inbox = NoPayload
          /\ Save(op.handle, Interrupted(Transfer(op)))
          /\ Conclude(op, "refused")
          /\ Goto(op, "idle")
          /\ UNCHANGED given
    /\ UNCHANGED <<closed, late, shown, process, starts, sweeps, crashes>>

\* The request to start may be lost; it is not repeated.
Launch(op) ==
    /\ stage[op] = "admitted"
    /\ Goto(op, "idle")
    /\ \/ /\ process' = [process EXCEPT ![op] = "running"]
          /\ starts' = [starts EXCEPT ![op] = @ + 1]
       \/ UNCHANGED <<process, starts>>
    /\ UNCHANGED <<vault, action, given, sweeps, crashes>>

\* The transport of the private input breaks: the command is not started.
InputLost(op) ==
    /\ stage[op] = "admitted" /\ op.role = "consume"
    /\ Conclude(op, "refused")
    /\ Goto(op, "idle")
    /\ UNCHANGED <<vault, shown, native, sweeps, crashes>>

\* The annotation counts for every reconcile that sees it.
Cancel(op) ==
    /\ phase[op] = "pending"
    /\ Conclude(op, "cancelling")
    /\ UNCHANGED <<vault, shown, stage, native, sweeps, crashes>>

\* reconcile_action_cancellation of a command that was not claimed.
FinishCancel(op) ==
    /\ phase[op] = "cancelling" /\ stage[op] = "idle"
    /\ Conclude(op, "cancelled")
    /\ UNCHANGED <<vault, shown, stage, native, sweeps, crashes>>

-----------------------------------------------------------------------------
(* The native command and the collection of what it leaves.                *)

\* A clean receipt, or one of a failed, cancelled or unclean command.
Exit(op) ==
    /\ process[op] = "running"
    /\ \E receipt \in {"clean", "dirty"} :
          process' = [process EXCEPT ![op] = receipt]
    /\ UNCHANGED <<vault, action, stage, starts, given, sweeps, crashes>>

\* A reconcile that sees the claim polls; no later one can miss it again.
Polls(op) ==
    /\ phase[op] = "running" /\ stage[op] = "idle"
    /\ shown' = shown \union {op}

Exited(op) == process[op] \in {"clean", "dirty"}

\* Kept even if the transfer was erased meanwhile.
FinishReceive(op) ==
    /\ Polls(op) /\ Exited(op) /\ op.role = "consume"
    /\ Transfer(op).consumer = op
    /\ Save(op.handle, [Transfer(op) EXCEPT
                           !.received = IF @ = "none" THEN process[op] ELSE @])
    /\ Goto(op, "collected")
    /\ UNCHANGED <<closed, late, phase, native, sweeps, crashes>>

FinishSource(op) ==
    /\ Polls(op) /\ Exited(op) /\ op.role = "capture"
    /\ Transfer(op).producer = op
    /\ LET t == [Transfer(op) EXCEPT
                    !.sent = IF @ = "none" THEN process[op] ELSE @,
                    !.capture = IF @ = "started" /\ process[op] = "dirty"
                                THEN "unknown" ELSE @]
       IN  /\ Save(op.handle, t)
           /\ Goto(op, IF t.capture = "started" THEN "sourced" ELSE "collected")
    /\ UNCHANGED <<closed, late, phase, native, sweeps, crashes>>

\* There is no valid manifest, the cell is closing or the access is gone.
InterruptCustody(op) ==
    /\ stage[op] = "sourced"
    /\ Save(op.handle, Interrupted(Transfer(op)))
    /\ Goto(op, "collected")
    /\ UNCHANGED <<closed, late, action, native, sweeps, crashes>>

\* The first transactions of capture: the receipt again, and the manifest.
KeepManifest(op) ==
    /\ stage[op] = "sourced"
    /\ IF Usable(op.handle) /\ Transfer(op).capture = "started"
       THEN /\ Save(op.handle, [Transfer(op) EXCEPT !.manifest = TRUE])
            /\ Goto(op, "copying")
       ELSE Goto(op, "idle") /\ UNCHANGED transfer
    /\ UNCHANGED <<closed, late, action, native, sweeps, crashes>>

Intact(op, bytes) == bytes = op

\* capture_staged: the bytes and the phase in one transaction.  After a bad
\* copy a transaction of its own gives the custody up, if it comes to that;
\* otherwise the next poll copies again.
CopyPayload(op) ==
    /\ stage[op] = "copying"
    /\ IF Admits(op.handle) /\ Transfer(op).capture = "started"
       THEN \E bytes \in {op, Garbled} :
               \/ /\ Intact(op, bytes)
                  /\ Save(op.handle, [Transfer(op) EXCEPT
                                         !.capture = "ready", !.body = bytes])
                  /\ Goto(op, "collected")
               \/ /\ ~Intact(op, bytes)
                  /\ \/ Save(op.handle, [Transfer(op) EXCEPT !.capture = "unknown"])
                     \/ UNCHANGED transfer
                  /\ Goto(op, "idle")
       ELSE Goto(op, "idle") /\ UNCHANGED transfer
    /\ UNCHANGED <<closed, late, action, native, sweeps, crashes>>

Finish(op) ==
    /\ stage[op] = "collected"
    /\ Conclude(op, "finished")
    /\ Goto(op, "idle")
    /\ UNCHANGED <<vault, shown, native, sweeps, crashes>>

\* No receipt, or no custody, within the time of the command; or its pod is gone.
GiveUp(op) ==
    /\ Polls(op)
    /\ Conclude(op, "failed")
    /\ UNCHANGED <<vault, stage, native, sweeps, crashes>>

-----------------------------------------------------------------------------
(* Retention and cleanup.                                                  *)

Expires(h) ==
    /\ transfer[h].capture # "absent"
    /\ h \notin late
    /\ late' = late \union {h}
    /\ UNCHANGED <<transfer, closed, action, stage, native, sweeps, crashes>>

\* expire runs before transfer actions, starts and applies.
ExpireInterrupt(h) ==
    /\ h \in late /\ Held(h) /\ h \notin expiring
    /\ Save(h, Interrupted(transfer[h]))
    /\ expiring' = expiring \union {h}
    /\ UNCHANGED <<closed, late, action, stage, native, closing, todo, halfway,
                   verified, crashes>>

ExpireErase(h) ==
    /\ h \in expiring
    /\ Save(h, Erased(transfer[h], "expired"))
    /\ expiring' = expiring \ {h}
    /\ UNCHANGED <<closed, late, action, stage, native, closing, todo, halfway,
                   verified, crashes>>

\* A call that meets a newer revision fails; cleanup then runs it from the start.
Close ==
    /\ closed' = TRUE
    /\ closing' = TRUE
    /\ todo' = {h \in Handles : transfer[h].capture # "absent"}
    /\ halfway' = {}
    /\ UNCHANGED <<transfer, late, action, stage, native, expiring, verified,
                   crashes>>

CloseInterrupt(h) ==
    /\ h \in todo
    /\ Save(h, Interrupted(transfer[h]))
    /\ todo' = todo \ {h}
    /\ halfway' = halfway \union {h}
    /\ UNCHANGED <<closed, late, action, stage, native, expiring, closing,
                   verified, crashes>>

CloseErase(h) ==
    /\ h \in halfway
    /\ Save(h, Erased(transfer[h], "released"))
    /\ halfway' = halfway \ {h}
    /\ UNCHANGED <<closed, late, action, stage, native, expiring, closing, todo,
                   verified, crashes>>

Verify ==
    /\ closing /\ todo = {} /\ halfway = {}
    /\ closing' = FALSE
    /\ verified' = (verified \/ \A h \in Handles : ~Held(h))
    /\ UNCHANGED <<vault, action, stage, native, expiring, todo, halfway, crashes>>

\* The controller is restarted: every call ends where it stands.
Crash ==
    /\ crashes < MaxCrashes
    /\ crashes' = crashes + 1
    /\ stage' = [op \in Operations |-> "idle"]
    /\ expiring' = {}
    /\ closing' = FALSE
    /\ todo' = {}
    /\ halfway' = {}
    /\ UNCHANGED <<vault, action, native, verified>>

-----------------------------------------------------------------------------
Start(op) ==
    \/ Configure(op) \/ Claim(op) \/ Begin(op) \/ RefuseStart(op)
    \/ Fence(op) \/ HandOver(op) \/ Launch(op) \/ InputLost(op)
    \/ Cancel(op) \/ FinishCancel(op)

Collect(op) ==
    \/ Exit(op) \/ FinishReceive(op) \/ FinishSource(op)
    \/ InterruptCustody(op) \/ KeepManifest(op) \/ CopyPayload(op) \/ Finish(op) \/ GiveUp(op)

Retain(h) ==
    \/ Expires(h) \/ ExpireInterrupt(h) \/ ExpireErase(h)
    \/ CloseInterrupt(h) \/ CloseErase(h)

TransferNext ==
    \/ \E h \in Handles : Prepare(h) \/ Deliver(h) \/ Release(h) \/ Retain(h)
    \/ \E h \in Handles, r \in Recipients : Handoff(h, r)
    \/ \E op \in Operations : Start(op) \/ Collect(op)
    \/ Close \/ Verify \/ Crash

TransferSpec == TransferInit /\ [][TransferNext]_vars

-----------------------------------------------------------------------------
(* Properties.                                                             *)

\* Types of the state.  Payload rows and inputs hold what a producer wrote and
\* nothing else: bytes that do not match the manifest are rolled back (capture).
TransferTypeOK ==
    /\ transfer \in [Handles -> Transfers]
    /\ closed \in BOOLEAN /\ late \subseteq Handles
    /\ phase \in [Operations -> {"pending", "cancelling", "running", "refused",
                                 "cancelled", "finished", "failed"}]
    /\ shown \subseteq Operations
    /\ stage \in [Operations -> {"idle", "configured", "claimed", "bound",
                                 "fenced", "admitted", "sourced", "copying",
                                 "collected"}]
    /\ process \in [Operations -> {"none", "running", "clean", "dirty"}]
    /\ starts \in [Operations -> Nat]
    /\ given \in [Operations -> Payloads]
    /\ expiring \subseteq Handles /\ closing \in BOOLEAN
    /\ todo \subseteq Handles /\ halfway \subseteq Handles
    /\ verified \in BOOLEAN
    /\ crashes \in 0..MaxCrashes

\* The one command that a side of a transfer is bound to.
BoundTo(op) ==
    IF op.role = "capture" THEN Transfer(op).producer = op
                           ELSE Transfer(op).consumer = op

\* Whatever fails, restarts or is submitted again, each side of a transfer
\* runs one native command at most, and runs it once (begin_capture,
\* begin_receive, and the conditional status write that claims an action).
SpentOnce ==
    \A op \in Operations : starts[op] <= 1 /\ (starts[op] > 0 => BoundTo(op))

\* A consumer starts with the bytes that the transfer's producer left after a
\* clean exit, and only if its authority is the transfer's destination, which
\* does not change any more (handoff, deliver, begin_receive, consume).
RecipientGetsPayload ==
    \A op \in Operations :
       starts[op] > 0 /\ op.role = "consume" =>
          /\ given[op] = Transfer(op).producer
          /\ Transfer(op).sent = "clean"
          /\ op.by = Transfer(op).destination

\* While the vault is open and the retention lasts, a transfer is only released
\* when its commands have left their receipts: none of them still runs, or is
\* still to be started (release, erase).
ReleasedIsQuiet ==
    \A op \in Operations :
       /\ Transfer(op).capture = "released"
       /\ ~closed /\ op.handle \notin late
       /\ BoundTo(op)
       => process[op] # "running" /\ stage[op] \notin {"bound", "fenced", "admitted"}

\* Once a cleanup is verified the vault holds no payload and never takes one
\* again, whatever calls were under way (close, admission).
CleanupIsFinal ==
    verified => \A h \in Handles :
                   /\ ~Held(h)
                   /\ transfer[h].body = NoPayload /\ transfer[h].inbox = NoPayload

\* The contract of the two wallets (CustodyContract): a command counts for them
\* once it was started.
Started(op) == op # NoOne /\ starts[op] > 0

\* A payload that was delivered may still be spent after the vault dropped it.
Custody(t) ==
    IF t.capture \in {"absent", "reserved", "started"} THEN "none"
    ELSE IF t.capture = "ready" THEN "held"
    ELSE IF t.delivered THEN "over" ELSE "lost"

\* Whatever restarts, expires or is asked for again, the two wallets see the
\* contract of a transfer: claims, admissions, fences and receipts are how the
\* vault and the controller keep it.
Contract == INSTANCE CustodyContract WITH
    sender    <- [h \in Handles |-> IF Started(transfer[h].producer)
                                    THEN transfer[h].producer ELSE NoOne],
    custody   <- [h \in Handles |-> Custody(transfer[h])],
    addressee <- [h \in Handles |-> transfer[h].destination],
    receiver  <- [h \in Handles |-> IF Started(transfer[h].consumer)
                                    THEN transfer[h].consumer ELSE NoOne],
    got       <- [h \in Handles |-> IF Started(transfer[h].consumer)
                                    THEN given[transfer[h].consumer] ELSE NoPayload],
    emptied   <- verified

CustodyIsKept == Contract!Spec
=============================================================================
