-------------------------- MODULE CustodyContract --------------------------
(***************************************************************************)
(* What the vault and the controller promise the two wallets of a private  *)
(* transfer, with no row, claim or restart in it: one command of the owner *)
(* produces the payload, the vault holds it once, its address changes once *)
(* and not after it was spent, one command of the addressee is given what  *)
(* the producer wrote, and an emptied vault stays empty.                   *)
(***************************************************************************)
CONSTANTS Handles, Operations, Owner, Recipients, NoOne, NoPayload

VARIABLES
    sender,     \* sender[h]: the command that was started to produce, or NoOne
    custody,    \* custody[h]: none, held, over, or lost if nobody will spend it
    addressee,  \* addressee[h]: the authority that may spend the payload
    receiver,   \* receiver[h]: the command that was started to spend, or NoOne
    got,        \* got[h]: what it was given
    emptied     \* the cleanup of the vault was verified

contractVars == <<sender, custody, addressee, receiver, got, emptied>>

Init ==
    /\ sender = [h \in Handles |-> NoOne]
    /\ custody = [h \in Handles |-> "none"]
    /\ addressee = [h \in Handles |-> Owner]
    /\ receiver = [h \in Handles |-> NoOne]
    /\ got = [h \in Handles |-> NoPayload]
    /\ emptied = FALSE

\* The command may start when the transfer is already given up.
Send(op) ==
    /\ op.role = "capture" /\ op.by = Owner
    /\ sender[op.handle] = NoOne
    /\ custody[op.handle] # "held"
    /\ sender' = [sender EXCEPT ![op.handle] = op]
    /\ UNCHANGED <<custody, addressee, receiver, got, emptied>>

Hold(h) ==
    /\ custody[h] = "none" /\ sender[h] # NoOne
    /\ ~emptied
    /\ custody' = [custody EXCEPT ![h] = "held"]
    /\ UNCHANGED <<sender, addressee, receiver, got, emptied>>

Readdress(h, r) ==
    /\ custody[h] = "held"
    /\ addressee[h] = Owner /\ receiver[h] = NoOne
    /\ addressee' = [addressee EXCEPT ![h] = r]
    /\ UNCHANGED <<sender, custody, receiver, got, emptied>>

\* What was handed over is spent even if the vault has dropped it since.
Receive(op) ==
    /\ op.role = "consume" /\ op.by = addressee[op.handle]
    /\ receiver[op.handle] = NoOne
    /\ custody[op.handle] \in {"held", "over"} /\ sender[op.handle] # NoOne
    /\ receiver' = [receiver EXCEPT ![op.handle] = op]
    /\ got' = [got EXCEPT ![op.handle] = sender[op.handle]]
    /\ UNCHANGED <<sender, custody, addressee, emptied>>

Drop(h) ==
    /\ \/ custody[h] = "held" /\ custody' = [custody EXCEPT ![h] = "over"]
       \/ custody[h] \in {"none", "held"} /\ custody' = [custody EXCEPT ![h] = "lost"]
    /\ UNCHANGED <<sender, addressee, receiver, got, emptied>>

Empty ==
    /\ \A h \in Handles : custody[h] # "held"
    /\ emptied' = TRUE
    /\ UNCHANGED <<sender, custody, addressee, receiver, got>>

Next ==
    \/ \E op \in Operations : Send(op) \/ Receive(op)
    \/ \E h \in Handles : Hold(h) \/ Drop(h)
    \/ \E h \in Handles, r \in Recipients : Readdress(h, r)
    \/ Empty

Spec == Init /\ [][Next]_contractVars
=============================================================================
