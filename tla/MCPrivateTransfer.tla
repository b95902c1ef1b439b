------------------------- MODULE MCPrivateTransfer -------------------------
(***************************************************************************)
(* Commands that compete for the two sides of one transfer.                *)
(***************************************************************************)
EXTENDS PrivateTransfer, TLC

CONSTANTS h1, owner, agent, one, another

Command(n, h, r, a) == [name |-> n, handle |-> h, role |-> r, by |-> a]

\* Two producers; a consumer of the owner's and one of the recipient's.
Competing ==
    {Command(one, h1, "capture", owner), Command(another, h1, "capture", owner),
     Command(owner, h1, "consume", owner), Command(agent, h1, "consume", agent)}

\* The two producers are alike.
Alike == Permutations({one, another})
=============================================================================
