------------------------- MODULE MCComponentControls ------------------------
EXTENDS ComponentControls, TLC

CONSTANTS stop, start, restart

MCControls == {stop, start, restart}
MCKind     == (stop :> "stop") @@ (start :> "start") @@ (restart :> "restart")
=============================================================================
