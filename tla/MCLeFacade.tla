----------------------------- MODULE MCLeFacade -----------------------------
(* Model values and bounds for LeFacade.                                   *)
EXTENDS LeFacade

CONSTANTS p1, p2, r1, pub, none

MCPeers == {p1, p2}
MCHandles == {1, 2}

\* One prand: no rotation is run here, only the constructor's.
MCRandoms == {<<0, 0, 255>>}
=============================================================================
