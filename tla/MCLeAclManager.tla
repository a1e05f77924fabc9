--------------------------- MODULE MCLeAclManager ---------------------------
(* Model values and bounds for LeAclManager.                               *)
EXTENDS LeAclManager

CONSTANTS p1, p2, p3, r1, s1, pub, none

MCPeers == {p1, p2}

\* le_lifecycle: the client's two peers and a third that connects to us.
MCAllPeers == {p1, p2, p3}
MCHandles == {1, 2}

\* prand[0..2] of os::GenerateRandom<8>: bits 7..6 of prand[2] 11 in one,
\* 00 in the other, so both must be corrected to 01.
MCRandoms == {<<0, 0, 255>>, <<1, 0, 0>>}
\* A single draw, for the run that also checks liveness and refinement.
MCRandoms1 == {<<0, 0, 255>>}

\* s1, a static random address the client may set, and the public address
\* it must not.
MCStaticInputs == {s1}
MCInitiatorInputs == {s1, pub}

\* Symmetry over the peers.
MCSymmetry == Permutations(MCPeers)
=============================================================================
