\* LE connection lifecycle, address rotation and initiator override, with
\* creates issued while others are pending (some refused by the controller),
\* peers completing with a resolvable private address, and a third peer
\* connecting to us that the client never asks for.
CONSTANTS
  p1 = p1  p2 = p2  p3 = p3  r1 = r1  s1 = s1  pub = pub  none = none
  Peers <- MCAllPeers
  ClientPeers <- MCPeers
  Rpas = {r1}
  IncomingPeers = {p3}
  Randoms <- MCRandoms1
  PublicAddr = pub
  InitiatorInputs <- MCInitiatorInputs
  Handles <- MCHandles
  None = none
  SerialClient = FALSE
  MaxCalls = 2
  MaxRotations = 2
  MaxEvents = 3
SPECIFICATION Spec
INVARIANT TypeOK LinksConsistent RpaWhileRotating
CHECK_DEADLOCK FALSE
