\* The local address reported for a connection against the one the
\* controller used, when the address rotates during an initiation.
CONSTANTS
  p1 = p1  p2 = p2  p3 = p3  r1 = r1  s1 = s1  pub = pub  none = none
  Peers <- MCPeers
  ClientPeers <- MCPeers
  Rpas = {}
  IncomingPeers = {}
  Randoms <- MCRandoms
  PublicAddr = pub
  InitiatorInputs <- MCStaticInputs
  Handles <- MCHandles
  None = none
  SerialClient = TRUE
  MaxCalls = 3
  MaxRotations = 1
  MaxEvents = 2
SPECIFICATION Spec
INVARIANT LocalAddressAccurate
CHECK_DEADLOCK FALSE
