\* The facade's connection map and the manager's link table against the
\* controller, with creates, incoming connections from peers using an RPA,
\* disconnections and handle reuse.
CONSTANTS
  p1 = p1  p2 = p2  r1 = r1  pub = pub  none = none
  Peers <- MCPeers
  ClientPeers <- MCPeers
  Rpas = {r1}
  IncomingPeers = {p1}
  Randoms <- MCRandoms
  PublicAddr = pub
  InitiatorInputs = {}
  Handles <- MCHandles
  None = none
  SerialClient = FALSE
  MaxCalls = 2
  MaxRotations = 0
  MaxEvents = 3
  MaxRpcs = 2
SPECIFICATION Spec
INVARIANT LinksMirrored
CHECK_DEADLOCK FALSE
