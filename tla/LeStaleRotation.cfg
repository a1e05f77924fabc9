\* A rotation task the alarm posted survives set_le_initiator_address.
CONSTANTS
  p1 = p1  p2 = p2  p3 = p3  r1 = r1  s1 = s1  pub = pub  none = none
  Peers <- MCPeers
  ClientPeers <- MCPeers
  Rpas = {}
  IncomingPeers = {}
  Randoms <- MCRandoms
  PublicAddr = pub
  InitiatorInputs <- MCStaticInputs
  Handles <- MCHandles
  None = none
  SerialClient = TRUE
  MaxCalls = 3
  MaxRotations = 1
  MaxEvents = 2
SPECIFICATION Spec
INVARIANT NoStaleRotation
CHECK_DEADLOCK FALSE
