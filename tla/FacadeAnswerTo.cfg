\* An answer reaching another RPC's stream.
CONSTANTS
  p1 = p1  p2 = p2  r1 = r1  pub = pub  none = none
  Peers <- MCPeers
  ClientPeers <- MCPeers
  Rpas = {}
  IncomingPeers = {}
  Randoms <- MCRandoms
  PublicAddr = pub
  InitiatorInputs = {}
  Handles <- MCHandles
  None = none
  SerialClient = FALSE
  MaxCalls = 3
  MaxRotations = 0
  MaxEvents = 1
  MaxRpcs = 1
SPECIFICATION Spec
INVARIANT AnswerToAsker
CHECK_DEADLOCK FALSE

