\* A create the controller refuses (another initiation is running) is
\* never answered: its Command Status is not looked at.
CONSTANTS
  p1 = p1  p2 = p2  p3 = p3  r1 = r1  s1 = s1  pub = pub  none = none
  Peers <- MCPeers
  ClientPeers <- MCPeers
  Rpas = {}
  IncomingPeers = {}
  Randoms <- MCRandoms
  PublicAddr = pub
  InitiatorInputs <- MCStaticInputs
  Handles <- MCHandles
  None = none
  SerialClient = FALSE
  MaxCalls = 3
  MaxRotations = 0
  MaxEvents = 2
SPECIFICATION Spec
PROPERTY AttemptAnswered
CHECK_DEADLOCK FALSE
