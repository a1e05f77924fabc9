\* A packet of a closed link reaching the link that reuses its handle.
CONSTANTS
  none = none  w1 = w1  w2 = w2
  Handles <- MCHandles
  DebugHandle <- MCDebugHandle
  None = none
  MaxLinks = 2
  MaxFrags = 1
  MaxPosts = 0
  Writers = {w1}
  PolicyValues <- MCPolicyValues
  NoPolicy <- MCNoPolicy
SPECIFICATION Spec
INVARIANT InboundToOwnLink
CHECK_DEADLOCK FALSE
