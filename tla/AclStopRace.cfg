\* The dequeue callback during Stop.
CONSTANTS
  none = none  w1 = w1  w2 = w2
  Handles <- MCHandles
  DebugHandle <- MCDebugHandle
  None = none
  MaxLinks = 1
  MaxFrags = 1
  MaxPosts = 1
  Writers = {w1}
  PolicyValues <- MCPolicyValues
  NoPolicy <- MCNoPolicy
SPECIFICATION Spec
INVARIANT NoDeletedSubManager
CHECK_DEADLOCK FALSE
