\* Start and Stop against the dequeue callback and link events, with one
\* handle reused across link types.
CONSTANTS
  none = none  w1 = w1  w2 = w2
  Handles <- MCHandles
  DebugHandle <- MCDebugHandle
  None = none
  MaxLinks = 3
  MaxFrags = 2
  MaxPosts = 2
  Writers = {w1}
  PolicyValues <- MCPolicyValues
  NoPolicy <- MCNoPolicy
SPECIFICATION Spec
INVARIANT TypeOK HandleInOneTable NoNullSubManager
CHECK_DEADLOCK FALSE
