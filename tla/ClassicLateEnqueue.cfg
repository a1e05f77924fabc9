\* An enqueue callback outliving the SendAclData that registered it.
CONSTANTS
  s1 = s1  s2 = s2  none = none
  Rpcs <- MCRpcs
  None = none
  MaxConnects = 2
  MaxStreams = 1
SPECIFICATION Spec
INVARIANT NoEnqueueAfterReturn
CHECK_DEADLOCK FALSE
