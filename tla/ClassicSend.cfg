\* Two SendAclData calls against connection callbacks on the facade handler,
\* with the streaming RPCs and lookups interleaved.
CONSTANTS
  s1 = s1  s2 = s2  none = none
  Rpcs <- MCRpcs
  None = none
  MaxConnects = 3
  MaxStreams = 2
SPECIFICATION Spec
PROPERTY HandlerNeverStuck
CHECK_DEADLOCK FALSE
