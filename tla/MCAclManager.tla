--------------------------- MODULE MCAclManager ---------------------------
(* Model values and bounds for AclManager.                                 *)
EXTENDS AclManager

CONSTANTS none, w1, w2

\* One handle, so every second link reuses it; 0xedc as in acl_manager.cc.
MCHandles == {1}
MCDebugHandle == 3804

\* 0xffff, the never-written marker, and two link policy settings
\* (bit 0 role switch, bit 2 sniff).
MCNoPolicy == 65535
MCPolicyValues == {1, 5}
=============================================================================
