\* lf_invoke round trips over a link where results reach the host after re-arm.
\* The client may stop calling: an idle link is a legitimate end state, and
\* a call left waiting is caught by CallsComplete as stuttering.
CONSTANTS
  PacketUnits = 2
  CfgUnits = 2
  IdSpace = 3
  NoId = NoId
  Registry <- MCRegistry
  Targets <- MCTargets
  Fns <- MCFns
  Ops <- InvokeOnly
  MaxLen = 1
  Faults = {"push_lost"}
  MaxFaults = 1
  ReplyAfterRearm = TRUE
SPECIFICATION Spec
CHECK_DEADLOCK FALSE
INVARIANT ReplyIsOwn
PROPERTY CallsComplete
PROPERTY RpcRefinement
