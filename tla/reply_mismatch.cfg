\* Push and invoke, with one result-pull timeout: two ways for the streams
\* to fall out of step (unconsumed payload, a late result).
CONSTANTS
  PacketUnits = 2
  CfgUnits = 2
  IdSpace = 3
  NoId = NoId
  Registry <- MCRegistry
  Targets <- MCTargets
  Fns <- MCFns
  Ops <- InvokePush
  MaxLen = 1
  Faults = {"pull_timeout"}
  MaxFaults = 1
  ReplyAfterRearm = TRUE
SPECIFICATION Spec
INVARIANT ReplyIsOwn
