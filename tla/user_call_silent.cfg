CONSTANTS
  PacketUnits = 2
  CfgUnits = 2
  IdSpace = 3
  NoId = NoId
  Registry <- MCRegistry
  Targets <- MCTargets
  Fns <- MCFns
  Ops <- InvokeOnly
  MaxLen = 0
  Faults = {}
  MaxFaults = 0
  ReplyAfterRearm = TRUE
SPECIFICATION Spec
INVARIANT ResultErrorReflectsOutcome
