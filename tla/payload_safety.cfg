CONSTANTS
  PacketUnits = 2
  CfgUnits = 2
  IdSpace = 3
  NoId = NoId
  Registry <- MCRegistry
  Targets <- SmallTargets
  Fns <- SmallFns
  Ops <- PayloadOps
  MaxLen = 1
  Faults = {"push_lost", "pull_timeout"}
  MaxFaults = 1
  ReplyAfterRearm = TRUE
SPECIFICATION Spec
CHECK_DEADLOCK FALSE
CONSTRAINT StreamsBounded
INVARIANT TypeOK
