\* Device and module records over four heap addresses and one client
\* endpoint.  The process may stop: flipper_exit ends it.
CONSTANTS
  Addrs = {a1, a2, a3, a4}
  NULL = NULL
  Garbage = Garbage
  UserEps = {"ep"}
  ModNames = {"null", "short", "long"}
SYMMETRY AddrPerms
SPECIFICATION Spec
CHECK_DEADLOCK FALSE
INVARIANT SelectionLive
PROPERTY DeviceRefinement
