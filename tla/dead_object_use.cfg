\* Device records only (no module calls), so the shortest use of a dead
\* object is the one through the shared USB endpoint.  With
\* ModNames = {"short"} the same property fails in two steps instead:
\* lf_module_create then lf_module_release.
CONSTANTS
  Addrs = {a1, a2, a3}
  NULL = NULL
  Garbage = Garbage
  UserEps = {}
  ModNames = {}
SYMMETRY AddrPerms
SPECIFICATION Spec
CHECK_DEADLOCK FALSE
INVARIANT NoDeadObjectUse
