\* Four arguments: the fourth loop iteration reuses r16.
CONSTANTS
  MaxArgc = 16
  PtrSize = 2
  ArgTags = {0, 3}
  MaxArgs = 4
  RetTags = {2}
  RawBytes = {0}
SPECIFICATION Spec
INVARIANT ArgsPlaced
