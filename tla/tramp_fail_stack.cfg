\* Arguments of type void, u64 and an unknown code.
CONSTANTS
  MaxArgc = 16
  PtrSize = 2
  ArgTags = {0, 2, 5, 7}
  MaxArgs = 2
  RetTags = {2}
  RawBytes = {0}
SPECIFICATION Spec
INVARIANT StackBalanced
