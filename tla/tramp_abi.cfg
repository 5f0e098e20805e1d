\* fmr_call on every list of up to three 8/16/32-bit arguments and on every unsigned, void or invalid return.
CONSTANTS
  MaxArgc = 16
  PtrSize = 2
  ArgTags = {0, 1, 3, 8, 9, 11}
  MaxArgs = 3
  RetTags = {0, 1, 2, 4, 5, 6}
  RawBytes = {0, 128, 255}
SPECIFICATION Spec
INVARIANT ArgsPlaced
INVARIANT StackBalanced
INVARIANT ReturnNormalised
