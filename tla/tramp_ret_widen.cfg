\* u32 and signed returns: the widths and signs the _ret_* blocks must
\* widen to 64 bits (spec section 4.6 and P5).
CONSTANTS
  MaxArgc = 16
  PtrSize = 2
  ArgTags = {0}
  MaxArgs = 0
  RetTags = {3, 8, 9, 11}
  RawBytes = {0, 255}
SPECIFICATION Spec
INVARIANT ReturnNormalised
