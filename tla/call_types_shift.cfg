\* Lists of u8/u16 arguments up to nine long, with FMR_MAX_ARGC = 16
\* (spec section 4: a 64-bit type word of sixteen 4-bit tags).
CONSTANTS
  MaxArgc = 16
  PtrSize = 4
  Tags = {0, 1}
  MaxLen = 9
SPECIFICATION Spec
INVARIANT TypesEncoded
