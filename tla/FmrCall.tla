------------------------------- MODULE FmrCall -------------------------------
(***************************************************************************)
(* The host side of call encoding (runtime/src/fmr.c:4-66) as operators:  *)
(* fmr_build turns the variadic fmr_va values into an argument list, and  *)
(* fmr_create_call writes that list into the invocation body of a packet: *)
(* the argument count, the 4-bit-per-argument type word and the           *)
(* little-endian parameter bytes, growing header.length as it goes.       *)
(*                                                                         *)
(* The shift that places a type in the type word is done on a 32-bit int, *)
(* so from the ninth argument on it is undefined; Plat names the two      *)
(* results the host's shift instruction can give.                         *)
(***************************************************************************)
EXTENDS Integers, SequencesExt, Bitwise

CONSTANTS
  MaxArgc,   \* FMR_MAX_ARGC
  PtrSize    \* fmr_sizeof of int and ptr: the device's pointer width

IntBits == 32               \* width of the int the type shift is done in
fmr_ptr_t == 6
Plat == {"x86", "arm"}      \* shift count taken mod 32, or a zero result

(* An fmr_va as the fmr_infer/fmr_intN macros make it: the value in the   *)
(* low 32 bits (lo), the type tag in the bits above them (hi).           *)
Va(value, tag) == [lo |-> value, hi |-> tag]

(* fmr_sizeof, from the widths of spec section 3 (it is not under src).   *)
Sizeof(t) ==
  CASE t = 0 -> 1 [] t = 1 -> 2 [] t = 2 -> 0 [] t = 3 -> 4
    [] t \in {4, 6} -> PtrSize [] t = 7 -> 8 [] OTHER -> 0

(* fmr_build: argc must be below FMR_MAX_ARGC; each type is bits 32..34   *)
(* of the fmr_va (& 0x7) and must not exceed fmr_ptr_t.  A failure        *)
(* releases the list and returns NULL, the same value as the empty list;  *)
(* err is what lf_assert leaves in the error slot.                        *)
ArgType(va)  == va.hi % 8
ArgValue(va) == va.lo
Build(vas) ==
  CASE Len(vas) >= MaxArgc -> [list |-> <<>>, err |-> "E_OVERFLOW"]
    [] \E i \in DOMAIN vas : ArgType(vas[i]) > fmr_ptr_t
         -> [list |-> <<>>, err |-> "E_TYPE"]
    [] OTHER -> [list |-> [i \in DOMAIN vas |->
                             [value |-> ArgValue(vas[i]), type |-> ArgType(vas[i])]],
                 err |-> "E_OK"]

(* The 64-bit call->types as its sixteen nibbles, nibble 0 lowest.       *)
Nibbles   == 0 .. 15
ZeroTypes == [k \in Nibbles |-> 0]

(* (arg->type & 0xF) << (i * 4) in an int: the nibble the type lands in,  *)
(* or -1 where the result is 0.                                           *)
ShlNibble(i, plat) ==
  CASE 4 * i < IntBits -> i
    [] plat = "x86"    -> ((4 * i) % IntBits) \div 4
    [] OTHER           -> -1

(* memcpy(offset, &arg->value, size) on a little-endian host.            *)
LeBytes(v, n) == [k \in 1 .. n |-> (v \div 256 ^ (k - 1)) % 256]

(* fmr_create_call: index, function, ret and argc are stored, then every  *)
(* argument ORs its type into call->types (zero in the caller's packet),  *)
(* appends its bytes to the parameters and adds its size to length.       *)
CreateCall(module, function, ret, args, length, plat) ==
  LET n == Len(args)
      OrType(acc, i) == [k \in Nibbles |->
                       IF ShlNibble(i - 1, plat) = k THEN acc[k] | (args[i].type % 16)
                                                     ELSE acc[k]]
      types == FoldLeftDomain(OrType, ZeroTypes, args)
  IN [index      |-> module,
      function   |-> function,
      ret        |-> ret,
      argc       |-> n,
      types      |-> types,
      parameters |-> FlattenSeq([i \in 1 .. n |-> LeBytes(args[i].value, Sizeof(args[i].type))]),
      length     |-> length + FoldLeft(LAMBDA acc, a : acc + Sizeof(a.type), 0, args)]

=============================================================================
