------------------------- MODULE FmrTrampolineCheck -------------------------
(***************************************************************************)
(* fmr_call checked against what it must do.  Each initial state is one   *)
(* call: the argument type tags, the return tag and the raw bytes the      *)
(* callee leaves in r18..r25.  The client's arguments go through the host *)
(* encoding of FmrCall (fmr_build, fmr_create_call; int and ptr are 2     *)
(* bytes on this 16-bit device) and the device's fmr_execute into         *)
(* fmr_call, so the check is end to end.  Argument bytes are distinct, so *)
(* a property can say where each one must end up.  The reference          *)
(* definitions are the avr-gcc register convention (arguments from r25    *)
(* down, each in an even-sized slot) and                                  *)
(* the normalisation rule of spec section 4.6.                            *)
(***************************************************************************)
EXTENDS Integers, SequencesExt, FmrTrampoline, FmrCall

CONSTANTS
  ArgTags,   \* type tags the arguments are drawn from
  MaxArgs,   \* longest argument list
  RetTags,   \* return type tags
  RawBytes   \* byte values the callee may leave in each of r18..r25

VARIABLE call

(* Calls that vary the arguments (returning void) and calls that vary   *)
(* the return (with no arguments).                                        *)
ArgCalls == [tags : BoundedSeq(ArgTags, MaxArgs), ret : {2}, raw : {[k \in 1 .. 8 |-> 0]}]
RetCalls == [tags : {<<>>}, ret : RetTags, raw : [1 .. 8 -> RawBytes]]
Calls == ArgCalls \cup RetCalls

Init == call \in Calls
Next == UNCHANGED call
Spec == Init /\ [][Next]_call

-----------------------------------------------------------------------------
(* Spec section 3: wire width of a tag on a 16-bit device; 0 for void and *)
(* for codes that are not types.                                          *)
Width(t) ==
  CASE t \in {0, 8} -> 1 [] t \in {1, 9, 4, 6} -> 2 [] t \in {3, 11} -> 4
    [] t \in {7, 15} -> 8 [] OTHER -> 0
Signed(t) == t \in {8, 9, 11, 15}

(* Argument tags the 8-bit trampoline must accept (u64/i64 are the        *)
(* unsupported width of section 4.6).                                     *)
ArgOk(t) == t \in {0, 1, 3, 4, 6, 8, 9, 11}

Even(n) == n + (n % 2)

(* The client's arguments: byte k of argument i is 16 * i + k, in the     *)
(* 32 bits an fmr_va holds.                                               *)
HostValue(i, t) ==
  FoldLeft(LAMBDA acc, k : acc + (16 * i + k) * 256 ^ (k - 1), 0,
           [k \in 1 .. (IF Width(t) > 4 THEN 4 ELSE Width(t)) |-> k])
HostPlat == "x86"

(* lf_invoke: fmr_build over the client's fmr_va list, then               *)
(* fmr_create_call into the zeroed packet.                                *)
Sent(c) ==
  CreateCall(0, 0, c.ret,
             Build([i \in DOMAIN c.tags |-> Va(HostValue(i, c.tags[i]), c.tags[i])]).list,
             0, HostPlat)

(* fmr_perform / fmr_execute: the device hands call->parameters and the   *)
(* type word to fmr_call, whose argt is the 16-bit r19:r18.               *)
Argv(c) == Sent(c).parameters
Argt(c) == FoldLeft(LAMBDA acc, k : acc + Sent(c).types[k] * 16 ^ k, 0, <<0, 1, 2, 3>>)

(* Caller registers: distinct values, with the parameters of fmr_call in  *)
(* place.  ra is the caller's return address.                             *)
RA == <<2000, 2001>>
Caller(c) ==
  [[a \in Reg |-> 1000 + a] EXCEPT
     ![22] = Sent(c).ret, ![23] = 0, ![20] = Sent(c).argc, ![21] = 0,
     ![18] = Argt(c) % 256, ![19] = Argt(c) \div 256]

Out(c) == FmrCall(Caller(c), RA, Argv(c), c.raw)

(* avr-gcc: argument i starts at register Slot(ts, i); arguments below r8 *)
(* would go on the stack.                                                  *)
Slot(ts, i) == 26 - FoldLeft(LAMBDA acc, t : acc + Even(Width(t)), 0, SubSeq(ts, 1, i))
InRegisters(ts) == Len(ts) = 0 \/ Slot(ts, Len(ts)) >= 8

(* Spec section 4.6: the raw return is zero- or sign-extended to 64 bits, *)
(* void gives 0 and an unknown or unsupported tag the all-ones sentinel.  *)
ReturnRegs(t) ==
  CASE Width(t) = 1 -> <<24>> [] Width(t) = 2 -> <<24, 25>>
    [] OTHER -> <<22, 23, 24, 25>>
RefReturn(t, raw) ==
  IF t = 2 THEN [k \in 1 .. 8 |-> 0]
  ELSE IF Width(t) \notin {1, 2, 4} THEN [k \in 1 .. 8 |-> 255]
  ELSE LET v    == [k \in 1 .. Width(t) |-> raw[ReturnRegs(t)[k] - 17]]
           fill == IF Signed(t) /\ v[Width(t)] >= 128 THEN 255 ELSE 0
       IN [k \in 1 .. 8 |-> IF k <= Width(t) THEN v[k] ELSE fill]

-----------------------------------------------------------------------------
(* Properties *)

(* lf_invoke to _load: every argument of a list that fits in registers    *)
(* reaches the registers the callee reads it from, byte for byte, in      *)
(* order, as the client passed it.                                        *)
ArgsPlaced ==
  LET ts == call.tags  o == Out(call) IN
  (\A i \in 1 .. Len(ts) : ArgOk(ts[i])) /\ InRegisters(ts) =>
    /\ o.called
    /\ \A i \in 1 .. Len(ts) : \A k \in 0 .. Width(ts[i]) - 1 :
         o.atcall[Slot(ts, i) + k] = LeBytes(HostValue(i, ts[i]), Width(ts[i]))[k + 1]

(* _ret_*: the value fmr_call returns in r18..r25 is the callee's return  *)
(* normalised as spec section 4.6 (and property P5) says.                 *)
ReturnNormalised ==
  LET o == Out(call) IN
  o.called => [k \in 1 .. 8 |-> o.r[17 + k]] = RefReturn(call.ret, call.raw)

(* _call / _fail / _done: fmr_call pops exactly what it pushed, so its    *)
(* ret returns to the caller's address with the caller's stack.           *)
StackBalanced ==
  LET o == Out(call) IN o.ret = RA /\ o.stk = <<>>

=============================================================================
