---------------------------- MODULE FmrTrampoline ---------------------------
(***************************************************************************)
(* The AVR call trampoline fmr_call (kernel/arch/avr8/fmr.S:18-263) as     *)
(* pure operators over a machine state: the register file r0..r31, the X  *)
(* pointer (only XL changes), the Z pointer as an offset into the packed  *)
(* argument bytes, and the hardware stack.  Each operator is one labelled *)
(* block of the assembly; registers keep their numbers so that the code's *)
(* aliases (retv = r2, argc = r3, argt = r5:r4) are read from the file.    *)
(*                                                                         *)
(* Byte values are naturals; register contents the code never computes    *)
(* with may be any natural (argument bytes are given distinct values so   *)
(* that properties can tell where each one went).                         *)
(***************************************************************************)
EXTENDS Integers, SequencesExt

Reg  == 0 .. 31
Junk == -1     \* a byte the code reads from outside the argument buffer

Bit(v, b) == (v \div (2 ^ b)) % 2 = 1

(* st to a register address; X never leaves the register file in the      *)
(* inputs checked here, a store above r31 would go to I/O space.          *)
Store(r, a, v) == IF a \in Reg THEN [r EXCEPT ![a] = v] ELSE r

(* ld r0, Z+ *)
Ld(s, argv) == IF s.z \in 1 .. Len(argv) THEN argv[s.z] ELSE Junk

Push(s, v)    == [s EXCEPT !.stk = Append(s.stk, v)]
Pop(s, reg)   == [s EXCEPT !.r[reg] = Last(s.stk), !.stk = Front(s.stk)]

(* fmr_call's prologue.  caller holds the caller's registers with the     *)
(* parameters in place (function r25:r24, ret r22, argc r20, argt r19:r18, *)
(* argv r17:r16); ra is the return address the call pushed.               *)
Entry(caller, ra) ==
  LET s0 == [r |-> caller, x |-> 0, z |-> 1, stk |-> ra, pc |-> "load"]
      s1 == Push(Push(Push(Push(Push(s0, caller[3]), caller[4]), caller[5]),
                      caller[25]), caller[24])
  IN [s1 EXCEPT !.r[2] = caller[22], !.r[3] = caller[20],
                !.r[4] = caller[18], !.r[5] = caller[19],
                !.x = 25]

(* _load_8: ld r0, Z+; st -X, r0; dec XL.                                 *)
Load8(s, argv) ==
  [s EXCEPT !.r = Store(s.r, s.x - 1, Ld(s, argv)), !.x = s.x - 2, !.z = s.z + 1]

(* _load_16: dec XL; two ld/st X+; subi XL, 2.                            *)
Load16(s, argv) ==
  LET t == [s EXCEPT !.z = s.z + 1]
  IN [s EXCEPT !.r = Store(Store(s.r, s.x - 1, Ld(s, argv)), s.x, Ld(t, argv)),
               !.x = s.x - 2, !.z = s.z + 2]

(* Mutant: the pointer is moved down by 2 instead of 3 before the stores. *)
Load32OffByOne(s, argv) ==
  [s EXCEPT !.r = [a \in Reg |-> IF a \in s.x - 2 .. s.x + 1
                                   THEN Ld([s EXCEPT !.z = s.z + (a - (s.x - 2))], argv)
                                   ELSE s.r[a]],
            !.x = s.x - 4, !.z = s.z + 4]

(* _load_32: subi XL, 3; four ld/st; subi XL, 4.                          *)
Load32(s, argv) ==
  [s EXCEPT !.r = [a \in Reg |-> IF a \in s.x - 3 .. s.x
                                   THEN Ld([s EXCEPT !.z = s.z + (a - (s.x - 3))], argv)
                                   ELSE s.r[a]],
            !.x = s.x - 4, !.z = s.z + 4]

(* _load_int / _load_ptr: a 16-bit load, then adiw ZL, 6.                 *)
LoadInt(s, argv) == [Load16(s, argv) EXCEPT !.z = @ + 6]

(* _load_done: four asr argt_h / ror argt_l pairs, dec argc.              *)
AsrRor(r) == [r EXCEPT ![5] = r[5] \div 2 + (IF r[5] >= 128 THEN 128 ELSE 0),
                       ![4] = r[4] \div 2 + (r[5] % 2) * 128]
LoadDone(s) ==
  [s EXCEPT !.r = [AsrRor(AsrRor(AsrRor(AsrRor(s.r)))) EXCEPT ![3] = @ - 1]]

(* _load: while argc # 0, mov r16, argt_l; andi r16, 7 and dispatch on the *)
(* type; u64 (_load_64) and every other code jump to _fail.               *)
RECURSIVE Load(_, _)
Load(s, argv) ==
  IF s.r[3] = 0 THEN [s EXCEPT !.pc = "call"]
  ELSE LET t  == s.r[4] % 8
           s1 == [s EXCEPT !.r[16] = t]
       IN CASE t = 0 -> Load(LoadDone(Load8(s1, argv)), argv)
            [] t = 1 -> Load(LoadDone(Load16(s1, argv)), argv)
            [] t = 3 -> Load(LoadDone(Load32(s1, argv)), argv)
            [] t \in {4, 6} -> Load(LoadDone(LoadInt(s1, argv)), argv)
            [] OTHER -> [s1 EXCEPT !.pc = "fail"]

(* A callee that obeys the avr-gcc ABI: it returns raw in r18..r25 (raw[1] *)
(* is r18), may change the other call-used registers and keeps r2..r17.   *)
Callee(r, raw) ==
  [a \in Reg |-> CASE a \in 18 .. 25 -> raw[a - 17]
                   [] a \in {0, 26, 27, 30, 31} -> Junk
                   [] OTHER -> r[a]]

(* Mutant: only ZL is popped before the indirect call.                    *)
CallPopOne(s, raw) ==
  LET s1 == Pop(s, 30)
  IN [s1 EXCEPT !.r = LET c == Callee(s1.r, raw) IN [c EXCEPT ![16] = c[2] % 8],
                !.pc = "ret"]

(* _call: pop ZL, pop ZH, icall; then mov r16, retv; andi r16, 7.         *)
Call(s, raw) ==
  LET s1 == Pop(Pop(s, 30), 31)
  IN [s1 EXCEPT !.r = LET c == Callee(s1.r, raw) IN [c EXCEPT ![16] = c[2] % 8],
                !.pc = "ret"]

Clr(r, S)  == [a \in Reg |-> IF a \in S THEN 0 ELSE r[a]]
Com(r, S)  == [a \in Reg |-> IF a \in S THEN 255 - r[a] ELSE r[a]]
Ser(r, S)  == [a \in Reg |-> IF a \in S THEN 255 ELSE r[a]]

(* Mutant: r25 is not cleared.                                            *)
Ret8NoClear(r) ==
  LET r1 == [Clr(r, {19, 20, 21, 22, 23, 24}) EXCEPT ![18] = r[24]]
  IN IF Bit(r1[16], 4) /\ Bit(r1[18], 7) THEN Com(r1, 19 .. 25) ELSE r1

(* _ret_8: r18 = r24, clear r19..r25; sign-extend when bit 4 of r16 and  *)
(* bit 7 of r18 are set.                                                  *)
Ret8(r) ==
  LET r1 == [Clr(r, {19, 20, 21, 22, 23, 24, 25}) EXCEPT ![18] = r[24]]
  IN IF Bit(r1[16], 4) /\ Bit(r1[18], 7) THEN Com(r1, 19 .. 25) ELSE r1

(* _ret_16_begin: r19:r18 = r25:r24, clear r20..r25; sign-extension as    *)
(* in _ret_8 on bit 7 of r19.                                             *)
Ret16(r) ==
  LET r1 == [Clr(r, 20 .. 25) EXCEPT ![18] = r[24], ![19] = r[25]]
  IN IF Bit(r1[16], 4) /\ Bit(r1[19], 7) THEN Com(r1, 20 .. 25) ELSE r1

(* _ret_void: clear r18..r25.                                             *)
RetVoid(r) == Clr(r, 18 .. 25)

(* _ret_32: r21..r18 = r25..r22, clearing r25, r24 and r23.               *)
Ret32(r) ==
  LET r1 == [Clr(r, {23, 24, 25}) EXCEPT ![18] = r[22], ![19] = r[23],
                                         ![20] = r[24], ![21] = r[25]]
  IN IF Bit(r1[16], 4) /\ Bit(r1[21], 7) THEN Com(r1, 22 .. 25) ELSE r1

(* _ret_int: sbr r16, 4 and continue at _ret_16_begin.                    *)
RetInt(r) == Ret16([r EXCEPT ![16] = IF Bit(r[16], 2) THEN r[16] ELSE r[16] + 4])

(* The cpi chain after the call: _ret_ptr also continues at               *)
(* _ret_16_begin, _ret_64 keeps r18..r25, anything else reaches _fail.   *)
Normalise(r) ==
  CASE r[16] = 0 -> Ret8(r)
    [] r[16] = 1 -> Ret16(r)
    [] r[16] = 2 -> RetVoid(r)
    [] r[16] = 3 -> Ret32(r)
    [] r[16] = 4 -> RetInt(r)
    [] r[16] = 6 -> Ret16(r)
    [] r[16] = 7 -> r
    [] OTHER -> Ser(r, 18 .. 25)

(* _done: pop argt_h, argt_l, argc; ret pops the return address.         *)
Done(s) ==
  LET s1 == Pop(Pop(Pop(s, 5), 4), 3)
  IN [r   |-> s1.r,
      ret |-> SubSeq(s1.stk, Len(s1.stk) - 1, Len(s1.stk)),
      stk |-> SubSeq(s1.stk, 1, Len(s1.stk) - 2)]

(* The whole of fmr_call: prologue, _load loop, then either _call and the *)
(* return normalisation or _fail (ser r18..r25), then _done.  The result *)
(* records the registers the callee saw (atcall), the registers after     *)
(* ret, the return address ret used (ret) and the stack left behind.     *)
FmrCall(caller, ra, argv, raw) ==
  LET l == Load(Entry(caller, ra), argv)
  IN IF l.pc = "call"
       THEN LET c == Call(l, raw)
                d == Done([c EXCEPT !.r = Normalise(c.r)])
            IN [called |-> TRUE, atcall |-> Pop(Pop(l, 30), 31).r,
                r |-> d.r, ret |-> d.ret, stk |-> d.stk]
       ELSE LET d == Done([l EXCEPT !.r = Ser(l.r, 18 .. 25)])
            IN [called |-> FALSE, atcall |-> l.r,
                r |-> d.r, ret |-> d.ret, stk |-> d.stk]

=============================================================================
