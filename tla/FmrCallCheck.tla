---------------------------- MODULE FmrCallCheck ----------------------------
(***************************************************************************)
(* fmr_build and fmr_create_call checked against the invocation body of   *)
(* spec section 4: types is a u64 of 4-bit tags with argument 0 in the    *)
(* low nibble.  Each initial state is one argument list a client passes   *)
(* to lf_invoke, every list of unsigned argument types up to MaxLen long. *)
(***************************************************************************)
EXTENDS Integers, SequencesExt, FmrCall

CONSTANTS
  Tags,     \* argument type tags the lists are drawn from
  MaxLen    \* longest list

VARIABLE tags

Init == tags \in BoundedSeq(Tags, MaxLen)
Next == UNCHANGED tags
Spec == Init /\ [][Next]_tags

(* The fmr_va list of the client: argument i holds the value i.           *)
Vas(ts) == [i \in DOMAIN ts |-> Va(i, ts[i])]

-----------------------------------------------------------------------------
(* Properties *)

(* fmr_build / fmr_create_call: a list the build accepts is sent with     *)
(* every argument's type in its own nibble of the type word, whichever    *)
(* result the host's shift gives.                                         *)
TypesEncoded ==
  LET b == Build(Vas(tags)) IN
  b.err = "E_OK" =>
    \A p \in Plat :
      \A i \in DOMAIN tags :
        CreateCall(0, 0, 2, b.list, 0, p).types[i - 1] = tags[i]

=============================================================================
