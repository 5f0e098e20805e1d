---------------------------- MODULE MCFmrLifecycle ----------------------------
(* FmrLifecycle for TLC: heap addresses are model values compared only    *)
(* for equality, so any permutation of them is a symmetry.                *)
EXTENDS FmrLifecycle

AddrPerms == Permutations(Addrs)

=============================================================================
