------------------------------ MODULE MCFlipper -----------------------------
(***************************************************************************)
(* Model-checking instances of Flipper.  The device's module table has    *)
(* module 0 with function 0 present and function 1 a NULL entry; the      *)
(* client targets module 0, an index past the table (1), a user module    *)
(* (128 = FMR_USER_INVOCATION_BIT | 0) and an unbound record (255).       *)
(***************************************************************************)
EXTENDS Flipper

MCRegistry == [m \in {0} |-> [f \in {0, 1} |-> IF f = 0 THEN "fn" ELSE "null"]]
MCTargets  == {0, 1, 128, 255}
MCFns      == {0, 1, 2}

(* Calls made by the client in each run.                                  *)
InvokeOnly   == {"invoke"}
InvokePush   == {"invoke", "push"}
InvokePull   == {"invoke", "pull"}
InvokeConfig == {"invoke", "config"}

(* The all-calls run narrows the indices to one function of one module.  *)
SmallTargets == {0}
SmallFns     == {0}

(* Payload calls: every call that pushes a payload and every call that    *)
(* pulls one except lf_pull, which reaches the same fmr_pull stub as      *)
(* lf_recieve; with it the run takes over three minutes.                  *)
PayloadOps == {"push", "send", "ram_load", "receive", "config"}

(* Streams that are never drained (payload bytes the device does not     *)
(* consume) grow without end; exploration stops at StreamBound units.    *)
StreamBound == 3
StreamsBounded == Len(h2d) <= StreamBound /\ Len(d2h) <= StreamBound

=============================================================================
