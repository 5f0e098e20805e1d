----------------------------- MODULE FmrDevices -----------------------------
(***************************************************************************)
(* What the host library promises about device records (spec section 3,  *)
(* "Device record"): a record is created by an attach and destroyed by    *)
(* its own detach, and at most one record is selected.  A failed attach  *)
(* changes nothing the client can see.  Teardown (the destructor)         *)
(* destroys the selected record and ends the process's use of the        *)
(* library.                                                               *)
(***************************************************************************)
CONSTANTS
  Records,   \* device records
  NULL       \* no record

VARIABLES
  attached,  \* records created and not destroyed
  current,   \* the selected record
  alive      \* the library has not been torn down

vars == <<attached, current, alive>>

Init ==
  /\ attached = {}
  /\ current = NULL
  /\ alive = TRUE

(* An attach creates a record and selects it.                             *)
Attach(d) ==
  /\ alive /\ d \notin attached
  /\ attached' = attached \cup {d}
  /\ current' = d
  /\ UNCHANGED alive

Select(d) ==
  /\ alive /\ d \in attached
  /\ current' = d
  /\ UNCHANGED <<attached, alive>>

(* A detach destroys only its own record, and unselects it.              *)
Detach(d) ==
  /\ alive /\ d \in attached
  /\ attached' = attached \ {d}
  /\ current' = IF current = d THEN NULL ELSE current
  /\ UNCHANGED alive

Teardown ==
  /\ alive
  /\ attached' = attached \ {current}
  /\ alive' = FALSE
  /\ UNCHANGED current

Next ==
  \/ \E d \in Records : Attach(d) \/ Select(d) \/ Detach(d)
  \/ Teardown

Spec == Init /\ [][Next]_vars

=============================================================================
