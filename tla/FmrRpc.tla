------------------------------- MODULE FmrRpc -------------------------------
(***************************************************************************)
(* What the message runtime promises a host client (spec sections 4.8 and  *)
(* 5): calls on one endpoint are strictly one at a time; a call that gets *)
(* through to the device is executed there exactly once; the result a call *)
(* returns is the result of that execution.  A call may also fail at the  *)
(* transport, or be refused before anything is sent.                      *)
(***************************************************************************)
EXTENDS Integers

CONSTANTS IdSpace, NoId

VARIABLES
  seq,     \* id of the most recent request
  req,     \* the request in progress, or NoId
  done,    \* the request in progress has been executed by the device
  reply    \* id of the execution whose result the last call returned, or NoId

Ids == 0 .. IdSpace - 1

RpcInit ==
  /\ seq = 0
  /\ req = NoId
  /\ done = FALSE
  /\ reply = NoId

(* A new request is sent; at most one is outstanding.                     *)
Issue ==
  /\ req = NoId
  /\ seq' = (seq + 1) % IdSpace
  /\ req' = seq'
  /\ done' = FALSE
  /\ UNCHANGED reply

(* The call is refused or fails before its request is sent.               *)
Refuse ==
  /\ req = NoId
  /\ reply' = NoId
  /\ UNCHANGED <<seq, req, done>>

(* The device executes the outstanding request, once.                     *)
Execute ==
  /\ req # NoId
  /\ ~done
  /\ done' = TRUE
  /\ UNCHANGED <<seq, req, reply>>

(* The call returns the result of its own execution.                      *)
Complete ==
  /\ req # NoId
  /\ done
  /\ req' = NoId
  /\ done' = FALSE
  /\ reply' = req
  /\ UNCHANGED seq

(* The call fails at the transport and returns no result.                 *)
Fail ==
  /\ req # NoId
  /\ req' = NoId
  /\ done' = FALSE
  /\ reply' = NoId
  /\ UNCHANGED seq

RpcNext == Issue \/ Refuse \/ Execute \/ Complete \/ Fail

RpcSpec == RpcInit /\ [][RpcNext]_<<seq, req, done, reply>>

=============================================================================
