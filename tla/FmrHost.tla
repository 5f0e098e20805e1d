------------------------------- MODULE FmrHost ------------------------------
(***************************************************************************)
(* The host side of the message runtime: one synchronous client thread of  *)
(* libflipper calling lf_invoke, lf_push, lf_pull, lf_send, lf_recieve,    *)
(* lf_ram_load and lf_load_configuration on the selected device (the host  *)
(* half of kernel/arch/avr8/fmr.S).  Each call builds one packet, pushes   *)
(* it with lf_transfer, moves a bulk payload if the class has one, and     *)
(* pulls one struct _fmr_result with lf_get_result.  Endpoint push and     *)
(* pull block until all their bytes have moved, or fail.                   *)
(*                                                                         *)
(* The client reads and clears the error slot after every call (as the     *)
(* Swift binding does with lf_error_get), so the slot's value at the end   *)
(* of a call is recorded in hlast and the slot itself is not kept.         *)
(***************************************************************************)
EXTENDS FmrTypes

CONSTANTS
  Ops,        \* the library calls the client makes
  Targets,    \* module indices the client's lf_module records hold
  Fns,        \* function indices the client passes
  MaxLen,     \* largest bulk length (bytes = units) the client passes
  Faults,     \* endpoint failures that may happen: "push_lost", "pull_timeout"
  MaxFaults   \* bound on the number of endpoint failures in a behaviour

ASSUME Ops \subseteq {"invoke", "push", "pull", "send", "receive", "ram_load", "config"}
ASSUME Faults \subseteq {"push_lost", "pull_timeout"}
ASSUME MaxLen \in Nat /\ MaxFaults \in Nat

VARIABLES
  h2d, d2h,   \* the two directions of the endpoint, shared with the device
  hpc,        \* "idle" | "raw_out" | "raw_in" | "cfg_in" | "result"
  hop,        \* the call in progress: [op, len, cfgok]
  hseq,       \* ghost: id of the last packet pushed
  hlast,      \* the last finished call: [id, got, err]
  faults      \* endpoint failures so far

hostVars == <<hpc, hop, hseq, hlast, faults>>

(* The packet class lf_push etc. write into the header.                   *)
BulkClass == [push |-> "push", pull |-> "pull", send |-> "send",
              receive |-> "receive", ram_load |-> "ram_load"]
PushesPayload == {"push", "send", "ram_load"}

HostInit ==
  /\ hpc = "idle"
  /\ hop = [op |-> "invoke", len |-> 0, cfgok |-> TRUE]
  /\ hseq = 0
  /\ hlast = [id |-> 0, got |-> NoId, err |-> "E_OK"]
  /\ faults = 0

(* The call returns to the client with err in the error slot and got the  *)
(* ghost id of the result it accepted.                                    *)
Finish(got, err) ==
  /\ hpc' = "idle"
  /\ hlast' = [id |-> hseq, got |-> got, err |-> err]

Fault(kind) ==
  /\ kind \in Faults
  /\ faults < MaxFaults
  /\ faults' = faults + 1

(* lf_transfer: push the whole packet and continue at pc; if the endpoint *)
(* push fails, E_ENDPOINT is raised and the call returns lf_error.        *)
Transfer(op, len, cls, mod, fn, pc) ==
  \/ /\ h2d' = h2d \o Packet(NextId(hseq), cls, mod, fn)
     /\ hseq' = NextId(hseq)
     /\ hpc' = pc
     /\ hop' = [op |-> op, len |-> len, cfgok |-> TRUE]
     /\ UNCHANGED <<hlast, faults>>
  \/ /\ Fault("push_lost")
     /\ Finish(NoId, "E_ENDPOINT")
     /\ UNCHANGED <<h2d, hseq, hop>>

(* lf_invoke: reject an unbound module, choose the user or standard class *)
(* from FMR_USER_INVOCATION_BIT, build the call and transfer it.          *)
Invoke(idx, fn) ==
  /\ hpc = "idle"
  /\ "invoke" \in Ops
  /\ IF idx = Unbound
       THEN /\ Finish(NoId, "E_MODULE")
            /\ UNCHANGED <<h2d, hop, hseq, faults>>
       ELSE Transfer("invoke", 0, IF IsUser(idx) THEN "user" ELSE "standard",
                     idx, fn, "result")
  /\ UNCHANGED d2h

(* lf_push, lf_pull (a call on module idx with (ptr, length) prepended),  *)
(* lf_send, lf_recieve and lf_ram_load (no call): a zero length returns   *)
(* lf_success at once; otherwise transfer the packet and go on to move    *)
(* the payload.                                                           *)
Bulk(op, idx, fn, len) ==
  /\ hpc = "idle"
  /\ op \in Ops \cap DOMAIN BulkClass
  /\ IF len = 0
       THEN /\ Finish(NoId, "E_OK")
            /\ UNCHANGED <<h2d, hop, hseq, faults>>
       ELSE Transfer(op, len, BulkClass[op],
                     IF op \in {"push", "pull"} THEN idx ELSE 0,
                     IF op \in {"push", "pull"} THEN fn ELSE 0,
                     IF op \in PushesPayload THEN "raw_out" ELSE "raw_in")
  /\ UNCHANGED d2h

(* lf_load_configuration: transfer a header-only configuration packet.    *)
LoadConfiguration ==
  /\ hpc = "idle"
  /\ "config" \in Ops
  /\ Transfer("config", 0, "configuration", 0, 0, "cfg_in")
  /\ UNCHANGED d2h

(* The payload push that follows the packet; a failed push returns        *)
(* lf_error without raising and without pulling the result.               *)
RawOut ==
  /\ hpc = "raw_out"
  /\ \/ /\ h2d' = h2d \o [k \in 1 .. hop.len |-> RawUnit(hseq)]
        /\ hpc' = "result"
        /\ UNCHANGED <<hlast, faults>>
     \/ /\ Fault("push_lost")
        /\ Finish(NoId, "E_OK")
        /\ UNCHANGED h2d
  /\ UNCHANGED <<d2h, hop, hseq>>

(* The payload pull of lf_pull / lf_recieve: blocks until len units are   *)
(* there; a failed pull returns without raising.                          *)
RawIn ==
  /\ hpc = "raw_in"
  /\ \/ /\ Len(d2h) >= hop.len
        /\ d2h' = SubSeq(d2h, hop.len + 1, Len(d2h))
        /\ hpc' = "result"
        /\ UNCHANGED <<hlast, faults>>
     \/ /\ Fault("pull_timeout")
        /\ Finish(NoId, "E_OK")
        /\ UNCHANGED d2h
  /\ UNCHANGED <<h2d, hop, hseq>>

(* lf_load_configuration pulls sizeof(struct _lf_configuration) before    *)
(* the result; cfgok records whether what it read was a configuration.    *)
CfgIn ==
  /\ hpc = "cfg_in"
  /\ \/ /\ Len(d2h) >= CfgUnits
        /\ d2h' = SubSeq(d2h, CfgUnits + 1, Len(d2h))
        /\ hop' = [hop EXCEPT !.cfgok = \A k \in 1 .. CfgUnits : d2h[k].kind = "cfg"]
        /\ hpc' = "result"
        /\ UNCHANGED <<hlast, faults>>
     \/ /\ Fault("pull_timeout")
        /\ Finish(NoId, "E_OK")
        /\ UNCHANGED <<d2h, hop>>
  /\ UNCHANGED <<h2d, hseq>>

(* The error field of whatever struct _fmr_result-sized bytes were read; *)
(* for bytes that were not a result it is either zero or some non-zero   *)
(* code (the model keeps one, E_CHECKSUM, for all of them).              *)
ReadErr(u) == IF u.kind = "res" THEN {u.err} ELSE {"E_OK", "E_CHECKSUM"}
ReadFor(u) == IF u.kind = "res" THEN u.for ELSE NoId

(* Mutant: the result is read without being pulled off the endpoint.     *)
RecvResultPeek ==
  /\ hpc = "result"
  /\ d2h # <<>>
  /\ \E e \in ReadErr(Head(d2h)) :
       Finish(ReadFor(Head(d2h)),
              IF hop.op = "config" /\ e = "E_OK" /\ ~hop.cfgok THEN "E_NO_DEVICE" ELSE e)
  /\ UNCHANGED <<h2d, d2h, hop, hseq, faults>>

(* lf_get_result: pull one result; a device error is raised into the      *)
(* slot.  lf_load_configuration then compares the identifiers.            *)
RecvResult ==
  /\ hpc = "result"
  /\ d2h # <<>>
  /\ \E e \in ReadErr(Head(d2h)) :
       Finish(ReadFor(Head(d2h)),
              IF hop.op = "config" /\ e = "E_OK" /\ ~hop.cfgok THEN "E_NO_DEVICE" ELSE e)
  /\ d2h' = Tail(d2h)
  /\ UNCHANGED <<h2d, hop, hseq, faults>>

(* lf_retrieve: the endpoint pull fails; E_ENDPOINT is raised.  lf_invoke *)
(* ignores the failure and returns the uninitialised result.value.        *)
RecvTimeout ==
  /\ hpc = "result"
  /\ Fault("pull_timeout")
  /\ Finish(NoId, "E_ENDPOINT")
  /\ UNCHANGED <<h2d, d2h, hop, hseq>>

HostStart ==
  \/ \E idx \in Targets, fn \in Fns : Invoke(idx, fn)
  \/ \E op \in DOMAIN BulkClass, idx \in Targets, fn \in Fns, len \in 0 .. MaxLen :
       Bulk(op, idx, fn, len)
  \/ LoadConfiguration

HostNext == HostStart \/ RawOut \/ RawIn \/ CfgIn \/ RecvResult \/ RecvTimeout

=============================================================================
