------------------------------- MODULE Flipper ------------------------------
(***************************************************************************)
(* The host library and the device composed over one UART endpoint: h2d  *)
(* carries packets and payloads to the device, d2h results, configuration *)
(* records and payloads back.  Host and device steps interleave freely,   *)
(* except under ReplyAfterRearm (below).                                  *)
(***************************************************************************)
EXTENDS FmrTypes

CONSTANTS
  Registry, Ops, Targets, Fns, MaxLen, Faults, MaxFaults,
  ReplyAfterRearm  \* timing assumption: the host only sees a result once
                   \* uart0_isr has re-armed the receiver

ASSUME ReplyAfterRearm \in BOOLEAN

VARIABLES h2d, d2h, armed, rxbuf, rhr, dpc, dres, dlast,
          hpc, hop, hseq, hlast, faults

Dev  == INSTANCE FmrDevice
Host == INSTANCE FmrHost

devVars  == <<armed, rxbuf, rhr, dpc, dres, dlast>>
hostVars == <<hpc, hop, hseq, hlast, faults>>
vars == <<h2d, d2h, devVars, hostVars>>

Init == Dev!DevInit /\ Host!HostInit /\ h2d = <<>> /\ d2h = <<>>

(* Host steps that read the device-to-host stream.                        *)
HostReads == hpc \in {"raw_in", "cfg_in", "result"}

HostStep ==
  /\ Host!HostNext
  /\ ReplyAfterRearm /\ HostReads => dpc = "wait"
  /\ UNCHANGED devVars

DevStep == Dev!DevNext /\ UNCHANGED hostVars

Next == HostStep \/ DevStep

(* The UART interrupt and the PDC are hardware: once enabled they run.    *)
(* A blocked endpoint push or pull completes once its bytes are there.    *)
Fairness ==
  /\ WF_vars(DevStep)
  /\ WF_vars(Host!RawOut /\ HostStep)
  /\ WF_vars(Host!RawIn /\ HostStep)
  /\ WF_vars(Host!CfgIn /\ HostStep)
  /\ WF_vars(Host!RecvResult /\ HostStep)

Spec == Init /\ [][Next]_vars /\ Fairness

-----------------------------------------------------------------------------
(* Properties *)

TypeOK ==
  /\ h2d \in Seq([kind : {"pkt", "raw"}, id : Ids, cls : Classes,
                  mod : Targets \cup {0}, fn : Fns \cup {0}, part : 0 .. PacketUnits])
  /\ d2h \in Seq([kind : {"res", "raw", "cfg"}, for : Ids \cup {NoId},
                  err : Errors, ran : BOOLEAN])
  /\ armed \in BOOLEAN
  /\ Len(rxbuf) <= PacketUnits /\ Len(rhr) <= 1
  /\ dpc \in {"wait", "reply", "rearm"}
  /\ dlast \in Ids
  /\ hpc \in {"idle", "raw_out", "raw_in", "cfg_in", "result"}
  /\ hseq \in Ids
  /\ hlast \in [id : Ids, got : Ids \cup {NoId}, err : Errors]
  /\ faults \in 0 .. MaxFaults

(* lf_invoke / lf_get_result: a result the host accepts was produced by   *)
(* the device for the packet this very call sent, never for an earlier   *)
(* packet or for bytes the device misread as a packet.                    *)
ReplyIsOwn == hlast.got # NoId => hlast.got = hlast.id

(* Spec invariant R1 of struct _fmr_result: the error field is E_OK       *)
(* exactly when the requested operation was carried out without error.   *)
ResultErrorReflectsOutcome ==
  dpc = "reply" => (dres.err = "E_OK" <=> dres.ran)

(* Every call the client starts returns: the blocking endpoint pulls of   *)
(* lf_get_result and lf_pull are eventually satisfied by uart0_isr.       *)
CallsComplete == (hpc # "idle") ~> (hpc = "idle")

(* The host/device pair implements the one-call-at-a-time RPC of FmrRpc: *)
(* the device executes each sent packet once, while its call waits, and   *)
(* the call returns that execution's result.                              *)
Rpc == INSTANCE FmrRpc WITH
         seq   <- hseq,
         req   <- IF hpc = "idle" THEN NoId ELSE hseq,
         done  <- hpc # "idle" /\ dlast = hseq,
         reply <- hlast.got
RpcRefinement == Rpc!RpcSpec

=============================================================================
