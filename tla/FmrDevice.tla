------------------------------ MODULE FmrDevice -----------------------------
(***************************************************************************)
(* The device side of the message runtime on the ATSAM4S platform:         *)
(* system_task arms the UART0 PDC to receive one struct _fmr_packet; the   *)
(* end-of-receive interrupt uart0_isr disables the receiver, runs          *)
(* fmr_perform on the buffer, pushes the struct _fmr_result back and       *)
(* re-arms the receiver (platforms/atsam4s16b/src/system.c).               *)
(*                                                                         *)
(* fmr_perform (runtime/src/fmr.c) is modelled by the result it produces   *)
(* for each class; fmr_execute looks the function up in the module table.  *)
(***************************************************************************)
EXTENDS FmrTypes

CONSTANTS
  Registry   \* fmr_modules: module index -> function index -> "fn" | "null"

VARIABLES
  h2d,     \* units sent by the host and not yet taken by the UART
  d2h,     \* units pushed by the device and not yet pulled by the host
  armed,   \* the PDC receive channel is enabled (uart0_pull was called)
  rxbuf,   \* the static packet buffer filled by the PDC
  rhr,     \* UART0 receive holding register: <<>> or the last unit received
  dpc,     \* "wait" | "reply" | "rearm": where uart0_isr is
  dres,    \* the struct _fmr_result being built by uart0_isr
  dlast    \* ghost: id of the last packet that passed the magic/CRC checks

devVars == <<armed, rxbuf, rhr, dpc, dres, dlast>>

(* Mutant: the PDC counter is loaded one too high.                        *)
ReceivingOffByOne == armed /\ Len(rxbuf) <= PacketUnits

(* True when the PDC still accepts units into the packet buffer.          *)
Receiving == armed /\ Len(rxbuf) < PacketUnits

DevInit ==
  (* system_task: uart0_configure, enable ENDRX, uart0_pull(&packet).      *)
  (* The GPIO and USART set-up, the debug greeting and the idle loop that  *)
  (* toggles PA0 change none of this state; uart0_isr interrupts the loop. *)
  /\ armed = TRUE
  /\ rxbuf = <<>>
  /\ rhr = <<>>
  /\ dpc = "wait"
  /\ dres = ResUnit(NoId, "E_OK", FALSE)
  /\ dlast = 0

(* One unit reaches UART0.  While the PDC is receiving it is stored in the *)
(* packet buffer; otherwise it lands in the holding register, overwriting *)
(* (overrun) any unit already there.                                      *)
UartReceive ==
  /\ h2d # <<>>
  /\ IF Receiving
       THEN /\ rxbuf' = Append(rxbuf, Head(h2d))
            /\ UNCHANGED rhr
       ELSE /\ rhr' = <<Head(h2d)>>
            /\ UNCHANGED rxbuf
  /\ h2d' = Tail(h2d)
  /\ UNCHANGED <<d2h, armed, dpc, dres, dlast>>

(* fmr_execute: the function address from fmr_modules; an index outside   *)
(* the table reads past it (undefined behaviour): NULL or some function.  *)
Lookup(mod, fn) ==
  IF mod \in DOMAIN Registry /\ fn \in DOMAIN Registry[mod]
    THEN {Registry[mod][fn]}
    ELSE {"fn", "null"}

(* The results fmr_perform can produce for the received buffer.  A native *)
(* function may return after raising an error (E_FN).                     *)
Execute(id, mod, fn) ==
  UNION { IF a = "null" THEN {ResUnit(id, "E_NULL", FALSE)}
                        ELSE {ResUnit(id, "E_OK", TRUE), ResUnit(id, "E_FN", FALSE)}
          : a \in Lookup(mod, fn) }

(* fmr_push / fmr_pull, the empty stubs of system.c: no payload unit is  *)
(* consumed or produced, and nothing raises, so the error slot keeps E_OK. *)
BulkStub(p) == {ResUnit(p.id, "E_OK", FALSE)}

Perform(buf) ==
  IF ~IsPacket(buf)
    THEN {ResUnit(NoId, "E_CHECKSUM", FALSE)}
    ELSE LET p == buf[1] IN
         CASE p.cls = "standard" -> Execute(p.id, p.mod, p.fn)
           (* the weak fmr_perform_user_invocation returns lf_error       *)
           (* without raising, so the error slot still reads E_OK          *)
           [] p.cls = "user" -> {ResUnit(p.id, "E_OK", FALSE)}
           [] p.cls \in {"ram_load", "send", "push", "receive", "pull"} ->
                BulkStub(p)
           [] p.cls = "event" -> {ResUnit(p.id, "E_OK", TRUE)}
           (* default: lf_assert(true, ...) never fails; configuration    *)
           (* has no case and lands here too                               *)
           [] OTHER -> {ResUnit(p.id, "E_OK", FALSE)}

(* uart0_isr up to fmr_perform: ENDRX fired, disable the PDC receiver,    *)
(* zero the result, perform the packet.                                   *)
IsrPerform ==
  /\ dpc = "wait"
  /\ armed /\ Len(rxbuf) = PacketUnits
  /\ armed' = FALSE
  /\ \E r \in Perform(rxbuf) : dres' = r
  /\ dlast' = IF IsPacket(rxbuf) THEN rxbuf[1].id ELSE dlast
  /\ dpc' = "reply"
  /\ UNCHANGED <<h2d, d2h, rxbuf, rhr>>

(* uart0_push(&result, sizeof(struct _fmr_result)).                       *)
IsrReply ==
  /\ dpc = "reply"
  /\ d2h' = Append(d2h, dres)
  /\ dpc' = "rearm"
  /\ UNCHANGED <<h2d, armed, rxbuf, rhr, dres, dlast>>

(* Mutant: the ISR returns without re-enabling the PDC receiver.          *)
IsrRearmNoEnable ==
  /\ dpc = "rearm"
  /\ rxbuf' = rhr
  /\ rhr' = <<>>
  /\ dpc' = "wait"
  /\ UNCHANGED <<h2d, d2h, armed, dres, dlast>>

(* Mutant: the receive pointer and counter are not reset, so ENDRX fires  *)
(* again on the buffer just performed.                                    *)
IsrRearmKeepBuffer ==
  /\ dpc = "rearm"
  /\ armed' = TRUE
  /\ rhr' = <<>>
  /\ dpc' = "wait"
  /\ UNCHANGED <<h2d, d2h, rxbuf, dres, dlast>>

(* uart0_pull(&packet, sizeof(struct _fmr_packet)): restart the PDC; a    *)
(* unit waiting in the holding register is the first one it transfers.    *)
IsrRearm ==
  /\ dpc = "rearm"
  /\ armed' = TRUE
  /\ rxbuf' = rhr
  /\ rhr' = <<>>
  /\ dpc' = "wait"
  /\ UNCHANGED <<h2d, d2h, dres, dlast>>

DevNext == UartReceive \/ IsrPerform \/ IsrReply \/ IsrRearm

=============================================================================
