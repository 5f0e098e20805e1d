------------------------------ MODULE FmrTypes ------------------------------
(***************************************************************************)
(* Shared data model of the Flipper message runtime (FMR): packet classes, *)
(* error codes and the units that travel on the two halves of the UART     *)
(* byte stream between the host library and the device.                   *)
(*                                                                         *)
(* Bytes are abstracted to "units".  A packet always travels as PacketUnits *)
(* units (lf_transfer pushes sizeof(struct _fmr_packet)), a result as one  *)
(* unit, a configuration record as CfgUnits units, and a bulk payload of   *)
(* n bytes as n units.  Each unit carries ghost fields (id, part) that the *)
(* code does not have; they only let properties say which request a unit   *)
(* belongs to.  The device never reads them except through IsPacket, which *)
(* stands for the magic-number and CRC checks of fmr_perform.             *)
(***************************************************************************)
EXTENDS Integers, Sequences

CONSTANTS
  PacketUnits,  \* units in one struct _fmr_packet on the wire
  CfgUnits,     \* units in one struct _lf_configuration
  IdSpace,      \* ghost request ids are taken modulo IdSpace
  NoId          \* model value: a unit that belongs to no request

ASSUME PacketUnits \in Nat \ {0}
ASSUME CfgUnits \in Nat \ {0}
ASSUME IdSpace \in Nat /\ IdSpace >= 3

Ids == 0 .. IdSpace - 1
NextId(i) == (i + 1) % IdSpace

(* Packet classes of enum fmr_class, in spec order. *)
Classes == {"configuration", "standard", "user", "ram_load", "send",
            "push", "receive", "pull", "event"}

(* Error codes used here (lf_error_t).  E_FN stands for any error a native *)
(* module function raises with lf_error_raise before it returns.           *)
Errors == {"E_OK", "E_NULL", "E_CHECKSUM", "E_ENDPOINT", "E_MODULE",
           "E_NO_DEVICE", "E_FN"}

(* FMR_USER_INVOCATION_BIT and the unbound module index ((int8_t)-1).     *)
UserBit == 128
Unbound == 255
IsUser(idx) == idx >= UserBit

(* A unit of the host-to-device stream: part k of packet id, or one byte  *)
(* of the bulk payload that follows packet id.  A payload unit has no     *)
(* class; its cls field is a filler that IsPacket never reads, since it   *)
(* rejects a raw unit by its kind.                                        *)
PktUnit(id, cls, mod, fn, k) ==
  [kind |-> "pkt", id |-> id, cls |-> cls, mod |-> mod, fn |-> fn, part |-> k]
RawUnit(id) ==
  [kind |-> "raw", id |-> id, cls |-> "event", mod |-> 0, fn |-> 0, part |-> 0]

(* The units of one whole packet, as lf_transfer pushes them.             *)
Packet(id, cls, mod, fn) == [k \in 1 .. PacketUnits |-> PktUnit(id, cls, mod, fn, k)]

(* A unit of the device-to-host stream: a struct _fmr_result (one unit),  *)
(* one unit of a configuration record, or one byte of bulk data.  "for"   *)
(* is the ghost id of the packet the device was answering (NoId for a     *)
(* buffer that failed the magic/CRC check); "ran" records whether the     *)
(* requested operation was actually carried out.                          *)
ResUnit(for, err, ran) == [kind |-> "res", for |-> for, err |-> err, ran |-> ran]
DevRawUnit == [kind |-> "raw", for |-> NoId, err |-> "E_OK", ran |-> FALSE]

(* fmr_perform's magic and checksum tests: the received buffer passes them *)
(* exactly when it holds the PacketUnits units of one packet, in order.   *)
IsPacket(buf) ==
  /\ Len(buf) = PacketUnits
  /\ buf[1].kind = "pkt"
  /\ buf = Packet(buf[1].id, buf[1].cls, buf[1].mod, buf[1].fn)

=============================================================================
