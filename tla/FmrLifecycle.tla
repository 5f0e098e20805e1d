----------------------------- MODULE FmrLifecycle -----------------------------
(***************************************************************************)
(* Host-side object lifecycle: device records (lf_create_device and the   *)
(* flipper_attach*, flipper_select, flipper_detach and flipper_exit calls *)
(* of kernel/arch/avr8/fmr.S:285-402) and module records                  *)
(* (lf_module_create and lf_module_release of runtime/src/module.c).      *)
(*                                                                         *)
(* The heap is the set of live blocks; calloc and malloc return any       *)
(* address not live, or NULL.  Endpoints are the static lf_bridge_ep and  *)
(* lf_network_ep, shared by every device attached through them, and the   *)
(* client's own endpoints.  One client thread makes one call per step and *)
(* passes only pointers it was given and has not released.  A free of a   *)
(* pointer that is not a live block, a read through one, or a push or     *)
(* pull through an endpoint that is not live is a use of a dead object:   *)
(* fault records which, and nothing further is modelled.                  *)
(***************************************************************************)
EXTENDS Integers, FiniteSets, TLC

CONSTANTS
  Addrs,     \* heap addresses
  NULL,      \* the null pointer
  Garbage,   \* a pointer field overwritten with bytes that are no address
  UserEps,   \* endpoints a client passes to flipper_attach_endpoint
  ModNames   \* names lf_module_create is called with (see below)

ASSUME NULL \notin Addrs /\ Garbage \notin Addrs \cup {NULL}

StaticEps == {"bridge", "network"}
Endpoints == StaticEps \cup UserEps

(* Names a device is created with: shorter than configuration.name, of    *)
(* exactly its size, or longer.  Module names (a subset of ModNameKinds): *)
(* none, under 16 characters, or 16 and more.                             *)
DevNames == {"short", "full", "long"}
ModNameKinds == {"null", "short", "long"}

(* lf_bind: what fld_index answers (not found, or a loader slot), and the *)
(* integer type fmr_module may have; neither is defined under src.        *)
LoaderAnswers == {-1, 0, 127}
IndexTypes == {"u8", "int"}
Faults == {"none", "free", "read", "endpoint"}

VARIABLES
  heap,      \* live heap blocks
  devs,      \* device record -> its endpoint
  selected,  \* flipper.device
  eplive,    \* endpoint -> configured and not destroyed
  mods,      \* module record -> [name field, index, device is &flipper.device]
  fault,     \* the first use of a dead object, or "none"
  exited,    \* flipper_exit has run (process teardown)
  last       \* the call of the last step and whether it succeeded

vars == <<heap, devs, selected, eplive, mods, fault, exited, last>>

Init ==
  /\ heap = {}
  /\ devs = [d \in {} |-> NULL]
  /\ selected = NULL
  /\ eplive = [e \in Endpoints |-> e \in UserEps]
  /\ mods = [m \in {} |-> NULL]
  /\ fault = "none"
  /\ exited = FALSE
  /\ last = [op |-> "none", ok |-> TRUE]

Running == fault = "none" /\ ~exited
Free(S) == {a \in Addrs \ heap : a \notin S}
Drop(f, x) == [y \in DOMAIN f \ {x} |-> f[y]]

(* lf_create_device: calloc (a, or NULL when calloc fails); a name longer *)
(* than configuration.name raises E_NAME and frees the record.            *)
Created(name, a) == a # NULL /\ name # "long"

-----------------------------------------------------------------------------
(* Mutant: the failure path does not put the saved selection back.       *)
AttachUsbNoRestore(name, a, cfgok) ==
  /\ Running
  /\ IF ~Created(name, a)
       THEN UNCHANGED <<heap, devs, selected, eplive>> /\ last' = [op |-> "attach", ok |-> FALSE]
     ELSE IF cfgok
       THEN /\ heap' = heap \cup {a}
            /\ devs' = devs @@ (a :> "bridge")
            /\ selected' = a
            /\ eplive' = [eplive EXCEPT !["bridge"] = TRUE]
            /\ last' = [op |-> "attach", ok |-> TRUE]
       ELSE /\ eplive' = [eplive EXCEPT !["bridge"] = FALSE]
            /\ last' = [op |-> "attach", ok |-> FALSE]
            /\ selected' = NULL
            /\ UNCHANGED <<heap, devs>>
  /\ UNCHANGED <<mods, fault, exited>>

(* flipper_attach / flipper_attach_usb: the record becomes flipper.device *)
(* before the bridge endpoint is configured; when configure fails,        *)
(* flipper_detach clears the selection, destroys the endpoint and frees   *)
(* the record, and the saved selection is put back.                       *)
AttachUsb(name, a, cfgok) ==
  /\ Running
  /\ IF ~Created(name, a)
       THEN UNCHANGED <<heap, devs, selected, eplive>> /\ last' = [op |-> "attach", ok |-> FALSE]
     ELSE IF cfgok
       THEN /\ heap' = heap \cup {a}
            /\ devs' = devs @@ (a :> "bridge")
            /\ selected' = a
            /\ eplive' = [eplive EXCEPT !["bridge"] = TRUE]
            /\ last' = [op |-> "attach", ok |-> TRUE]
       ELSE /\ eplive' = [eplive EXCEPT !["bridge"] = FALSE]
            /\ last' = [op |-> "attach", ok |-> FALSE]
            /\ UNCHANGED <<heap, devs, selected>>
  /\ UNCHANGED <<mods, fault, exited>>

(* flipper_attach_network: configured before it is selected; a failure   *)
(* detaches (destroying lf_network_ep) and leaves the selection alone.    *)
AttachNetwork(name, a, cfgok) ==
  /\ Running
  /\ IF Created(name, a) /\ cfgok
       THEN /\ heap' = heap \cup {a}
            /\ devs' = devs @@ (a :> "network")
            /\ selected' = a
            /\ eplive' = [eplive EXCEPT !["network"] = TRUE]
            /\ last' = [op |-> "attach", ok |-> TRUE]
       ELSE /\ eplive' = IF Created(name, a) THEN [eplive EXCEPT !["network"] = FALSE]
                                             ELSE eplive
            /\ last' = [op |-> "attach", ok |-> FALSE]
            /\ UNCHANGED <<heap, devs, selected>>
  /\ UNCHANGED <<mods, fault, exited>>

(* flipper_attach_endpoint: the client's endpoint, selected at once.      *)
AttachEndpoint(name, a, e) ==
  /\ Running
  /\ IF Created(name, a)
       THEN /\ heap' = heap \cup {a}
            /\ devs' = devs @@ (a :> e)
            /\ selected' = a
            /\ last' = [op |-> "attach", ok |-> TRUE]
       ELSE UNCHANGED <<heap, devs, selected>> /\ last' = [op |-> "attach", ok |-> FALSE]
  /\ UNCHANGED <<eplive, mods, fault, exited>>

(* flipper_select: NULL raises E_NULL, anything else is selected.         *)
Select(d) ==
  /\ Running
  /\ selected' = IF d = NULL THEN selected ELSE d
  /\ last' = [op |-> "select", ok |-> d # NULL]
  /\ UNCHANGED <<heap, devs, eplive, mods, fault, exited>>

(* Mutant: the selection is not cleared when the selected record goes.   *)
DetachKeepSelection(d) ==
  /\ Running
  /\ IF d = NULL
       THEN UNCHANGED <<heap, devs, selected, eplive>>
       ELSE /\ eplive' = [eplive EXCEPT ![devs[d]] = FALSE]
            /\ heap' = heap \ {d}
            /\ devs' = Drop(devs, d)
            /\ UNCHANGED selected
  /\ last' = [op |-> "detach", ok |-> d # NULL]
  /\ UNCHANGED <<mods, fault, exited>>

(* flipper_detach: clears flipper.device if it is this record, destroys   *)
(* the record's endpoint and frees the record.                            *)
Detach(d) ==
  /\ Running
  /\ IF d = NULL
       THEN UNCHANGED <<heap, devs, selected, eplive>>
       ELSE /\ selected' = IF d = selected THEN NULL ELSE selected
            /\ eplive' = [eplive EXCEPT ![devs[d]] = FALSE]
            /\ heap' = heap \ {d}
            /\ devs' = Drop(devs, d)
  /\ last' = [op |-> "detach", ok |-> d # NULL]
  /\ UNCHANGED <<mods, fault, exited>>

(* flipper_exit, the library destructor: the selected device's endpoint  *)
(* is destroyed and its record freed; flipper.device is left as it was.   *)
Exit ==
  /\ Running
  /\ IF selected = NULL
       THEN UNCHANGED <<heap, devs, eplive>>
       ELSE /\ eplive' = [eplive EXCEPT ![devs[selected]] = FALSE]
            /\ heap' = heap \ {selected}
            /\ devs' = Drop(devs, selected)
  /\ exited' = TRUE
  /\ last' = [op |-> "exit", ok |-> TRUE]
  /\ UNCHANGED <<selected, mods, fault>>

(* lf_transfer then lf_retrieve, as every call to a device does (lf_invoke *)
(* on the selected device, lf_load_configuration, lf_push ...): the packet *)
(* is pushed and the result pulled through device -> endpoint.  Whether   *)
(* the device answers is FmrHost's concern; here it matters only that the *)
(* endpoint is live.                                                      *)
Transfer(d) ==
  /\ Running
  /\ fault' = IF eplive[devs[d]] THEN "none" ELSE "endpoint"
  /\ last' = [op |-> "transfer", ok |-> eplive[devs[d]]]
  /\ UNCHANGED <<heap, devs, selected, eplive, mods, exited>>

-----------------------------------------------------------------------------
(* lf_module_create: the name must be given and shorter than 16; calloc  *)
(* gives the record a and malloc the name buffer b (or NULL, unchecked).  *)
(* memcpy(&module->name, name, len) copies the characters over the name   *)
(* pointer itself, so the field holds Garbage and b is never referenced.  *)
(* module->idx = idx sets idx, not the index field lf_invoke and lf_bind  *)
(* use (fmr.S:473, 616): index and device stay as calloc zeroed them.     *)
ModuleCreate(name, a, b) ==
  /\ Running
  /\ IF name = "short" /\ a # NULL
       THEN /\ heap' = heap \cup ({a, b} \ {NULL})
            /\ mods' = mods @@ (a :> [name |-> Garbage, index |-> 0, wired |-> FALSE])
            /\ last' = [op |-> "module", ok |-> TRUE]
       ELSE UNCHANGED <<heap, mods>> /\ last' = [op |-> "module", ok |-> FALSE]
  /\ UNCHANGED <<devs, selected, eplive, fault, exited>>

(* free(p) of a pointer field: NULL and live blocks are freed, anything  *)
(* else is a dead-object use.                                             *)
FreeFault(p) == IF p \in heap \cup {NULL} THEN "none" ELSE "free"

(* lf_module_release: free(module->name), then free(module).             *)
ModuleRelease(m) ==
  /\ Running
  /\ IF m = NULL
       THEN UNCHANGED <<heap, mods, fault>>
       ELSE /\ fault' = FreeFault(mods[m].name)
            /\ heap' = heap \ {m, mods[m].name}
            /\ mods' = Drop(mods, m)
  /\ last' = [op |-> "module", ok |-> m # NULL]
  /\ UNCHANGED <<devs, selected, eplive, exited>>

(* fld_index(identifier) | FMR_USER_INVOCATION_BIT stored in an fmr_module: *)
(* as a u8 the not-found -1 becomes 255; as an int it stays -1.           *)
BindIndex(r, typ) ==
  IF r = -1 THEN (IF typ = "u8" THEN 255 ELSE -1) ELSE 128 + r

(* lf_bind: E_NULL for no module; strlen and lf_crc read module -> name;  *)
(* lf_assert(index == -1, failure, E_MODULE, ...) goes on only when the   *)
(* index compares equal to -1, and then sets identifier, index and        *)
(* device (&flipper.device, the model's selected).                        *)
Bind(m, r, typ) ==
  /\ Running
  /\ IF m = NULL
       THEN UNCHANGED <<mods, fault>> /\ last' = [op |-> "bind", ok |-> FALSE]
     ELSE IF mods[m].name \notin heap
       THEN fault' = "read" /\ last' = [op |-> "bind", ok |-> FALSE] /\ UNCHANGED mods
     ELSE LET idx == BindIndex(r, typ) IN
          /\ mods' = IF idx = -1 THEN [mods EXCEPT ![m].index = idx, ![m].wired = TRUE]
                                  ELSE mods
          /\ last' = [op |-> "bind", ok |-> idx = -1]
          /\ UNCHANGED fault
  /\ UNCHANGED <<heap, devs, selected, eplive, exited>>

(* The int8_t view of an fmr_module value.                              *)
Int8(v) == IF v >= 128 THEN v - 256 ELSE v

(* lf_invoke up to the transfer: E_NULL for no module; the device is read *)
(* through module -> device before anything else is checked; no selected  *)
(* device gives E_NO_DEVICE and an index whose int8_t is -1 E_MODULE.     *)
(* Otherwise the packet goes through the selected device's endpoint.      *)
Invoke(m) ==
  /\ Running
  /\ CASE m = NULL            -> UNCHANGED fault /\ last' = [op |-> "invoke", ok |-> FALSE]
       [] ~mods[m].wired      -> fault' = "read" /\ last' = [op |-> "invoke", ok |-> FALSE]
       [] selected = NULL \/ Int8(mods[m].index) = -1
                              -> UNCHANGED fault /\ last' = [op |-> "invoke", ok |-> FALSE]
       [] OTHER -> /\ fault' = IF eplive[devs[selected]] THEN "none" ELSE "endpoint"
                   /\ last' = [op |-> "invoke", ok |-> eplive[devs[selected]]]
  /\ UNCHANGED <<heap, devs, selected, eplive, mods, exited>>

-----------------------------------------------------------------------------
Next ==
  \/ \E name \in DevNames, a \in Free({}) \cup {NULL}, ok \in BOOLEAN :
       AttachUsb(name, a, ok) \/ AttachNetwork(name, a, ok)
  \/ \E name \in DevNames, a \in Free({}) \cup {NULL}, e \in UserEps :
       AttachEndpoint(name, a, e)
  \/ \E d \in DOMAIN devs \cup {NULL} : Select(d) \/ Detach(d)
  \/ \E d \in DOMAIN devs : Transfer(d)
  \/ Exit
  \/ \E name \in ModNames, a \in Free({}) \cup {NULL} :
       \E b \in Free({a}) \cup {NULL} : ModuleCreate(name, a, b)
  \/ \E m \in DOMAIN mods \cup {NULL} : ModuleRelease(m)
  \/ \E m \in DOMAIN mods \cup {NULL}, r \in LoaderAnswers, typ \in IndexTypes :
       Bind(m, r, typ)
  \/ \E m \in DOMAIN mods \cup {NULL} : Invoke(m)

Spec == Init /\ [][Next]_vars

-----------------------------------------------------------------------------
(* Properties *)

(* flipper_detach / flipper_attach_usb's failure path: until the library  *)
(* is torn down, flipper.device is NULL or a live device record, so       *)
(* lf_invoke never dereferences a freed record through it.               *)
SelectionLive == exited \/ selected \in DOMAIN devs \cup {NULL}

(* flipper_attach* / select / detach / exit implement the device-record  *)
(* lifecycle of FmrDevices: a record appears only by a successful attach  *)
(* and is then selected, a failed attach changes neither the records nor  *)
(* the selection (flipper_attach_usb's restore included), and a record    *)
(* goes only by its own detach or by teardown.                            *)
Devices == INSTANCE FmrDevices WITH
             Records <- Addrs, attached <- DOMAIN devs, current <- selected,
             alive <- ~exited
DeviceRefinement == Devices!Spec

(* Whatever sequence of calls the client makes with the pointers it      *)
(* holds, the library never frees or reads through a pointer that is not *)
(* a live block (lf_module_release, lf_bind, lf_invoke's module->device), *)
(* and never pushes or pulls through an endpoint that another device's    *)
(* detach, or a failed attach, has destroyed (lf_transfer, lf_retrieve on *)
(* the shared lf_bridge_ep).                                              *)
NoDeadObjectUse == fault = "none"

=============================================================================
