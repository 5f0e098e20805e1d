# TLA+ models of the Flipper message runtime

This directory models the Flipper message runtime (FMR). A host library
(`src/kernel/arch/avr8/fmr.S`, host half) sends fixed-size packets over a byte
endpoint. The device (`src/platforms/atsam4s16b/src/system.c` with
`src/runtime/src/fmr.c`) performs each packet and answers with one
`struct _fmr_result`. The models check the protocol the two halves run together.

## 1. Inventory

| # | Component | Source | State | Operations | Model |
|---|---|---|---|---|---|
| C7 | Device interrupt loop and perform engine | system.c:33-78, fmr.c:68-130 | PDC enabled, packet buffer, UART holding register, ISR position, result being built | system_task arms the PDC; a byte arrives; uart0_isr disables, performs, pushes the result, re-arms | FmrDevice |
| C8 | Host invocation engine | fmr.S:442-534 | call in progress, error slot | lf_invoke, lf_transfer, lf_retrieve, lf_get_result | FmrHost |
| — | Bulk and configuration calls | fmr.S:404-440, 548-808 | as C8, plus payload phase | lf_push, lf_pull, lf_send, lf_recieve, lf_ram_load, lf_load_configuration | FmrHost |
| C4 | Endpoint | (outside src: bridge/network endpoints) | two byte streams | push, pull, with failure | Flipper (streams h2d, d2h; faults in FmrHost) |
| C6 | AVR trampoline fmr_call | fmr.S:18-263 | register file, X, Z, stack | prologue, load loop, call, return normalisation, fail, epilogue | FmrTrampoline, FmrTrampolineCheck |
| C2/C3 | Argument list and call encoding | fmr.c:4-66 | list, type word, parameter bytes, length | fmr_build, fmr_create_call | FmrCall, FmrCallCheck (and FmrTrampolineCheck, end to end) |
| — | Device lifecycle | fmr.S:271-402, 511-534 | heap, device records, flipper.device, endpoint liveness | lf_create_device, attach (usb, network, endpoint), select, detach, exit, transfer through a device's endpoint | FmrLifecycle, MCFmrLifecycle; abstract: FmrDevices |
| — | Module records and binding | module.c:3-24; fmr.S:459-476, 601-622 | module records: name pointer, index, device pointer | lf_module_create, lf_module_release, lf_bind, lf_invoke's checks | FmrLifecycle |
| — | Debug printers, drivers, bindings, linker script | fmr.S:812-878, boards/, api/, unnamed/, assets/ram.ld | none relevant | formatting, bring-up | not modelled: no protocol state |

How the parts interact: one client thread calls one library function at a time.
Each call pushes a packet, which is PacketUnits units on the wire. It may then push or pull
a payload, and it pulls one result. The device receives by DMA (the PDC) into one static
buffer. The end-of-receive interrupt performs the buffer, pushes the result
and re-arms. Nothing in a packet or a result identifies the request, so the
two sides stay matched only while the byte streams stay in step.

What is hard here and only a model reaches:

- Interleaving of the host's next push with the ISR's tail. The result goes out
  before the re-arm (system.c:74 and :76).
- Holding-register overrun while the PDC is off.
- Payload bytes the device stubs never consume or produce (system.c:23-29).
- Timeouts that leave a late result behind.
- Failures that return without pulling the result.
- The type word shifted in a 32-bit int past the eighth argument (fmr.c:50).
- Device records sharing one static endpoint, and a selection that must survive a failed attach.

The hazards list in PROJECT.json gives each one at its line.

## 2. Plan

Modules, leaves first:

1. `FmrTypes`: units on the wire, classes, errors, and the abstract magic/CRC check `IsPacket`.
2. `FmrDevice`: the interrupt loop and fmr_perform.
3. `FmrHost`: every host call, with endpoint faults.
4. `FmrRpc`: the abstract promise. Calls run one at a time, each sent call is executed
   once while it waits, and it returns that execution's result.
5. `Flipper`: the composition, the properties, and the refinement to FmrRpc.
6. `MCFlipper`: model values and bounds for TLC.
7. `FmrTrampoline`: fmr_call as pure operators, one per labelled block of the assembly.
8. `FmrTrampolineCheck`: one initial state per bounded input, with the properties
   comparing fmr_call with reference definitions (the avr-gcc register convention and
   spec §3/§4.6).

9. `FmrCall`: fmr_build and fmr_create_call as pure operators. FmrTrampolineCheck now
   builds each call through them, so its properties run from the client's fmr_va list to
   the callee's registers.
10. `FmrCallCheck`: one initial state per argument list, checking the type word.
11. `FmrLifecycle` and `MCFmrLifecycle`: the heap, device records, the selected-device
    pointer, endpoints and module records.
12. `FmrDevices`: the abstract device-record lifecycle of spec §3, which FmrLifecycle
    implements under a refinement mapping.

Still to come, in later work:

- Trampoline: long argument lists (more than four, or past r8). This needs the ABI's
  stack placement as a reference.
- Static `LF_MODULE` records (button, task), once their initial state is known.

## 3. How the modules correspond to the code

**FmrDevice.** The variables map to the device as follows:

- `armed`: the PDC receiver is enabled.
- `rxbuf`: the static `packet`.
- `rhr`: the UART RHR.
- `dpc`: the position inside uart0_isr.
- `dres`: the local `result`.

`DevInit` is system_task: the receiver armed on the empty buffer. Its peripheral set-up and idle loop change none of this state.

Each action models one part of the code:

- `UartReceive`: a byte arriving. It goes into the buffer while the PDC is counting, and otherwise overwrites the RHR. This is the UART and PDC hardware, not code of the repository, so it has no map entry.
- `IsrPerform`: the ISR up to `fmr_perform`.
- `IsrReply`: line 74.
- `IsrRearm`: line 76. The held byte is the first one the PDC takes.

`Perform` gives each class the result the code produces:

- standard: a function, or NULL, or a function that raises.
- user: E_OK with nothing done.
- bulk classes: `BulkStub`, E_OK from the empty `fmr_push`/`fmr_pull` of system.c.
- configuration: E_OK from the default branch.

Indices outside `fmr_modules` are undefined behaviour. They are modelled as a choice between NULL and some function.

**FmrHost.** `hpc` is where the client thread is blocked:

- `raw_out` / `raw_in`: the payload push or pull.
- `cfg_in`: the configuration pull.
- `result`: lf_get_result.

Because the client reads and clears the error slot after every call, `hlast` records the slot's value when the call returns. Faults are a lost push (the endpoint push fails) and a pull timeout. Each takes the error path the code has:

- E_ENDPOINT from lf_transfer or lf_retrieve.
- A silent return from the payload pushes and pulls.

The ghost `hseq` and `dlast`, and the ghost fields `id` and `part` of a unit, are not read by the code. They only let properties name requests.

**FmrTrampoline.** A machine state is `[r, x, z, stk, pc]`:

- `r`: the 32 registers.
- `x`: XL.
- `z`: the offset into the packed argument bytes.
- `stk`: the hardware stack.

The operators map to the assembly as follows:

- `Entry`: the prologue (lines 18-40).
- `Load`: the `_load` dispatch, recursive over the arguments.
- `Load8`, `Load16`, `Load32`, `LoadInt`: the load blocks.
- `LoadDone`: the shift of the type word and the decrement of argc.
- `Call`: the pops and icall. A `Callee` obeys the ABI.
- `Ret8`, `Ret16`, `RetVoid`, `Ret32`, `RetInt`, `Normalise`: the `_ret_*` chain.
- `Ser` on r18..r25: `_fail`.
- `Done`: the epilogue.

The aliases retv, argc and argt are read from r2..r5 themselves, so a store that
lands on them is modelled too. FmrTrampolineCheck builds each call's input:

- It packs the argument bytes as fmr_create_call does, using the spec widths with int/ptr as 2 bytes.
- It gives each argument byte a distinct value.
- It gives each caller register a distinct value, and uses a known return address.

**FmrCall.** An fmr_va is a record `[lo, hi]`: the value in the low 32 bits and the
tag above them, because TLC's integers are 32-bit. `Build` is fmr_build: the `argc <
FMR_MAX_ARGC` check, the `& 0x7` type mask (the sign bit is lost here) and the `>
fmr_ptr_t` check; a failure gives the empty list, which is what NULL is to the caller.
`CreateCall` is fmr_create_call. The 64-bit `types` is a function over its sixteen
nibbles, and each argument ORs its type into the nibble `ShlNibble` gives. The shift
is done in an int, so for the ninth argument on it is undefined; `Plat` chooses the
result: on x86 the count is taken mod 32, on ARM the result is 0. `Sizeof` takes the
widths of spec §3, since fmr_sizeof is not under src.

**FmrLifecycle.** The variables map to the host library as follows:

- `heap`: the live blocks. calloc and malloc return a block not in it, or NULL.
- `devs`: device records, each with its name class and endpoint.
- `selected`: `flipper.device`.
- `eplive`: whether each endpoint is live. `lf_bridge_ep` and `lf_network_ep` are static and shared.
- `mods`: module records: the value in the `name` field, `index`, and whether `device` points at `flipper.device` (`wired`).
- `fault`: the first use of a dead object: a free or a read through a pointer that is not a live block, or a push or pull through an endpoint that is not live. Every action is guarded by `fault = "none"`, since what follows is undefined.
- `exited`: flipper_exit has run. `last` records the last call and whether it succeeded.

Each call is one action: `AttachUsb` (flipper_attach and flipper_attach_usb, with the
selection set before configure and restored after the failure path's detach),
`AttachNetwork`, `AttachEndpoint`, `Select`, `Detach`, `Exit`, `Transfer` (lf_transfer and
lf_retrieve through the device's endpoint), `ModuleCreate`, `ModuleRelease`, `Bind` and
`Invoke`. `Created` is lf_create_device: it fails when calloc does or the name
is longer than the record's field. `ModuleCreate` stores `Garbage` in the name field,
because memcpy writes the name's bytes over the pointer, and it leaks the malloc'd block.
`Bind` is lf_bind. It reads the name, then stores `fld_index(id) | 0x80` in an
fmr_module (`BindIndex`). It goes on only if that value equals -1. fld_index's answer
(`LoaderAnswers`) and the type of fmr_module (`IndexTypes`: u8 or int) are not defined
under src, so both are inputs. `Invoke` is lf_invoke up to the transfer. It reads
`*(module->device)` before it checks the binding.

**FmrDevices** is what the lifecycle promises. A record appears only by an attach and
is then selected. A record goes only by its own detach or by teardown. A failed attach
changes nothing. FmrLifecycle maps `attached` to `DOMAIN devs`, `current` to `selected`
and `alive` to `~exited`. `DeviceRefinement` checks that every FmrLifecycle behaviour
is an FmrDevices behaviour.

**Flipper.** `h2d` and `d2h` are the endpoint's two directions. Host steps and device steps interleave. `ReplyAfterRearm` is a timing assumption. When it is TRUE, the host reads the result stream only while the ISR is idle, which stands for a host slower than the ISR's tail.

## 4. Runs

| Run | Expect | What it shows |
|---|---|---|
| rpc_invoke | pass | lf_invoke alone, with targets {0, 1 past the table, 128 user, 255 unbound}, functions {0, 1 NULL, 2 past the table} and one lost push. `ReplyIsOwn`, `CallsComplete` and `RpcRefinement` (the composition implements FmrRpc) all hold. |
| payload_safety | pass | push, send, ram_load, receive and configuration load with both faults (5.1 million states, about two minutes). Unconsumed payload misaligns the device buffer and results are read as payload, yet the PDC never takes more than one packet's units and the holding register keeps one byte (`TypeOK`). No property about misframed calls is checked here. `IsPacket` abstracts the magic and CRC tests to "one whole packet", so such a property would only restate that definition. |
| reply_mismatch | violation | A later call returns an earlier request's result (`ReplyIsOwn`): after a push whose payload the device never consumes, and after a result-pull timeout that leaves the late result in the stream. |
| reply_before_rearm | violation | Without the timing assumption, overrun loses the next packet's first byte and the call hangs. |
| user_call_silent | violation | A user call is answered E_OK with nothing run (spec R1). |
| tramp_abi | pass | Every list of up to 3 arguments over u8/u16/u32/i8/i16/i32 (259 lists), encoded by FmrCall, lands in the avr-gcc registers byte for byte as the client passed it (`ArgsPlaced`). The stack is balanced (`StackBalanced`). u8, u16, void, int, ptr and an invalid tag, with every raw r18..r25 over {0, 128, 255}, give the result spec §4.6 asks for (`ReturnNormalised`). |
| tramp_r16_clobber | violation | With 4 arguments, r16 (an argument register) is overwritten by the loop's type scratch. |
| tramp_ret_widen | violation | u32 and signed returns are not normalised: r22 is not cleared, and bit 4 is tested after `andi 0x7`, so nothing is sign-extended (spec P5). |
| tramp_fail_stack | violation | The `_fail` path from `_load` leaves the function address on the stack, and `ret` goes astray. |
| call_types_shift | violation | With nine arguments the ninth type does not reach nibble 8 of the type word on either platform (`TypesEncoded`). |
| lifecycle | pass | Every interleaving of attaches (with allocation, name and configure failures), select, detach, transfer, exit, module create/release, lf_bind and lf_invoke over four addresses (9,924 states). `flipper.device` is NULL or a live record until exit (`SelectionLive`). The calls implement FmrDevices (`DeviceRefinement`), so a failed attach, flipper_attach_usb's restore included, changes neither the records nor the selection. |
| dead_object_use | violation | `NoDeadObjectUse` fails. Device a1 is attached over USB. A second USB attach then fails, and its detach destroys the shared `lf_bridge_ep`. The restored selection a1 then pushes through the destroyed endpoint. With module calls included, the property fails in two steps instead: lf_module_release frees the name bytes that memcpy wrote over the pointer. |

Each property of a passing run has a mutant in PROJECT.json. Each mutant is a plausible bug of the mapped code, and TLC finds it breaking the property under the run's own configuration:

- The ISR is re-armed without resetting the buffer.
- The ISR forgets to re-enable the PDC.
- The result is read without being pulled.
- The PDC count is off by one.
- `_load32` advances Z one byte short; `_call` pops one byte of the two; `_ret_8` keeps r25.
- flipper_attach_usb clears the selection instead of restoring it (caught by `DeviceRefinement`); flipper_detach keeps a selection it frees.

Other findings have no run of their own. The hazards list in PROJECT.json covers them:

- lf_pull and lf_load_configuration hang on replies the device never sends (fmr_pull stub; no configuration case).
- int/ptr arguments advance Z by 8 bytes.
- fmr_call does not restore r2.

## 5. Bounds, fairness, assumptions

- **PacketUnits = 2.** The smallest size at which a packet can be split between two buffers, which is the misframing case.
- **CfgUnits = 2.**
- **IdSpace = 3.** Ghost ids wrap modulo 3, enough to tell the current call from the previous one and the one before it.
- **MaxLen = 1.** One payload unit already desynchronises the streams.
- **MaxFaults = 1.**
- **StreamBound = 3.** The payload runs use `CONSTRAINT StreamsBounded`, because the unconsumed streams grow without end. Three units hold a packet plus a stray byte.
- **Trampoline bounds.**
  - Argument lists of up to 3 in the passing run. A fourth argument is where the r16 bug starts, and it is shown separately.
  - The raw return bytes {0, 128, 255} give both signs and every high-bit pattern per register.
- **Call encoding.** Lists of u8/u16 up to nine long: the ninth argument is the first
  one whose shift is undefined, and MaxLen = 8 passes.
- **Lifecycle.** Four addresses, under address symmetry, hold two device records, a
  module record and its leaked name block at once. That is enough for a detach to free
  the selected record while another is live. dead_object_use needs only three: two USB
  records, one of them failing. `LoaderAnswers` = {-1, 0, 127} covers not found, the
  first slot, and the slot whose index with the user bit set would be 0xFF.
- **Deadlock.** `CHECK_DEADLOCK FALSE` is used where the client may stop calling, which is a legitimate end state. Blocked calls are then caught by `CallsComplete` as stuttering. In the lifecycle runs
  the process really stops after flipper_exit or a dead-object use.

Fairness:

- **Weak fairness on device steps.** These are hardware: the PDC, the interrupt and its straight-line body.
- **Weak fairness on the host's blocked continuations.** These are RawOut, RawIn, CfgIn and RecvResult: a blocking endpoint call completes once its bytes are there.
- **No fairness on starting a call or on faults.** The client and the link are not obliged to do either.

## 6. Not modelled

- Byte-level contents: magic, CRC and lengths are abstracted to `IsPacket`.
- Argument values and return values.
- The trampoline's lists longer than four arguments.
- Static `LF_MODULE` records (button.c, the task module in module.c). The macro that declares them, and so their initial index and device pointer, is not under src. Without them, lf_bind's index logic is unreachable in the model: every record from lf_module_create has a garbage name, and lf_bind faults reading it. The inverted assert at fmr.S:612 is therefore a hazard without a run. Because of that assert, lf_bind never stores an index it computed for a module it found, so the 0xFF index of loader slot 127 (fmr.S:610) is latent and is not listed as a hazard.
- The one-byte overflow of strcpy for a device name of exactly the field's size (fmr.S:297): the model accepts such a name, as the code does, but does not see bytes.
- A NULL from malloc in fmr_build (fmr.c:17-20 write the argument before checking it) and the unchecked malloc in lf_module_create: the model does not dereference blocks, so allocation failure is modelled only where the code checks it.
- What an endpoint's destroy does when the endpoint was never configured, or was already destroyed. Only pushes and pulls through a destroyed endpoint count as a dead-object use.
- A device reset (the reset pin is enabled at system.c:113). Neither side has code that handles one: a reset mid-packet leaves units the new buffer takes as the start of a packet. That is the misframing the payload runs already reach through unconsumed payload. There the magic and CRC tests (`IsPacket`) reject the buffer.
- The value of a bulk transfer's result. fmr_perform stores the return of `fmr_push(packet)` and `fmr_pull(packet)` in `result->value` (fmr.c:112, 116). system.c defines both as empty `void` functions of three parameters, so that value is undefined. `BulkStub` models only what the stubs do to the protocol state: they consume no payload and raise nothing.
- The registers fmr_call hands back to its caller. The prologue's comment says it preserves the callee-saved registers, but it pushes only r3-r5. r2 (retv), r16, r17 and the argument registers r8-r15 come back changed (hazard fmr.S:29). `FmrTrampoline` computes those registers. An invariant over avr-gcc's call-saved set fails on r2 for every call, but it would need a violation run of its own, and each of the twelve runs already answers another question.
- error.c: a constant table of function pointers with no operation of its own.
- button.c: its wrappers call `lf_invoke` with six arguments, which does not match fmr.S's three-parameter `lf_invoke`, so no model of lf_invoke describes them faithfully. Its `usb_configure` calls `dyld_register`, which is not under src.
- app.c: an application `main` that toggles PA0 in a busy loop and shares no state with the runtime.
- system_init: the clock bring-up. Its bounded `timeout` loops poll PMC flags, and what it leaves behind is hardware configuration that no part of the runtime reads. `DevInit` covers system_task up to its idle loop.
- Language bindings and the linker script. They carry no protocol state.
