# Verification of qemu-pcie-vip

TLA+ modules for the moving parts of this repository: the QEMU `pcie-vip` PCI
function, the Mini-ICS v2 link down to its byte stream, the C++ server with its
three endpoints (software, DPI and SystemVerilog, Verilator harness), the demo
host client, the RTL register path, and the guest driver with its tools. TLC
checks them on small instances. TLAPS proves, for every value of the constants,
the safety properties of the QEMU device, the server, the register path, the
descriptor ring and the driver, and that the byte stream implements the queue of
messages all of them rest on.

To run: `tlc -config Qemu.cfg MCQemuDevice` (every `.cfg` is listed under
[Runs](#runs)), `tlapm QemuDeviceProofs.tla` (every module with theorems is
listed under [Proofs](#proofs); each takes a few minutes, the ring's the longest).

## The system and its parts

```
 guest driver ──BAR/MSI-X/DMA── QEMU pcie-vip ──Unix socket── Mini-ICS server ── endpoint
 pcie_vip.c                     qemu-pcie-vip.patch           server.cpp         software model, or
                                                                                 Verilator harness + RTL, or
                                mini_ics_host_client ─────────┘                  DPI + SystemVerilog
```

| part | state | operations | what makes it hard |
| --- | --- | --- | --- |
| QEMU device (`patches/qemu-pcie-vip.patch`) | `connected`, one pending slot, work queue, bottom-half flag, transaction counter | realize/handshake, BAR access, reset, reader thread, bottom half, exit | vCPUs wait for remote answers while they hold the big QEMU lock (BQL) that the bottom half needs; late, duplicate and unsolicited responses; disconnect at any point |
| Mini-ICS wire (`protocol.*`, `socket.cpp`, `mics_*` in the patch) | kernel buffer, send lock | header encode/decode/validate, send, receive | two codecs in two languages; two roles share one set of message types; short sends; a descriptor replaced under a sender |
| Server (`server.cpp`, `transaction.hpp`, `socket.cpp`) | `has_client_`, `client_socket_`, inbound queue, pending table, ID generator | accept, hello, dispatch, disconnect; poll, respond, request, stop | IO thread and endpoint thread; responses racing timeouts; a new client after a disconnect |
| Software endpoint (`SoftwareEndpointModel`) | registers | register access, reset, doorbell sequence, give up, stop | a three-step sequence of which every step may fail |
| Host client (`host_client.cpp`) | script position, memory | the demo script, serving DMA | bounded waits, leftovers of earlier clients |
| Verilator top and AXI-Lite slave (`alex_qemu_verilator_top.sv`, `axi_lite_slave_model.sv`) | FSM and register file | one clock | three nested timeouts, accesses split in two |
| Verilator harness (`verilator_qemu_main.cpp`) | register shadows, `desc_head`, `doorbell_seen_` | register access, descriptor ring, reset | DMA while the guest goes on; partial failure of a ring |
| DPI shim and SystemVerilog endpoint (`mini_ics_dpi.cpp`, `mini_ics_endpoint_model.sv`, `nvme_register_model.sv`) | register port, registers, `sim_pass` | poll, register access over several clocks, doorbell sequence, shutdown | blocking calls out of simulated time; registered outputs read by another process |
| Guest driver (`pcie_vip.c`) | resources, `run_lock`, `irq_done`, buffers | probe, remove, open, the DMA test ioctl, the interrupt handler | three mechanisms that release resources; timeouts that free buffers in use; concurrent callers |
| Guest tools (`pcie-vip-run.c`, `pcie-vip-pcimem.c`) | options | run the test; read or write BAR0 | ranges checked twice; mapping arithmetic |
| Questa testbench, Python TLP bridge, logging | | | not modelled, see below |

The hazards at their lines, with the properties that cover them, are listed in
`PROJECT.json`.

## Modules

| module | models | state and actions |
| --- | --- | --- |
| `MicsWire` | message types, statuses, which response a request expects | constants only; a message is `[type, txn, arg, data, len, plen, status]`, `len` being `transfer_len` and `plen` `payload_len`; `BadHeader` stands for a header that does not decode |
| `QemuDevice` | `PcieVipState` and all its callbacks, against an arbitrary backend | one action per handler: `Connect` … `Exit`; `RpcBegin/Send/Return/Timeout` are `pcie_vip_rpc` cut where it gives up control; `Reader*` is `pcie_vip_reader`; `Bh*` is `pcie_vip_process_work`; `bql` is the BQL |
| `QemuDeviceProofs` | – | proofs about `QemuDevice` |
| `MiniIcsServer` | IO thread and the calls of the endpoint thread | `Io*` are the branches of `IoThreadMain`; `call` is the call the endpoint thread is in, cut at the `has_client_` check, the send and the timed wait |
| `ServerStepProofs`, `ServerSessionsProofs` | – | proofs about `ServerSessions`: what each step does to the call, the table and the wires; then the theorems |
| `SoftwareEndpoint` | `SoftwareEndpointModel` on top of the server | `stage` is the place in `Run`, `HandleMmioWrite` and `RunDmaSequence` |
| `DpiEndpoint` | the SystemVerilog process, its DPI shim and the clocked register model, on top of the server | stage `access` is the wait for the register model; `Shim*` are the calls of the shim |
| `HarnessEndpoint` | main's loop of the Verilator harness on top of the server, with the doorbell at 0x1000 | `MainHandle` is a round up to the answer; then the completion write, MSI-X |
| `ServerSessions` | the server with any of the three endpoints (`kind`) against clients that behave as the QEMU device does, one session after another | `Connect`, `Hello`, `Ask`, `TakeResponse`, `Serve`, `HangUp` |
| `VipLink` | `QemuDevice` and `SoftwareEndpoint` joined at the socket | joint actions; the open ends of both components are closed by each other; `ServerCrash` |
| `HostDemo` | `mini_ics_host_client` processes against the server | the script of `RunDemo` as a sequence of requests; `Serve` is one round of `ServiceRtlInitiatedTransactions` |
| `AxilPath` | `Harness::Mmio`, the MMIO-to-TLP FSM and the AXI-Lite slave, cycle by cycle | `Clock` steps all clocked processes at once; the third-party AXI-Lite master between them is external and stalls at will |
| `AxilPathProofs` | – | proofs about `AxilPath` |
| `DmaRing` | `pcie_vip_run_config` and its interrupt handler against `RunGenericDma` | driver steps cut at BAR accesses and waits; harness steps cut at each request to the host; in between, the device reduced to what `QemuDevice` establishes |
| `DmaRingInvariant`, `DmaRingSteps`, `DmaRingProofs` | – | the inductive invariant of `DmaRing`; what each kind of step does; that it is kept, and the theorems |
| `MicsChannel` | what the modules above take a connection to be: a queue of whole messages, of which the last may be torn | `Put`, `Tear`, `Get`, `Misread` |
| `MicsStream` | header codecs, `SendAll`/`RecvAll`, `mics_send`/`mics_recv`, the send lock, the kernel's buffer, the IO thread exchanging `client_socket_`; implements `MicsChannel` | rows of 16 bytes; a writer is cut at lock, `poll` and `send`; the header tables give the position of every field in each codec |
| `MicsStreamProofs` | – | proof that `MicsStream` implements `MicsChannel` |
| `GuestDriver` | life of the driver (probe with every failure, remove, `rmmod`, unplug) and the guest tools | `core.st` tells probe, a failing probe and remove apart, `core.todo` is the rest of their steps, `res` what is held; a `pcie-vip-run` process goes from options to exit code |
| `GuestDriverProofs` | – | proofs about `GuestDriver` |
| `MC*` | – | operation sets and symmetries for TLC |

### Behaviour modes

Some variables are chosen in `Init` and never change. They let one run cover
both disturbed and undisturbed behaviours, and let a liveness property say
"if no timed wait runs out early":

- `VipLink!calm`: no timed wait runs out, the server is not killed, and the
  guest leaves BAR0 alone between a doorbell and its MSI-X.
- `ServerSessions!kind`: which endpoint the process has. `ServerSessions!calm`:
  no timed wait runs out, no client hangs up, no DMA is refused, and clients ask
  for nothing between a doorbell and its MSI-X.
- `MicsStream!dir`: the direction looked at. `MicsStream!calm`: nothing times
  out, closes or is dropped.
- `GuestDriver!unplug`: the device may be taken away while files are open.
- `HostDemo!calm`: no timed wait runs out and no client is killed.
- `DmaRing!late`: timed waits may end although an answer is coming (otherwise
  they end only when nothing is on its way). `DmaRing!faulty`: allocations and
  DMA requests may fail.

### Abstractions

- Everywhere but in `MicsStream` a message is sent and received whole. This is
  what `IsChannel` (proved, see below) establishes, except after a send that was cut short by its
  timeout on a connection that stays up: from there on `MicsChannel` promises
  nothing about that connection, and the other modules leave the case out. The
  same goes for the tail of a message that reaches the next connection.
- `MicsStream`: a field is a set of byte positions; the order of bytes in a
  field (little-endian in both codecs) is left out. A row that is not the
  first of a header is taken not to begin with the magic number.
- `DpiEndpoint`: at a clock edge the two SystemVerilog processes run in either
  order, the same at every edge. Reset of the RTL precedes everything.
- `HarnessEndpoint`: what an access does in the RTL is `AxilPath`'s subject;
  here it succeeds or fails.
- `GuestDriver`: the run itself is one step that passes or fails (its inside is
  `DmaRing`'s subject). The kernel's part, devres in reverse order, `.owner`
  holding the module and `misc_deregister` hiding the node, is external.
- Undelivered data is lost to the QEMU device once the peer has closed
  (`wait_fd` treats `POLLHUP` as failure); the reader may still handle what
  precedes. In `HostDemo`, a server that closes with unread data resets the
  connection.
- `pending_active` and `pending_done` are one field of `pending`. `Close()` and
  `has_client_ = false` are one step, as a send between them fails either way.
- `pcie_vip_exit` is one step: it runs under the BQL and joins the reader.
- Steps within `realize` before `connect` (MSI-X set-up, the bottom half) are
  left out. A handshake that fails leaves the socket open, as the code does; a
  migration blocker that cannot be added closes it (`BlockerFails`).
- The `len` of a register read is the length the handler works with,
  `transfer_len` or the number of enabled bytes when that is 0.
- The server's IO thread tests `running_` before it waits for a client, so it
  may accept one more after `Stop` (`IoAccept`).
- Data is abstract: a few values, addresses that DMA accepts or refuses.
  Register offsets and sizes are the real ones. `HostDemo`'s memory is the
  initial pattern plus the command at its address.
- `DmaRing`: the LO/HI halves of a base address are one write; `Chunks`
  stands for splitting a transfer into link requests; a descriptor read that
  succeeds has its 32 bytes; the `-EINVAL` and `-EFAULT` returns
  change nothing and are left out; the legacy doorbell 0x1000 and RESET are
  not issued by the driver (`HarnessEndpoint` has them).
- `AxilPath`: two values per byte lane; `dma_doorbell_pulse` and
  `doorbell_value` are not read in this build and are left out; whether the
  external master reports a read decode error is open; the tick limits keep
  their ratio 1:2:1 (100, 200 and 100 in the code).

## Runs

Deadlock checking is off where the system may stop: a device that is
unplugged, a server that has shut down, clients and ioctls that are used up.
Distinct states are rounded. Type invariants are kept where others rest on them:
for the device, whose proof needs it, and for the server.

| cfg | instance | properties | result |
| --- | --- | --- | --- |
| `Qemu` | 2 vCPUs, 3 transaction IDs, a backend with 13 messages (right, late, wrong ID, wrong status, bad length, bad vector, bad header), one in flight | `TypeOK` `RpcSerial` `OwnAnswer` `NoStrandedWork` `RpcReturns` `WorkTakenUp` | hold, 480k states |
| `Sessions` | 3 endpoints, each with 2 sessions and 2 requests of any kind (the software endpoint a third), hang-ups, refused DMA, timeouts | `TypeOK` `OnlyOwnPending` `DmaAnswerOwn` `MsixAfterCompletion` `SimPassEarned` `ReadAnswerExact` `RequestAnswered` `ShutdownStops` `SequenceRaisesMsix` | hold, 350k |
| `Link` | 2 vCPUs, 3 IDs; CC read and write, doorbell, reset; timeouts and server crash | `ReadSeesLatestWrite` `MsixAfterCompletion` `SequenceEnds` `DoorbellRaisesIrq` | hold, 260k |
| `Ring` | 2 callers, 2 addresses handed out again, 2 runs with 2 iterations in all, timeouts and failures | `PassMeansExecuted` `StrayOnlyAfterTimeout` `WakeAfterCompletion` `OwnDescriptors` `FirstRunPasses` `IoctlReturns` | hold, 370k |
| `Axil` | 3 calls out of 12, ticks 7/14/7, master idling up to 10 cycles per move | `OwnResponse` `AccessExact` `DoorbellRuns` | hold, 4.0M |
| `Demo` | 2 client processes, 2 polls of CSTS | `PassEarned` `DemoPasses` `DemoEnds` | hold, 44k |
| `Driver` | 2 processes, 2 probes, the ends of both option ranges; a BAR of 4 pages of 8 bytes and every offset in it | `IoctlFindsDevice` `HandlerSafe` `NothingLeaked` `PassAsAsked` `RawAccessInside` `ToolEnds` | hold, 69k |
| `Stream` | 2 writers with 2 messages, payloads of 0 to 2 rows, 2 connections, a buffer of 3 rows | `IsChannel` `MessageArrives` | hold, 200k |
| `QemuDisconnect` | as `Qemu` | `DisconnectRejectsDma` | violated |
| `SessionsStaleAnswer` | 2 sessions, register reads | `OwnSessionAnswer` | violated |
| `RingRerun` | 1 caller, nothing failing | `EveryRunPasses` | violated |
| `DriverProbe` | as `Driver` | `VectorsOutliveIrq` | violated |

Why the bounds are enough. Three transaction IDs are the handshake, a call
that times out and the call that meets its late answer. Two sessions are a client and its
successor, the only relation the server's state can confuse. A ring run of two iterations
wraps the two-descriptor ring, and two runs meet `desc_head` and the late
completions left over from the run before, at the same address or at another;
two callers contend for `run_lock`. The ring's safety properties are proved for
any numbers, chunks of a transfer included. In `Axil` 7 cycles
suffice for one TLP and 14 for two when the master is prompt, and 10 stalls per
move exceed every limit, so that each timeout fires early, late and not at all;
three calls are one given up, one that may meet its remains, and one after it.
A buffer of 3 rows holds less than a header, so that every message is sent and
received in pieces; two writers with two messages meet before, inside and after
each other's. Two probes are one after the other's failure or removal, which
shows what the first left behind; the BAR is small because the arithmetic of
`pcie-vip-pcimem` only knows pages and their number.
Symmetry is used only where nothing but invariants is checked.

### What the violated properties show

- `QemuDisconnect`: `docs/specs/pcie-vip.rst` (in the patch, lines 51-52) says
  a disconnect "rejects writes/DMA". `pcie_vip_process_work` does not look at
  `connected`: a DMA write queued before the disconnect is executed after it.
- `SessionsStaleAnswer`: `protocol-v2.md:22-27` wants a second connection
  rejected and responses correlated. `IoThreadMain` accepts again, and the
  inbound queue outlives the session: a successor is sent the answer to its
  predecessor's request. Transaction IDs start over, so it may even match.
- `RingRerun`: every ioctl starts with tail 0, the harness keeps `desc_head`.
  A second run rings a tail that is not ahead of it and waits in vain.
- `DriverProbe`: `pcie_vip_remove` frees the interrupt before its vectors "so
  the PCI core never observes a live IRQ using an already-freed vector table"
  (`pcie_vip.c:300-302`). When an allocation or `misc_register` fails in probe,
  `err_vectors` frees them while the managed interrupt is still registered.

### What three of the properties leave out, and why

- `MsixAfterCompletion` (`Sessions`) counts per client. A client may store the
  completion and hang up before the MSI-X; the endpoint does not notice and the
  next client gets the interrupt (`server.cpp:209-227` only asks for *a*
  client). That is one interrupt at most, and it has a completion of its own
  that the earlier client stored. The harness ignores the result of its
  completion write (`verilator_qemu_main.cpp:406`); with refusals and timeouts
  the property says of it that no interrupt overtakes its write, and that at
  most one follows a write of an earlier session. Without either allowance TLC
  finds a violation.
- `PassMeansExecuted` excepts an ioctl at an address on which an earlier one
  timed out while the harness may still have been at work. The driver frees the
  buffers without stopping the device, and as the sequence number of a
  completion is not compared, the next run at that address can pass on the
  completions, data and interrupt of its predecessor. Without the exception TLC
  finds that run.
- `HandlerSafe` claims the vectors on every path but the failing ones of probe,
  which `DriverProbe` is about; the handler's data it claims on all.

## Fairness

Weak fairness on each thread's steps: threads keep running, and timed waits
end because they are timed (`qemu_cond_timedwait`, `wait_for`, `poll`,
`wait_for_completion_timeout`). Strong fairness is assumed in three places,
each a lock that others keep taking: `BhStart` (the main loop gets the BQL
although vCPUs contend for it; QEMU's BQL is a mutex that the kernel hands on),
`DmaRing!BottomHalf` for the same reason, and `DmaRing!Lock` (a kernel mutex,
which is fair). Nothing is assumed of a backend in `QemuDevice`, of clients
asking or leaving in `ServerSessions`, of a module being loaded or unloaded in
`GuestDriver`, nor of anyone starting a client or an ioctl. `RpcReturns` and `IoctlReturns` therefore rest on the code's own
timeouts, as their mutants (a wait without a limit) confirm. `MicsStream` has
one condition for all writers and one for all readers: only finitely much is
sent, so that no writer can be put off for ever, and the code on both sides
always returns to reading. A `pcie-vip-run` process and the kernel's
probe and remove keep running in `GuestDriver`; `run_lock` needs no more than
that, as each process runs once.

## Proofs

Each theorem holds for every value of the constants that satisfies the named
`ASSUME` of its module. Bounds such as the number of runs or of requests are
constants too, so a proof covers behaviours of any length.

| module | theorem | states |
| --- | --- | --- |
| `QemuDeviceProofs` | `Invariance` | `[]Inv`, the inductive invariant |
| | `TypeCorrect` | `[]TypeOK` |
| | `CallsAreSerial` | `[]RpcSerial`: the one pending slot is used by one call at a time, and the `pending_active` refusal is never taken |
| | `AnswersAreOwn` | `[]OwnAnswer`: whatever a backend sends, a successful access was answered by the response to its own request |
| | `WorkIsNeverStranded` | `[]NoStrandedWork`: queued DMA or MSI-X always has a bottom half to come |
| `ServerSessionsProofs` | `ServerTypes` | `[]TypeOK` |
| | `OnlyOwnPendingHolds` | `[]OnlyOwnPending`: the pending table holds the call in progress and nothing else |
| | `DmaAnswerOwnHolds` | `[]DmaAnswerOwn`: a DMA call returns the response to its own request, or none |
| | `SimPassEarnedHolds` | `[]SimPassEarned`: `sim_pass` implies a stored completion |
| | `MsixAfterCompletionHolds` | `[](kind # "harness" => MsixAfterCompletion)`: no client receives more interrupts than it stored completions, but for one that an earlier client's completion paid for |
| | `ReadAnswerExactHolds` | `[]ReadAnswerExact`: a register read of the simulated endpoint is answered with the register's value |
| `DmaRingProofs` | `RingInvHolds` | `[]RingInv`, the inductive invariant |
| | `OwnDescriptorsHolds` | `[]OwnDescriptors`: the harness works on the buffers of the ioctl it works for |
| | `StrayOnlyAfterTimeoutHolds` | `[]StrayOnlyAfterTimeout`: freed memory is written only after a wait ended too early |
| | `WakeAfterCompletionHolds` | `[]WakeAfterCompletion`: the interrupt finds both completion records in memory |
| | `PassMeansExecutedHolds` | `[]PassMeansExecuted`: a PASS is earned, unless an ioctl at the same address timed out too early before |
| `AxilPathProofs` | `AxilInvHolds` | `[]AxilInv`, the inductive invariant |
| | `OwnResponseHolds` | `[]OwnResponse`: `Mmio` takes the response to its own request |
| | `AccessExactHolds` | `[]AccessExact`: a successful aligned access is exact, split or not |
| | `DoorbellRunsHolds` | `[]DoorbellRuns`: the harness misses no doorbell pulse |
| `MicsStreamProofs` | `StreamInvHolds` | `[]StreamInv`, the inductive invariant |
| | `IsChannelHolds` | `Spec => IsChannel`: the byte stream implements `MicsChannel` |
| `GuestDriverProofs` | `IoctlFindsDeviceHolds` | `[]IoctlFindsDevice`: an open file keeps what the ioctl uses |
| | `HandlerSafeHolds` | `[]HandlerSafe`: a registered handler finds its data on every path, its vectors on all but the failing ones of probe |
| | `NothingLeakedHolds` | `[]NothingLeaked`: unbound means nothing held |
| | `PassAsAskedHolds` | `[]PassAsAsked`: PASS is for what was asked |
| | `RawAccessInsideHolds` | `[]RawAccessInside`: an access of `pcie-vip-pcimem` lies in its mapping and the BAR |
| | `RunsExcludeEachOther` | at most one process is in a run |

### The device

`QemuAssumption`: the lock owners are distinct, operations and messages are
well-typed, address and value sets are not empty. Any set of vCPUs, operations,
vectors and backend messages.

`OwnAnswer` alone is not inductive: `Finish` copies `pending_response`, so one
must know that a stored response belongs to the slot's ID (`PendingOwn`, kept
by the comparison in `pcie_vip_reader`), and that the slot's ID is that of the
caller about to return (`RpcSerial`, kept by the BQL). `RpcSerial` needs
`TypeOK` to tell vCPUs from the main loop, and types need that a caller has
built its request (`CallerHasRequest`). `NoStrandedWork` needs that no reader
exists before the handshake is over (`ReaderNotYet`). `TypeStep`, `CallStep`
and `WorkStep` take the three groups through one case per action.

### The server

`ServerAssumption` and `SessionAssumption`: there is a session, kinds are the
three endpoints, requests are well-typed, values are numbers with the smaller
ones among them. Any number of sessions and any sequences of requests.

`ServerStepProofs` first says what any step may do to the call in progress, the
table and the wires (`Move`), where each message on a wire comes from
(`OutFrom`, `InFrom`) and how the stage of the endpoint and its call go
together (`StageStep`); every invariant is then kept by a few kinds of step
instead of some thirty actions. `DmaAnswerOwn` needs that all IDs in flight have
been handed out (`IdsUsed`) and that whatever carries the ID of the call in
progress, on a wire or in the table, belongs to it (`IdsOwn`): `txn_gen_` never
starts over, so a late answer cannot meet a later call. `SimPassEarned` adds
that an acknowledged completion was counted (`StoredCounted`). For the
interrupts the invariant is a count per session (`MsixCounted`): interrupts
received and, in the session the server holds, on the wire, about to be sent or
owed for an acknowledged completion (`Load`) are together no more than the
completions that client stored and the one it may have been left (`Bonus`). What
is owed passes from a session that ends to the next: in between, a session that
is over stored a completion and did not get its interrupt (`Credit`), which
needs that sessions follow each other (`Ends`) and facts about the cardinality
of sets of places on each wire. `ReadAnswerExact` needs the same of the register
port (`PortExact`).

### The descriptor ring

`RingAssumption`: there are buffer addresses, none of them `NoBuf`; the bounds
are positive. Any number of callers, addresses, iterations, polls, runs and
chunks per transfer.

`RingInv` has two halves. The first is true of all that earlier runs may have
left: accesses that still wait are their callers' latest (`RpcOk`), the
addresses in effect when a doorbell is taken are those of the ioctl it is for
(`RingOwn`, over the queue of register writes), a run is two descriptors and an
interrupt means that `desc_head` moved or an error is shown for good
(`HarnessOk`), an answered request was the last one queued (`AnswerOk`). The
second says where the holder of `run_lock` is: before its doorbell (`Before`),
or after it with the doorbell on its way, the harness at work, the interrupt
raised, none to come, or only one of an earlier run (`During`), each with the
count of executed descriptors and the state of the completion records. That
count is what `PassMeansExecuted` reads at the end (`Earned`). A wait that ended
too early breaks the second half for its address, so it is claimed of callers
whose address saw none (`Sure`). For them `RingFresh` says that nothing is under
way at an address before its ioctl rings: no request, no run, no doorbell that
would start one, whoever used the address before. `DmaRingSteps` shows that every action
is one of a few kinds of step (`Kinds`), `DmaRingProofs` that each kind keeps
each conjunct.

### The register path

`AxilAssumption`: limits are numbers, operations have an address, at most 8
bytes and two dwords of data. Any tick limits and any stalling of the master.

The path is serial although calls are given up at any cycle: one TLP between
FSM and master (`OneTlp`), one transfer between master and slave
(`OneTransfer`), a response for one cycle (`OneResponse`). With that, whatever a
stage holds belongs to the accepted request (`OwnRequest`) and agrees with the
registers (`AnswerRight`, `HalfRight` for the first half of a split access,
`ResponseRight`, `LastRight` until the next call). The proof goes field by field
through one clock, once per state of the FSM and set of handshakes.

### The byte stream

`StreamAssumption`: connections are positive numbers, the kernel's buffer holds
a row, payloads are counted in rows, and the marks of the log are no messages.
Any number of connections and messages, any payloads, any buffer.

The mapping takes the queue to be the log of messages begun, without those
delivered before a torn one. `StreamInv` says that the lock is held from the
first row of a message to its last (`Locked`), how many messages are gone
(`Placed`), that a message being sent is the last of the log (`Unfinished`), and
that the rows the reader has and the kernel holds, taken together, run through
the undelivered messages in order, entry after entry and row after row
(`Tracked`, an assignment of rows to entries of the log). Then four rows the
reader has taken are one header, and the codecs' field tables agree
(`FieldRight`), so that what is delivered is the head of the queue. This is
claimed of connections whose reader is in step. Behind a torn message it
promises no more than `MicsChannel` does.

### The driver

`GuestAssumption`: bounds and sizes are positive, a page has 8 bytes or more.
Any number of processes and binds, any options, any BAR.

`CoreInv` says what exactly is held before each step of probe, and that in
each step of a release nothing is held that no later step gives back: every
error path enters the same list at the right place. In a remove the
interrupt is gone before the vectors are (`HandlerSafe`). `FilePins` ties open files
to the bound driver, `RunLockHeld` the lock to the one process in a run.
`RawAccessInside` is arithmetic of the page size, the BAR size and the offset.

### Only model-checked

- All liveness properties: `~>` under fairness is outside what the prover does.
- `MsixAfterCompletion` of the Verilator harness: undisturbed, the bound of the
  other endpoints rests on a whole round of both sides (`calm`, and a client that
  asks for nothing while a sequence runs); disturbed, on the order of writes and
  interrupts on the wires. The `Sessions` run explores both.
- `VipLink` (`ReadSeesLatestWrite`, `MsixAfterCompletion`) and `HostDemo`
  (`PassEarned`): compositions of components that are proved one by one; what is
  checked is how they meet.

## Not modelled

- The DMA engine wrapper (`pcie_vip_dma_if_pcie.sv`) around a third-party
  engine that is not in the repository: only its effect, in `DmaRing`.
- The Questa testbench `mini_ics_tb.sv` beyond the `sim_pass` it prints, and
  the Python TLP bridge, which drives a bus model outside the repository.
- The splitting of a harness DMA into TLPs (`DmaRead`, `DmaWrite`): chunks, in
  `DmaRing`.
- `Listen` and the steps within `ConnectUnixSocket`; parsing of command lines;
  ioctl numbers and pointers that the tools never pass; logging and output.
- A write of less than a dword at an address that is not dword-aligned
  (`alex_qemu_verilator_top.sv:190`), which `pcie-vip-pcimem` can issue. The
  FSM puts the data in the low lanes, and which lanes the third-party master
  then drives is not in the repository; `AccessExact` is about aligned ones.

### Observations without a run

Differences between comments and code met while modelling, each visible in one
place of the source:

- `server.cpp:117,121` sets `has_client_` after HELLO_ACK is sent, while
  `tests/integration_cpp_test.cpp:266-267` asserts `HasClient()` right after
  `Hello()`.
- `host_client.cpp:183-189` says the transaction ID is verified; it is not
  compared. `PassEarned` holds nevertheless.
- `host_client.cpp:366-373` says the DMA read is answered with the command;
  the command is at 0x200000 and ASQ is 0x100000.
- `server.cpp:303-306` speaks of 8 KB, `kMmioSpaceSize` is 64 KiB, and
  `server.cpp:264-266` says the registers behave as in the SystemVerilog model,
  which differs in readable registers and statuses.
- The guest README's `pcie-vip-run` needs the descriptor registers
  0x1040-0x105c, which the software endpoint refuses.
- A second HELLO is queued by the server and never answered.
- `socket.hpp:2` says that nothing blocks forever. The sockets are blocking and
  the timeout applies to the `poll` before each `send`: a peer that stops
  reading and does not close can hold a large `send`, and the lock, for ever.
- A send that is cut short by its timeout closes the connection on neither
  side (`server.cpp:198`, `mics_send`): the receiver goes on reading from the
  middle of a message, `Misread` in `MicsChannel`.
- Neither unplug nor unbind waits for open files, and `vip` is managed memory:
  an ioctl in progress would go on with a freed structure. `IoctlFindsDevice`
  is therefore claimed for `rmmod` only, where `.owner` makes it true.
- `pcie-vip-pcimem` maps a page plus the offset in it, so an access to the last
  page of a BAR at a nonzero offset in that page is refused by `mmap` although
  the range check let it through.

## Plan

Done: the link end to end with all three endpoints, the byte stream under it
and its refinement, the demo client, the descriptor ring, the register path,
the driver and its tools; the components proved.

1. Proofs: the harness's case of `MsixAfterCompletion`; `ReadSeesLatestWrite`
   for the composed link.
2. An abstract specification of the register service (a request is applied
   once, in order, and answered or not) that `ServerSessions` implements.
