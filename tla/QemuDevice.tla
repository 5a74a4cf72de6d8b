----------------------------- MODULE QemuDevice -----------------------------
(***************************************************************************)
(* The QEMU pcie-vip device (patches/qemu-pcie-vip.patch) as an open       *)
(* system: its vCPU callbacks, its reader thread and its bottom half,      *)
(* against a backend that may send any message of BackendMsgs at any time, *)
(* read what the device sends, or close the connection.                    *)
(*                                                                         *)
(* BAR accesses and resets run on a thread that holds the big QEMU lock    *)
(* (bql) for the whole remote call.  The bottom half takes the same lock.  *)
(* The reader thread takes only the device's own short locks, so each of   *)
(* its handlers is one step.                                               *)
(***************************************************************************)
EXTENDS MicsWire

CONSTANTS
  Vcpus,        \* threads that issue BAR accesses and resets
  NoOwner,      \* the big QEMU lock is free
  MainLoop,     \* the main loop thread, which runs the bottom half
  Ops,          \* the accesses the guest may issue
  BadAddrs,     \* host addresses pci_dma_read / pci_dma_write refuses
  Vectors,      \* the MSI-X vectors of the device
  MaxTransfer,  \* the max-transfer property
  MaxTxn,       \* bound: the device issues transaction IDs 1..MaxTxn
  BackendMsgs,  \* what the backend may send
  MaxWire       \* bound: the backend sends only while fewer messages than
                \* this are in flight

ASSUME QemuAssumption ==
  /\ Args # {} /\ Values # {}
  /\ NoOwner \notin Vcpus /\ MainLoop \notin Vcpus /\ NoOwner # MainLoop
  /\ Ops \subseteq [type : {"MMIO_READ_REQ", "MMIO_WRITE_REQ", "RESET_REQ"},
                    arg : Args, data : Values, size : Nat]
  /\ BackendMsgs \subseteq Message
  /\ MaxTransfer \in Nat /\ MaxTxn \in Nat /\ MaxWire \in Nat

VARIABLES
  life,       \* realize progress: "off", "hello", "live", "failed", "gone"
  connected,  \* s->connected
  nextTxn,    \* s->next_txn_id
  pending,    \* the pending slot: pending_active and pending_done (st),
              \* pending_txn_id and pending_response
  pc,         \* where each vCPU is in pcie_vip_rpc
  req,        \* the request each vCPU last built
  ret,        \* what each vCPU's last call returned
  rdr,        \* reader thread: "off", "run", "sched", "done"
  work,       \* s->work_queue
  bh,         \* the bottom half is scheduled
  bql,        \* holder of the big QEMU lock
  mem,        \* guest memory reached by endpoint DMA
  irq,        \* MSI-X vectors notified and not yet taken by the guest
  toBackend,  \* bytes written to the socket and not yet read by the backend
  toQemu,     \* bytes written by the backend and not yet read by the device
  hostOpen,   \* the device's end of the socket is open
  peerOpen    \* the backend's end of the socket is open

callVars == <<pending, pc, req, ret, nextTxn>>
bhVars == <<work, bh, mem, irq>>
wireVars == <<toBackend, toQemu, hostOpen, peerOpen>>
qemuVars == <<life, connected, callVars, rdr, bql, bhVars>>
vars == <<qemuVars, wireVars>>

NoMsg == [type |-> "NONE"]
MaybeMessage == Message \cup {NoMsg}

\* pending_done is only ever set while pending_active is, and both are cleared
\* together: "free" is neither, "active" the first and "done" both.
Slot == [st : {"free", "active", "done"}, txn : Nat, rsp : MaybeMessage]
Idle == [st |-> "free", txn |-> 0, rsp |-> NoMsg]

Msg(type, txn, arg, data, len, plen, status) ==
  [type |-> type, txn |-> txn, arg |-> arg, data |-> data,
   len |-> len, plen |-> plen, status |-> status]

NoData == CHOOSE d \in Values : TRUE
NoArg == CHOOSE a \in Args : TRUE

\* The header pcie_vip_mmio_read, pcie_vip_mmio_write and pcie_vip_reset build:
\* only a write carries a payload.
Request(op, txn) ==
  Msg(op.type, txn, op.arg, op.data, op.size,
      IF op.type = "MMIO_WRITE_REQ" THEN op.size ELSE 0, "SUCCESS")

Init ==
  /\ life = "off" /\ connected = FALSE /\ nextTxn = 1
  /\ pending = Idle
  /\ pc = [v \in Vcpus |-> "idle"]
  /\ req = [v \in Vcpus |-> NoMsg]
  /\ ret = [v \in Vcpus |-> NoMsg]
  /\ rdr = "off" /\ work = <<>> /\ bh = FALSE /\ bql = NoOwner
  /\ mem = [a \in Args |-> NoData] /\ irq = {}
  /\ toBackend = <<>> /\ toQemu = <<>> /\ hostOpen = FALSE /\ peerOpen = TRUE

-----------------------------------------------------------------------------
(* Realize, reset of the connection and unrealize.                         *)

\* pcie_vip_connect succeeds and pcie_vip_handshake sends HELLO.
Connect ==
  /\ life = "off" /\ peerOpen
  /\ nextTxn <= MaxTxn
  /\ life' = "hello"
  /\ connected' = TRUE /\ hostOpen' = TRUE
  /\ nextTxn' = nextTxn + 1
  /\ toBackend' = Append(toBackend, Msg("HELLO", nextTxn, NoArg, NoData, 0, 0, "SUCCESS"))
  /\ UNCHANGED <<pending, pc, req, ret, rdr, bql, bhVars, toQemu, peerOpen>>

\* No listener answered before the deadline of pcie_vip_connect.
ConnectFails ==
  /\ life = "off"
  /\ life' = "failed"
  /\ UNCHANGED <<connected, callVars, rdr, bql, bhVars, wireVars>>

Acknowledges(m) == m.type = "HELLO_ACK" /\ m.txn = nextTxn - 1 /\ m.status = "SUCCESS"

\* The reply to HELLO: anything but the matching HELLO_ACK fails realize,
\* through the label err_msix, which leaves fd open and connected set.
HandshakeReply ==
  /\ life = "hello" /\ toQemu # <<>>
  /\ LET ok == Acknowledges(Head(toQemu))
     IN  /\ life' = IF ok THEN "live" ELSE "failed"
         /\ rdr' = IF ok THEN "run" ELSE rdr
  /\ toQemu' = Tail(toQemu)
  /\ UNCHANGED <<connected, callVars, bql, bhVars, toBackend, hostOpen, peerOpen>>

\* The handshake succeeds and migrate_add_blocker fails: err_socket closes the
\* connection before the reader is started.
BlockerFails ==
  /\ life = "hello" /\ toQemu # <<>> /\ Acknowledges(Head(toQemu))
  /\ life' = "failed" /\ connected' = FALSE /\ hostOpen' = FALSE
  /\ toQemu' = Tail(toQemu)
  /\ UNCHANGED <<callVars, rdr, bql, bhVars, toBackend, peerOpen>>

\* mics_recv runs into timeout_ms, or sees the backend hang up.
HandshakeTimeout ==
  /\ life = "hello"
  /\ life' = "failed"
  /\ UNCHANGED <<connected, callVars, rdr, bql, bhVars, wireVars>>

\* pcie_vip_exit, under the big lock: shut the socket down, join the reader,
\* drop the bottom half and all queued work.
Exit ==
  /\ life = "live" /\ bql = NoOwner
  /\ life' = "gone"
  /\ connected' = FALSE /\ hostOpen' = FALSE
  /\ rdr' = "done" /\ bh' = FALSE /\ work' = <<>>
  /\ pending' = [pending EXCEPT !.rsp = NoMsg]
  /\ UNCHANGED <<pc, req, ret, nextTxn, bql, mem, irq, toBackend, toQemu, peerOpen>>

-----------------------------------------------------------------------------
(* A BAR access or reset on vCPU v: pcie_vip_rpc and its callers.          *)

Fail(v) == ret' = [ret EXCEPT ![v] = NoMsg]

\* Mutant: BAR callbacks run without the big lock.
RpcBegin_NoBql(v, op) ==
  /\ life = "live" /\ pc[v] = "idle" /\ nextTxn <= MaxTxn
  /\ op.type = "RESET_REQ" => connected
  /\ nextTxn' = nextTxn + 1
  /\ req' = [req EXCEPT ![v] = Request(op, nextTxn)]
  /\ Fail(v)
  /\ IF connected
     THEN /\ pending' = [st |-> "active", txn |-> nextTxn, rsp |-> NoMsg]
          /\ pc' = [pc EXCEPT ![v] = "send"]
          /\ bql' = v
     ELSE UNCHANGED <<pending, pc, bql>>
  /\ UNCHANGED <<life, connected, rdr, bhVars, wireVars>>

\* Take the big lock, draw a transaction ID and claim the pending slot.  A
\* reset returns before any of this when the device is disconnected.
RpcBegin(v, op) ==
  /\ life = "live" /\ pc[v] = "idle" /\ bql = NoOwner
  /\ nextTxn <= MaxTxn
  /\ op.type = "RESET_REQ" => connected
  /\ nextTxn' = nextTxn + 1
  /\ req' = [req EXCEPT ![v] = Request(op, nextTxn)]
  /\ Fail(v)
  /\ IF connected /\ pending.st = "free"
     THEN /\ pending' = [st |-> "active", txn |-> nextTxn, rsp |-> NoMsg]
          /\ pc' = [pc EXCEPT ![v] = "send"]
          /\ bql' = v
     ELSE UNCHANGED <<pending, pc, bql>>
  /\ UNCHANGED <<life, connected, rdr, bhVars, wireVars>>

\* Leave pcie_vip_rpc with rsp in pending_response: free the pending slot and
\* the big lock.
Leave(v, rsp) ==
  /\ pending' = [pending EXCEPT !.st = "free", !.rsp = rsp]
  /\ pc' = [pc EXCEPT ![v] = "idle"]
  /\ bql' = NoOwner

\* mics_send of the request; it fails once disconnected or hung up.
RpcSend(v) ==
  /\ pc[v] = "send"
  /\ IF connected /\ peerOpen
     THEN /\ toBackend' = Append(toBackend, req[v])
          /\ pc' = [pc EXCEPT ![v] = "wait"]
          /\ UNCHANGED <<pending, bql, ret>>
     ELSE /\ Leave(v, pending.rsp) /\ Fail(v)
          /\ UNCHANGED toBackend
  /\ UNCHANGED <<life, connected, req, nextTxn, rdr, bhVars, toQemu, hostOpen, peerOpen>>

\* The end of the wait: accept the stored response when it has the expected
\* type and status.  A read also wants payload_len to be the access size.
Accepted(v) ==
  /\ pending.st = "done"
  /\ pending.rsp.type = Expected(req[v].type)
  /\ pending.rsp.status = "SUCCESS"
  /\ req[v].type = "MMIO_READ_REQ" => pending.rsp.plen = req[v].len

Finish(v) ==
  /\ IF Accepted(v)
     THEN /\ ret' = [ret EXCEPT ![v] = pending.rsp]
          /\ Leave(v, NoMsg)
     ELSE /\ Fail(v)
          /\ Leave(v, pending.rsp)
  /\ UNCHANGED <<life, connected, req, nextTxn, rdr, bhVars, wireVars>>

\* The condition variable's predicate holds: answered or disconnected.
RpcReturn(v) ==
  /\ pc[v] = "wait"
  /\ pending.st = "done" \/ ~connected
  /\ Finish(v)

\* Mutant: qemu_cond_wait instead of qemu_cond_timedwait.
RpcTimeout_Never(v) == pc[v] = "wait" /\ FALSE /\ Finish(v)

\* qemu_cond_timedwait runs into timeout_ms first.
RpcTimeout(v) ==
  /\ pc[v] = "wait"
  /\ connected /\ pending.st # "done"
  /\ Finish(v)

-----------------------------------------------------------------------------
(* The reader thread, pcie_vip_reader.                                     *)

WorkTypes == {"DMA_READ_REQ", "DMA_WRITE_REQ", "MSIX"}

\* Mutant: any response completes the pending call.
ReaderResponse_AnyTxn ==
  /\ rdr = "run" /\ toQemu # <<>>
  /\ IsResponse(Head(toQemu))
  /\ pending' = IF pending.st # "free"
                THEN [pending EXCEPT !.rsp = Head(toQemu), !.st = "done"]
                ELSE pending
  /\ toQemu' = Tail(toQemu)
  /\ UNCHANGED <<life, connected, pc, req, ret, nextTxn, rdr, bql, bhVars,
                 toBackend, hostOpen, peerOpen>>

\* A response is stored for the call it matches and dropped otherwise.
ReaderResponse ==
  /\ rdr = "run" /\ toQemu # <<>>
  /\ IsResponse(Head(toQemu))
  /\ pending' = IF pending.st # "free" /\ Head(toQemu).txn = pending.txn
                THEN [pending EXCEPT !.rsp = Head(toQemu), !.st = "done"]
                ELSE pending
  /\ toQemu' = Tail(toQemu)
  /\ UNCHANGED <<life, connected, pc, req, ret, nextTxn, rdr, bql, bhVars,
                 toBackend, hostOpen, peerOpen>>

\* A DMA request or MSI-X is queued; the bottom half is scheduled after it.
ReaderQueue ==
  /\ rdr = "run" /\ toQemu # <<>>
  /\ Head(toQemu).type \in WorkTypes
  /\ work' = Append(work, Head(toQemu))
  /\ rdr' = "sched"
  /\ toQemu' = Tail(toQemu)
  /\ UNCHANGED <<life, connected, callVars, bql, bh, mem, irq, toBackend, hostOpen, peerOpen>>

\* Mutant: the bottom half is not scheduled.
ReaderSchedule_Forgotten ==
  /\ rdr = "sched"
  /\ rdr' = "run"
  /\ UNCHANGED <<life, connected, callVars, bql, bhVars, wireVars>>

ReaderSchedule ==
  /\ rdr = "sched"
  /\ bh' = TRUE
  /\ rdr' = "run"
  /\ UNCHANGED <<life, connected, callVars, bql, work, mem, irq, wireVars>>

\* Any other request is read and dropped.
ReaderDrop ==
  /\ rdr = "run" /\ toQemu # <<>>
  /\ Head(toQemu).type \in RequestTypes \ WorkTypes
  /\ toQemu' = Tail(toQemu)
  /\ UNCHANGED <<qemuVars, toBackend, hostOpen, peerOpen>>

\* recv_all fails: the backend hung up (poll reports POLLHUP even while data
\* is still queued), or the header does not decode.
ReaderStop ==
  /\ rdr = "run"
  /\ ~peerOpen \/ (toQemu # <<>> /\ Head(toQemu).type = BadHeader)
  /\ connected' = FALSE
  /\ rdr' = "done"
  /\ UNCHANGED <<life, callVars, bql, bhVars, wireVars>>

-----------------------------------------------------------------------------
(* The bottom half, pcie_vip_process_work.                                 *)

BhStart ==
  /\ bh /\ bql = NoOwner
  /\ bh' = FALSE
  /\ bql' = MainLoop
  /\ UNCHANGED <<life, connected, callVars, rdr, work, mem, irq, wireVars>>

\* pcie_vip_send_status: answer a request of the backend.
SendStatus(m, ok) ==
  toBackend' = IF connected /\ peerOpen
               THEN Append(toBackend,
                           Msg(Expected(m.type), m.txn, m.arg, NoData, m.len,
                               IF ok /\ m.type = "DMA_READ_REQ" THEN m.len ELSE 0,
                               IF ok THEN "SUCCESS" ELSE "OUT_OF_BOUNDS"))
               ELSE toBackend

\* The checks on transfer_len, and the result of pci_dma_read / pci_dma_write.
DmaReadOk(m) == m.len > 0 /\ m.len <= MaxTransfer /\ m.arg \notin BadAddrs
DmaWriteOk(m) == DmaReadOk(m) /\ m.len = m.plen

BhDmaRead ==
  /\ bql = MainLoop /\ work # <<>> /\ Head(work).type = "DMA_READ_REQ"
  /\ LET m == Head(work) IN SendStatus(m, DmaReadOk(m))
  /\ work' = Tail(work)
  /\ UNCHANGED <<life, connected, callVars, rdr, bql, bh, mem, irq, toQemu, hostOpen, peerOpen>>

BhDmaWrite ==
  /\ bql = MainLoop /\ work # <<>> /\ Head(work).type = "DMA_WRITE_REQ"
  /\ LET m == Head(work)
     IN  /\ mem' = IF DmaWriteOk(m) THEN [mem EXCEPT ![m.arg] = m.data] ELSE mem
         /\ SendStatus(m, DmaWriteOk(m))
  /\ work' = Tail(work)
  /\ UNCHANGED <<life, connected, callVars, rdr, bql, bh, irq, toQemu, hostOpen, peerOpen>>

\* Mutant: no check of the vector number.
BhMsix_AnyVector ==
  /\ bql = MainLoop /\ work # <<>> /\ Head(work).type = "MSIX"
  /\ irq' = irq \cup {Head(work).arg}
  /\ work' = Tail(work)
  /\ UNCHANGED <<life, connected, callVars, rdr, bql, bh, mem, wireVars>>

BhMsix ==
  /\ bql = MainLoop /\ work # <<>> /\ Head(work).type = "MSIX"
  /\ irq' = irq \cup ({Head(work).arg} \cap Vectors)
  /\ work' = Tail(work)
  /\ UNCHANGED <<life, connected, callVars, rdr, bql, bh, mem, wireVars>>

\* Mutant: the bottom half handles at most what it found and returns.
BhEnd_Early ==
  /\ bql = MainLoop
  /\ bql' = NoOwner
  /\ UNCHANGED <<life, connected, callVars, rdr, bhVars, wireVars>>

BhEnd ==
  /\ bql = MainLoop /\ work = <<>>
  /\ bql' = NoOwner
  /\ UNCHANGED <<life, connected, callVars, rdr, bhVars, wireVars>>

\* The guest's interrupt controller delivers a pending vector.
GuestIrq(vec) ==
  /\ vec \in irq
  /\ irq' = irq \ {vec}
  /\ UNCHANGED <<life, connected, callVars, rdr, bql, work, bh, mem, wireVars>>

-----------------------------------------------------------------------------
(* The backend at the other end of the socket.                             *)

BackendSend(m) ==
  /\ hostOpen /\ peerOpen /\ Len(toQemu) + Len(work) + Len(toBackend) < MaxWire
  /\ toQemu' = Append(toQemu, m)
  /\ UNCHANGED <<qemuVars, toBackend, hostOpen, peerOpen>>

BackendRecv ==
  /\ peerOpen /\ toBackend # <<>>
  /\ toBackend' = Tail(toBackend)
  /\ UNCHANGED <<qemuVars, toQemu, hostOpen, peerOpen>>

BackendClose ==
  /\ peerOpen
  /\ peerOpen' = FALSE
  /\ UNCHANGED <<qemuVars, toBackend, toQemu, hostOpen>>

Backend == (\E m \in BackendMsgs : BackendSend(m)) \/ BackendRecv \/ BackendClose

Realize == Connect \/ ConnectFails \/ HandshakeReply \/ BlockerFails \/ HandshakeTimeout \/ Exit
Vcpu(v) == (\E op \in Ops : RpcBegin(v, op)) \/ RpcSend(v) \/ RpcReturn(v) \/ RpcTimeout(v)
Reader == ReaderResponse \/ ReaderQueue \/ ReaderSchedule \/ ReaderDrop \/ ReaderStop
BottomHalf == BhStart \/ BhDmaRead \/ BhDmaWrite \/ BhMsix \/ BhEnd

Device ==
  \/ Realize
  \/ \E v \in Vcpus : Vcpu(v)
  \/ Reader
  \/ BottomHalf
  \/ \E vec \in Vectors : GuestIrq(vec)

Next == Device \/ Backend

Spec == Init /\ [][Next]_vars

(***************************************************************************)
(* Every thread of the device keeps running, timed waits end, and the big  *)
(* lock is handed to the main loop if it asks for it again and again.      *)
(* Nothing is assumed of the backend.                                      *)
(***************************************************************************)
Fairness ==
  /\ WF_vars(HandshakeReply \/ HandshakeTimeout)
  /\ \A v \in Vcpus : WF_vars(RpcSend(v) \/ RpcReturn(v) \/ RpcTimeout(v))
  /\ WF_vars(Reader)
  /\ SF_vars(BhStart)
  /\ WF_vars(BhDmaRead \/ BhDmaWrite \/ BhMsix \/ BhEnd)

FairSpec == Spec /\ Fairness

-----------------------------------------------------------------------------
(* Properties.                                                             *)

\* Every variable has the type its declaration in PcieVipState gives it.
TypeOK ==
  /\ life \in {"off", "hello", "live", "failed", "gone"}
  /\ connected \in BOOLEAN /\ nextTxn \in Nat
  /\ pending \in Slot
  /\ pc \in [Vcpus -> {"idle", "send", "wait"}]
  /\ req \in [Vcpus -> MaybeMessage]
  /\ ret \in [Vcpus -> MaybeMessage]
  /\ rdr \in {"off", "run", "sched", "done"}
  /\ work \in Seq(Message) /\ bh \in BOOLEAN
  /\ bql \in Vcpus \cup {NoOwner, MainLoop}
  /\ mem \in [Args -> Values] /\ irq \subseteq Vectors
  /\ toBackend \in Seq(Message) /\ toQemu \in Seq(Message)
  /\ hostOpen \in BOOLEAN /\ peerOpen \in BOOLEAN

\* One remote call at a time: pcie_vip_rpc has a single pending slot, and a
\* call finds it free unless the device is disconnected, because the thread
\* inside pcie_vip_rpc holds the big lock.  The "pending_active" rejection at
\* the head of pcie_vip_rpc is therefore never taken, and no access is lost
\* to it.
RpcSerial ==
  /\ \A v \in Vcpus : pc[v] # "idle" => bql = v /\ pending.st # "free" /\ pending.txn = req[v].txn
  /\ pending.st # "free" => bql \in Vcpus /\ pc[bql] # "idle"

\* Whatever the backend sends (late, duplicated or unsolicited responses, in
\* any order), a call that succeeds was answered by the response to its own
\* request: same transaction ID, the type the caller expects, status SUCCESS.
OwnAnswer ==
  \A v \in Vcpus : ret[v] # NoMsg =>
    /\ ret[v].txn = req[v].txn
    /\ ret[v].type = Expected(req[v].type)
    /\ ret[v].status = "SUCCESS"

\* Queued work is never stranded: the reader inserts into work_queue before
\* it calls qemu_bh_schedule and the bottom half drains the queue before it
\* returns, so whenever the queue is non-empty a run of
\* pcie_vip_process_work is scheduled, in progress or about to be scheduled.
NoStrandedWork == work # <<>> => bh \/ bql = MainLoop \/ rdr = "sched"

\* A BAR access or reset always returns to the guest, whatever the backend
\* does or fails to do: it is answered, sees the disconnect or times out.
RpcReturns == \A v \in Vcpus : pc[v] # "idle" ~> pc[v] = "idle"

\* A DMA request or MSI-X the reader has queued is eventually taken up by
\* pcie_vip_process_work, unless the device is unplugged first.
WorkTakenUp == work # <<>> ~> (bql = MainLoop \/ life = "gone")

\* docs/specs/pcie-vip.rst: "A runtime disconnect makes reads return all ones
\* and rejects writes/DMA".  Once the reader has recorded the disconnect,
\* no endpoint DMA changes guest memory.
DisconnectRejectsDma == [][life = "live" /\ ~connected => mem' = mem]_vars
=============================================================================
