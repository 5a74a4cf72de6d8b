-------------------------- MODULE QemuDeviceProofs --------------------------
(***************************************************************************)
(* Safety of the QEMU device for every backend, every number of vCPUs and  *)
(* every value of the other constants.                                     *)
(***************************************************************************)
EXTENDS QemuDevice, TLAPS

\* What ties OwnAnswer together: a stored response belongs to the request in
\* the pending slot, because pcie_vip_reader compares the transaction IDs
\* under state_lock and pcie_vip_rpc clears pending_done before it sends.
PendingOwn == pending.st = "done" => pending.rsp \in Message /\ pending.rsp.txn = pending.txn

\* A thread inside pcie_vip_rpc has built its request.
CallerHasRequest == \A v \in Vcpus : pc[v] # "idle" => req[v] \in Message

\* pcie_vip_realize creates the reader thread only after the handshake.
ReaderNotYet == life \in {"off", "hello"} => rdr = "off"

Inv == /\ TypeOK /\ CallerHasRequest /\ RpcSerial /\ PendingOwn /\ OwnAnswer
       /\ ReaderNotYet /\ NoStrandedWork

\* A request or response record built by Msg is a message.
LEMMA MsgType ==
  ASSUME NEW type \in ResponseTypes \cup RequestTypes, NEW txn \in Nat, NEW arg \in Args,
         NEW data \in Values, NEW len \in Nat, NEW plen \in Nat, NEW status \in Statuses
  PROVE  Msg(type, txn, arg, data, len, plen, status) \in Message
BY DEF Msg, Message

\* The placeholders of fields no handler reads are in range.
LEMMA Placeholders == NoArg \in Args /\ NoData \in Values
BY QemuAssumption DEF NoArg, NoData

\* The header the BAR callbacks and pcie_vip_reset build is a message that
\* carries the transaction ID it was built with.
LEMMA RequestType ==
  ASSUME NEW op \in Ops, NEW txn \in Nat
  PROVE  /\ Request(op, txn) \in Message
         /\ Request(op, txn).txn = txn
         /\ Request(op, txn).type = op.type
<1>1. /\ op.type \in {"MMIO_READ_REQ", "MMIO_WRITE_REQ", "RESET_REQ"}
      /\ op.arg \in Args /\ op.data \in Values /\ op.size \in Nat
  BY QemuAssumption
<1> QED
  BY <1>1 DEF Request, Msg, Message, RequestTypes, ResponseTypes, Statuses

\* The response pcie_vip_send_status builds is a message.
LEMMA SendStatusType ==
  ASSUME toBackend \in Seq(Message), NEW m \in Message, NEW ok \in BOOLEAN, SendStatus(m, ok)
  PROVE  toBackend' \in Seq(Message)
<1>1. Expected(m.type) \in ResponseTypes
  BY DEF Expected, ResponseTypes
<1>2. /\ m.txn \in Nat /\ m.arg \in Args /\ m.len \in Nat
  BY DEF Message
<1> DEFINE plen == IF ok /\ m.type = "DMA_READ_REQ" THEN m.len ELSE 0
           status == IF ok THEN "SUCCESS" ELSE "OUT_OF_BOUNDS"
<1>3. plen \in Nat /\ status \in Statuses
  BY <1>2 DEF Statuses
<1> HIDE DEF plen, status
<1>4. Msg(Expected(m.type), m.txn, m.arg, NoData, m.len, plen, status) \in Message
  BY <1>1, <1>2, <1>3, MsgType, Placeholders
<1> QED
  BY <1>4 DEF SendStatus, plen, status

\* Messages and their absence.
LEMMA MaybeMessageType == NoMsg \in MaybeMessage /\ Message \subseteq MaybeMessage
BY DEF MaybeMessage

\* Leaving a call keeps the slot in its type.
LEMMA LeaveType ==
  ASSUME pending \in Slot, NEW v, NEW rsp \in MaybeMessage, Leave(v, rsp)
  PROVE  pending' \in Slot
BY Zenon DEF Leave, Slot

\* What the slot holds is a message or none.
LEMMA SlotHolds == ASSUME pending \in Slot PROVE pending.rsp \in MaybeMessage
BY DEF Slot

\* An empty queue or wire holds messages only.
LEMMA EmptySeq == <<>> \in Seq(Message)
OBVIOUS

-----------------------------------------------------------------------------

\* Init establishes the invariant.
LEMMA InitInv == Init => Inv
<1> SUFFICES ASSUME Init PROVE Inv
  OBVIOUS
<1> USE QemuAssumption, Placeholders DEF Init
<1>1. TypeOK
  <2>1. pending \in Slot
    BY MaybeMessageType DEF Slot, Idle
  <2>2. req \in [Vcpus -> MaybeMessage] /\ ret \in [Vcpus -> MaybeMessage]
    BY MaybeMessageType
  <2> QED
    BY <2>1, <2>2, EmptySeq, Zenon DEF TypeOK
<1>2. CallerHasRequest /\ RpcSerial /\ PendingOwn /\ OwnAnswer
  BY DEF CallerHasRequest, RpcSerial, PendingOwn, OwnAnswer, Idle
<1>3. ReaderNotYet /\ NoStrandedWork
  BY Zenon DEF ReaderNotYet, NoStrandedWork
<1> QED
  BY <1>1, <1>2, <1>3 DEF Inv

\* Every step keeps every variable in its type.
LEMMA TypeStep == TypeOK /\ CallerHasRequest /\ [Next]_vars => TypeOK'
<1> SUFFICES ASSUME TypeOK, CallerHasRequest, [Next]_vars PROVE TypeOK'
  OBVIOUS
<1> USE DEF TypeOK, callVars, bhVars, wireVars, qemuVars
<1>1. CASE Connect
  <2>1. Msg("HELLO", nextTxn, NoArg, NoData, 0, 0, "SUCCESS") \in Message
    BY Placeholders, MsgType, Zenon DEF RequestTypes, Statuses
  <2> QED
    BY <1>1, <2>1 DEF Connect
<1>2. CASE ConnectFails
  BY <1>2 DEF ConnectFails
<1>3. CASE HandshakeReply
  BY <1>3 DEF HandshakeReply
<1>24. CASE BlockerFails
  <2>1. toQemu' \in Seq(Message)
    BY <1>24 DEF BlockerFails
  <2> QED
    BY <1>24, <2>1, Zenon DEF BlockerFails
<1>4. CASE HandshakeTimeout
  BY <1>4 DEF HandshakeTimeout
<1>5. CASE Exit
  <2>1. pending' \in Slot
    BY <1>5, MaybeMessageType DEF Exit, Slot
  <2> QED
    BY <1>5, <2>1, EmptySeq, Zenon DEF Exit
<1>6. ASSUME NEW v \in Vcpus, NEW op \in Ops, RpcBegin(v, op) PROVE TypeOK'
  <2>1. pending' \in Slot
    BY <1>6, MaybeMessageType DEF RpcBegin, Slot
  <2>2. req' \in [Vcpus -> MaybeMessage] /\ ret' \in [Vcpus -> MaybeMessage]
    BY <1>6, RequestType, MaybeMessageType DEF RpcBegin, Fail
  <2> QED
    BY <1>6, <2>1, <2>2 DEF RpcBegin
<1>7. ASSUME NEW v \in Vcpus, RpcSend(v) PROVE TypeOK'
  <2>1. CASE connected /\ peerOpen
    BY <1>7, <2>1, QemuAssumption DEF RpcSend, CallerHasRequest
  <2>2. CASE ~(connected /\ peerOpen)
    <3>1. pending' \in Slot
      BY <1>7, <2>2, LeaveType, SlotHolds DEF RpcSend
    <3>2. ret' \in [Vcpus -> MaybeMessage]
      BY <1>7, <2>2, MaybeMessageType DEF RpcSend, Fail
    <3>3. pc' \in [Vcpus -> {"idle", "send", "wait"}] /\ bql' = NoOwner
      BY <1>7, <2>2 DEF RpcSend, Leave
    <3> QED
      BY <1>7, <2>2, <3>1, <3>2, <3>3 DEF RpcSend
  <2> QED
    BY <2>1, <2>2
<1>8. ASSUME NEW v \in Vcpus, Finish(v) PROVE TypeOK'
  <2>0. pending.rsp \in MaybeMessage
    BY SlotHolds
  <2>1. pending' \in Slot
    <3>1. \E rsp \in MaybeMessage : Leave(v, rsp)
      BY <1>8, <2>0, MaybeMessageType DEF Finish
    <3> QED
      BY <3>1, LeaveType
  <2>2. ret' \in [Vcpus -> MaybeMessage]
    BY <1>8, <2>0, MaybeMessageType, Zenon DEF Finish, Fail
  <2>3. pc' \in [Vcpus -> {"idle", "send", "wait"}] /\ bql' = NoOwner
    BY <1>8 DEF Finish, Leave
  <2> QED
    BY <1>8, <2>1, <2>2, <2>3 DEF Finish
<1>9. CASE ReaderResponse
  <2>1. Head(toQemu) \in MaybeMessage /\ toQemu' \in Seq(Message)
    BY <1>9, MaybeMessageType DEF ReaderResponse
  <2>2. pending' \in Slot
    BY <1>9, <2>1, Zenon DEF ReaderResponse, Slot
  <2> QED
    BY <1>9, <2>1, <2>2 DEF ReaderResponse
<1>10. CASE ReaderQueue
  BY <1>10 DEF ReaderQueue
<1>11. CASE ReaderSchedule
  BY <1>11 DEF ReaderSchedule
<1>12. CASE ReaderDrop
  BY <1>12 DEF ReaderDrop
<1>13. CASE ReaderStop
  BY <1>13, Zenon DEF ReaderStop
<1>14. CASE BhStart
  BY <1>14, Zenon DEF BhStart
<1>15. CASE BhDmaRead
  <2>1. Head(work) \in Message /\ work' \in Seq(Message)
    BY <1>15 DEF BhDmaRead
  <2>2. toBackend' \in Seq(Message)
    BY <1>15, <2>1, SendStatusType, Zenon DEF BhDmaRead, DmaReadOk
  <2> QED
    BY <1>15, <2>1, <2>2 DEF BhDmaRead
<1>16. CASE BhDmaWrite
  <2>1. Head(work) \in Message /\ work' \in Seq(Message)
    BY <1>16 DEF BhDmaWrite
  <2>2. toBackend' \in Seq(Message)
    BY <1>16, <2>1, SendStatusType, Zenon DEF BhDmaWrite, DmaReadOk, DmaWriteOk
  <2>3. mem' \in [Args -> Values]
    BY <1>16, <2>1, Zenon DEF BhDmaWrite, Message
  <2> QED
    BY <1>16, <2>1, <2>2, <2>3 DEF BhDmaWrite
<1>17. CASE BhMsix
  BY <1>17 DEF BhMsix
<1>18. CASE BhEnd
  BY <1>18 DEF BhEnd
<1>19. ASSUME NEW vec \in Vectors, GuestIrq(vec) PROVE TypeOK'
  BY <1>19 DEF GuestIrq
<1>20. ASSUME NEW m \in BackendMsgs, BackendSend(m) PROVE TypeOK'
  BY <1>20, QemuAssumption DEF BackendSend
<1>21. CASE BackendRecv
  BY <1>21 DEF BackendRecv
<1>22. CASE BackendClose
  BY <1>22, Zenon DEF BackendClose
<1>23. CASE UNCHANGED vars
  BY <1>23 DEF vars
<1> QED
  BY <1>1, <1>2, <1>3, <1>4, <1>5, <1>6, <1>7, <1>8, <1>9, <1>10, <1>11, <1>12, <1>13,
     <1>14, <1>15, <1>16, <1>17, <1>18, <1>19, <1>20, <1>21, <1>22, <1>23, <1>24
     DEF Next, Device, Realize, Vcpu, RpcReturn, RpcTimeout, Reader, BottomHalf, Backend

\* After a call has left, no call is under way.
LEMMA Released ==
  ASSUME pending'.st = "free", \A w \in Vcpus : pc'[w] = "idle"
  PROVE  (CallerHasRequest /\ RpcSerial /\ PendingOwn)'
BY DEF CallerHasRequest, RpcSerial, PendingOwn

\* A step of one vCPU leaves what the others were returned as it is.
LEMMA OthersAnswers ==
  ASSUME OwnAnswer, NEW v \in Vcpus,
         \A w \in Vcpus \ {v} : ret'[w] = ret[w] /\ req'[w] = req[w],
         ret'[v] # NoMsg => /\ ret'[v].txn = req'[v].txn
                            /\ ret'[v].type = Expected(req'[v].type)
                            /\ ret'[v].status = "SUCCESS"
  PROVE  OwnAnswer'
BY DEF OwnAnswer

\* The calls: every step of every thread keeps the pending slot in the hands
\* of the vCPU that holds the big lock, and its response that vCPU's own.
LEMMA CallStep ==
  Inv /\ [Next]_vars => (CallerHasRequest /\ RpcSerial /\ PendingOwn /\ OwnAnswer)'
<1> SUFFICES ASSUME Inv, [Next]_vars
             PROVE  (CallerHasRequest /\ RpcSerial /\ PendingOwn /\ OwnAnswer)'
  OBVIOUS
<1> USE DEF callVars, bhVars, wireVars, qemuVars
<1>a. CallerHasRequest /\ RpcSerial /\ PendingOwn /\ OwnAnswer
  BY DEF Inv
<1>b. /\ pending \in Slot /\ nextTxn \in Nat
      /\ pc \in [Vcpus -> {"idle", "send", "wait"}]
      /\ req \in [Vcpus -> MaybeMessage] /\ ret \in [Vcpus -> MaybeMessage]
      /\ NoOwner \notin Vcpus /\ MainLoop \notin Vcpus
  BY QemuAssumption DEF Inv, TypeOK
<1>1. ASSUME NEW v \in Vcpus, NEW op \in Ops, RpcBegin(v, op)
      PROVE  (CallerHasRequest /\ RpcSerial /\ PendingOwn /\ OwnAnswer)'
  <2>1. pending.st = "free" /\ \A w \in Vcpus : pc[w] = "idle"
    BY <1>1, <1>a, <1>b, Zenon DEF RpcBegin, RpcSerial
  <2>2. /\ req'[v] = Request(op, nextTxn) /\ ret'[v] = NoMsg
        /\ \A w \in Vcpus \ {v} : ret'[w] = ret[w] /\ req'[w] = req[w]
    BY <1>1, <1>b, Zenon DEF RpcBegin, Fail
  <2>3. req'[v] \in Message /\ req'[v].txn = nextTxn
    BY <2>2, <1>b, RequestType, SMTT(20)
  <2>4. OwnAnswer'
    BY <1>a, <2>2, OthersAnswers
  <2>5. CASE connected
    <3>1. /\ pending'.st = "active" /\ pending'.txn = nextTxn /\ bql' = v
          /\ pc'[v] = "send" /\ \A w \in Vcpus \ {v} : pc'[w] = "idle"
      BY <1>1, <1>b, <2>1, <2>5 DEF RpcBegin
    <3> QED
      BY <2>3, <2>4, <3>1, Zenon DEF CallerHasRequest, RpcSerial, PendingOwn
  <2>6. CASE ~connected
    <3>1. pending' = pending /\ pc' = pc
      BY <1>1, <2>6 DEF RpcBegin
    <3> QED
      BY <2>1, <2>4, <3>1, Released
  <2> QED
    BY <2>5, <2>6, Zenon
<1>2. ASSUME NEW v \in Vcpus, pc[v] # "idle", NEW rsp, Leave(v, rsp)
      PROVE  (CallerHasRequest /\ RpcSerial /\ PendingOwn)'
  <2>1. pending'.st = "free"
    BY <1>2, <1>b DEF Leave, Slot
  <2>2. \A w \in Vcpus : pc'[w] = "idle"
    BY <1>2, <1>a, <1>b DEF Leave, RpcSerial
  <2> QED
    BY <2>1, <2>2, Released
<1>3. ASSUME NEW v \in Vcpus, RpcSend(v)
      PROVE  (CallerHasRequest /\ RpcSerial /\ PendingOwn /\ OwnAnswer)'
  <2>1. CASE connected /\ peerOpen
    <3>1. UNCHANGED <<pending, bql, ret, req>> /\ pc[v] = "send"
      BY <1>3, <2>1 DEF RpcSend
    <3>2. \A w \in Vcpus : pc'[w] # "idle" <=> pc[w] # "idle"
      BY <1>3, <2>1, <1>b, Zenon DEF RpcSend
    <3> QED
      BY <1>a, <3>1, <3>2 DEF CallerHasRequest, RpcSerial, PendingOwn, OwnAnswer
  <2>2. CASE ~(connected /\ peerOpen)
    <3>1. (CallerHasRequest /\ RpcSerial /\ PendingOwn)'
      BY <1>2, <1>3, <2>2, Zenon DEF RpcSend
    <3>2. /\ ret'[v] = NoMsg
          /\ \A w \in Vcpus \ {v} : ret'[w] = ret[w] /\ req'[w] = req[w]
      BY <1>3, <2>2, <1>b, Zenon DEF RpcSend, Fail
    <3> QED
      BY <1>a, <3>1, <3>2, OthersAnswers
  <2> QED
    BY <2>1, <2>2, Zenon
<1>4. ASSUME NEW v \in Vcpus, pc[v] = "wait", Finish(v)
      PROVE  (CallerHasRequest /\ RpcSerial /\ PendingOwn /\ OwnAnswer)'
  <2>1. (CallerHasRequest /\ RpcSerial /\ PendingOwn)'
    BY <1>2, <1>4, Zenon DEF Finish
  <2>2. Accepted(v) => /\ pending.rsp.txn = req[v].txn
                       /\ pending.rsp.type = Expected(req[v].type)
                       /\ pending.rsp.status = "SUCCESS"
    BY <1>4, <1>a, Zenon DEF Accepted, PendingOwn, RpcSerial
  <2>3. /\ ret'[v] = IF Accepted(v) THEN pending.rsp ELSE NoMsg
        /\ \A w \in Vcpus \ {v} : ret'[w] = ret[w]
        /\ req' = req
    BY <1>4, <1>b DEF Finish, Fail
  <2> QED
    BY <1>a, <2>1, <2>2, <2>3, OthersAnswers
<1>5. CASE ReaderResponse
  <2>1. Head(toQemu) \in Message
    BY <1>5 DEF ReaderResponse, Inv, TypeOK
  <2>2. UNCHANGED <<pc, req, ret, bql>>
    BY <1>5, Zenon DEF ReaderResponse
  <2>3. CASE pending.st # "free" /\ Head(toQemu).txn = pending.txn
    <3>1. /\ pending'.st = "done" /\ pending'.txn = pending.txn
          /\ pending'.rsp = Head(toQemu)
      BY <1>5, <1>b, <2>3, Zenon DEF ReaderResponse, Slot
    <3> QED
      BY <1>a, <2>1, <2>2, <2>3, <3>1 DEF CallerHasRequest, RpcSerial, PendingOwn, OwnAnswer
  <2>4. CASE ~(pending.st # "free" /\ Head(toQemu).txn = pending.txn)
    <3>1. pending' = pending
      BY <1>5, <2>4 DEF ReaderResponse
    <3> QED
      BY <1>a, <2>2, <3>1 DEF CallerHasRequest, RpcSerial, PendingOwn, OwnAnswer
  <2> QED
    BY <2>3, <2>4
<1>6. CASE Exit
  <2>1. pending.st = "free" /\ \A w \in Vcpus : pc[w] = "idle"
    BY <1>6, <1>a, <1>b DEF Exit, RpcSerial
  <2>2. pending'.st = pending.st /\ UNCHANGED <<pc, req, ret>>
    BY <1>6, <1>b DEF Exit, Slot
  <2>3. OwnAnswer'
    BY <1>a, <2>2, Zenon DEF OwnAnswer
  <2> QED
    BY <2>1, <2>2, <2>3, Released
<1>7. ASSUME UNCHANGED <<pc, req, ret, pending>>,
             bql' = bql \/ (bql \notin Vcpus /\ bql' \notin Vcpus)
      PROVE  (CallerHasRequest /\ RpcSerial /\ PendingOwn /\ OwnAnswer)'
  BY <1>a, <1>7 DEF CallerHasRequest, RpcSerial, PendingOwn, OwnAnswer
<1>8. CASE Connect \/ ConnectFails \/ HandshakeReply \/ BlockerFails \/ HandshakeTimeout
  <2>1. UNCHANGED <<pc, req, ret, pending, bql>>
    BY <1>8, Zenon DEF Connect, ConnectFails, HandshakeReply, BlockerFails, HandshakeTimeout
  <2> QED
    BY <1>7, <2>1, Zenon
<1>9. CASE ReaderQueue \/ ReaderSchedule \/ ReaderDrop \/ ReaderStop
  <2>1. UNCHANGED <<pc, req, ret, pending, bql>>
    BY <1>9, Zenon DEF ReaderQueue, ReaderSchedule, ReaderDrop, ReaderStop
  <2> QED
    BY <1>7, <2>1
<1>10. CASE BottomHalf
  <2>1. UNCHANGED <<pc, req, ret, pending>>
    BY <1>10, Zenon DEF BottomHalf, BhStart, BhDmaRead, BhDmaWrite, BhMsix, BhEnd
  <2>2. bql' = bql \/ (bql \notin Vcpus /\ bql' \notin Vcpus)
    BY <1>10, <1>b DEF BottomHalf, BhStart, BhDmaRead, BhDmaWrite, BhMsix, BhEnd
  <2> QED
    BY <1>7, <2>1, <2>2, Zenon
<1>11. CASE Backend
  <2>1. UNCHANGED <<pc, req, ret, pending, bql>>
    BY <1>11 DEF Backend, BackendSend, BackendRecv, BackendClose
  <2> QED
    BY <1>7, <2>1
<1>12. ASSUME NEW vec \in Vectors, GuestIrq(vec)
       PROVE  (CallerHasRequest /\ RpcSerial /\ PendingOwn /\ OwnAnswer)'
  BY <1>7, <1>12 DEF GuestIrq
<1>13. CASE UNCHANGED vars
  BY <1>7, <1>13, Zenon DEF vars
<1> QED
  BY <1>1, <1>3, <1>4, <1>5, <1>6, <1>8, <1>9, <1>10, <1>11, <1>12, <1>13
     DEF Next, Device, Realize, Vcpu, RpcReturn, RpcTimeout, Reader

\* The work queue: only the reader adds to it, and then schedules; only the
\* bottom half ends a run, and then the queue is empty.
LEMMA WorkStep == Inv /\ [Next]_vars => (ReaderNotYet /\ NoStrandedWork)'
<1> SUFFICES ASSUME Inv, [Next]_vars PROVE (ReaderNotYet /\ NoStrandedWork)'
  OBVIOUS
<1> USE DEF ReaderNotYet, NoStrandedWork, callVars, bhVars, wireVars, qemuVars
<1>0. /\ ReaderNotYet /\ NoStrandedWork /\ RpcSerial
      /\ MainLoop \notin Vcpus /\ NoOwner # MainLoop
  BY QemuAssumption, Zenon DEF Inv
<1>1. CASE Connect \/ ConnectFails \/ HandshakeReply \/ BlockerFails \/ HandshakeTimeout
  BY <1>0, <1>1 DEF Connect, ConnectFails, HandshakeReply, BlockerFails, HandshakeTimeout
<1>2. CASE Exit
  BY <1>2, Zenon DEF Exit
<1>3. ASSUME NEW v \in Vcpus, Vcpu(v) PROVE (ReaderNotYet /\ NoStrandedWork)'
  <2>1. ASSUME NEW op \in Ops, RpcBegin(v, op)
        PROVE  UNCHANGED <<work, bh, rdr, life>> /\ bql # MainLoop
    BY <1>0, <2>1 DEF RpcBegin
  <2>2. CASE RpcSend(v)
    <3>1. UNCHANGED <<work, bh, rdr, life>>
      BY <2>2, Zenon DEF RpcSend
    <3>2. bql # MainLoop
      BY <1>0, <2>2 DEF RpcSend, RpcSerial
    <3> QED
      BY <1>0, <3>1, <3>2
  <2>3. CASE pc[v] = "wait" /\ Finish(v)
    <3>1. UNCHANGED <<work, bh, rdr, life>>
      BY <2>3 DEF Finish
    <3>2. bql # MainLoop
      BY <1>0, <2>3 DEF RpcSerial
    <3> QED
      BY <1>0, <3>1, <3>2
  <2> QED
    BY <1>0, <1>3, <2>1, <2>2, <2>3, Zenon DEF Vcpu, RpcReturn, RpcTimeout
<1>4. CASE Reader
  BY <1>0, <1>4 DEF Reader, ReaderResponse, ReaderQueue, ReaderSchedule, ReaderDrop, ReaderStop
<1>5. CASE BhStart \/ BhEnd
  BY <1>0, <1>5, Zenon DEF BhStart, BhEnd
<1>6. CASE BhDmaRead \/ BhDmaWrite \/ BhMsix
  BY <1>0, <1>6 DEF BhDmaRead, BhDmaWrite, BhMsix
<1>7. CASE Backend
  BY <1>0, <1>7 DEF Backend, BackendSend, BackendRecv, BackendClose
<1>8. ASSUME NEW vec \in Vectors, GuestIrq(vec) PROVE (ReaderNotYet /\ NoStrandedWork)'
  BY <1>0, <1>8 DEF GuestIrq
<1>9. CASE UNCHANGED vars
  BY <1>0, <1>9 DEF vars
<1> QED
  BY <1>1, <1>2, <1>3, <1>4, <1>5, <1>6, <1>7, <1>8, <1>9 DEF Next, Device, Realize, BottomHalf

\* The inductive invariant holds in every reachable state.
THEOREM Invariance == Spec => []Inv
<1>1. Init => Inv
  BY InitInv
<1>2. Inv /\ [Next]_vars => Inv'
  BY TypeStep, CallStep, WorkStep DEF Inv
<1> QED
  BY <1>1, <1>2, PTL DEF Spec

\* Every variable of the device keeps its type, whatever the backend sends.
THEOREM TypeCorrect == Spec => []TypeOK
BY Invariance, PTL DEF Inv

\* For any number of vCPUs, the single pending slot of pcie_vip_rpc is used
\* by one call at a time.
THEOREM CallsAreSerial == Spec => []RpcSerial
BY Invariance, PTL DEF Inv

\* For any backend, a BAR access that succeeds returns the response to its own
\* request.
THEOREM AnswersAreOwn == Spec => []OwnAnswer
BY Invariance, PTL DEF Inv

\* For any backend, work queued by the reader always has a run of the bottom
\* half to come.
THEOREM WorkIsNeverStranded == Spec => []NoStrandedWork
BY Invariance, PTL DEF Inv
=============================================================================
