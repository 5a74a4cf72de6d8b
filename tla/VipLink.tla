------------------------------ MODULE VipLink ------------------------------
(***************************************************************************)
(* The QEMU device connected to mini_ics_server --demo: QemuDevice and     *)
(* SoftwareEndpoint joined at the socket.  What the open device model      *)
(* leaves to "the backend" is here done by the server, and what the open   *)
(* server model leaves to "the client" by the device.                      *)
(***************************************************************************)
EXTENDS QemuDevice

CONSTANTS Persistent, Completion

ASSUME LinkAssumption == Persistent \in BOOLEAN

VARIABLES
  running, io, sock, hasClient, inbound, ptab, txnGen, call, in, out, cst, sst,
  regs, stage,
  ringing,  \* a doorbell has been sent and its MSI-X has not been raised
  sentCc,   \* history: the value CC has once everything sent is applied
  wantCc,   \* history: sentCc when each vCPU's request was sent
  hist,     \* history: completions written and MSI-X raised
  calm      \* whether in this behaviour no timed wait runs out, the server is
            \* not killed, and the guest leaves BAR0 alone from a doorbell to
            \* its MSI-X

S == INSTANCE SoftwareEndpoint WITH NSessions <- 1

linkVars == <<ringing, sentCc, wantCc, hist, calm>>
epVars == <<regs, stage>>
serverVars == <<running, io, sock, hasClient, inbound, ptab, txnGen, call,
                in, out, cst, sst, epVars>>
allVars == <<vars, serverVars, linkVars>>

LinkInit ==
  /\ Init /\ S!ServerInit /\ S!EpInit
  /\ ringing = FALSE /\ sentCc = 0 /\ wantCc = [v \in Vcpus |-> 0]
  /\ hist = [cpl |-> 0, msix |-> 0] /\ calm \in BOOLEAN

-----------------------------------------------------------------------------
(* The socket.                                                             *)

LinkConnect == Connect /\ S!ClientConnect(1) /\ UNCHANGED <<epVars, linkVars>>

LinkExit == (Exit \/ BlockerFails) /\ S!ClientClose(1) /\ UNCHANGED <<epVars, linkVars>>

SocketUp ==
  /\ BackendRecv
  /\ S!ClientSend(1, Head(toBackend))
  /\ UNCHANGED <<epVars, linkVars>>

SocketDown ==
  /\ S!ClientRecv(1)
  /\ BackendSend(Head(out[1]))
  /\ UNCHANGED <<epVars, linkVars>>

-----------------------------------------------------------------------------
(* The device, with the history variables its steps update.                *)

\* The value of CC after request m.
CcAfter(m) ==
  CASE m.type = "RESET_REQ" -> 0
    [] m.type = "MMIO_WRITE_REQ" /\ m.arg = S!CcReg /\ m.plen = 4 -> m.data
    [] OTHER -> sentCc

LinkBegin(v) ==
  /\ calm => ~ringing
  /\ \E op \in Ops : RpcBegin(v, op)
  /\ UNCHANGED <<serverVars, linkVars>>

LinkSend(v) ==
  /\ RpcSend(v)
  /\ wantCc' = [wantCc EXCEPT ![v] = sentCc]
  /\ IF pc'[v] = "wait"
     THEN sentCc' = CcAfter(req[v]) /\ ringing' = (ringing \/ S!IsDoorbell(req[v]))
     ELSE UNCHANGED <<sentCc, ringing>>
  /\ UNCHANGED <<serverVars, hist, calm>>

LinkReturn(v) ==
  /\ RpcReturn(v) \/ (~calm /\ RpcTimeout(v))
  /\ UNCHANGED <<serverVars, linkVars>>

LinkDmaWrite ==
  /\ BhDmaWrite
  /\ hist' = IF DmaWriteOk(Head(work)) THEN [hist EXCEPT !.cpl = @ + 1] ELSE hist
  /\ UNCHANGED <<serverVars, ringing, sentCc, wantCc, calm>>

LinkMsix ==
  /\ BhMsix
  /\ hist' = [hist EXCEPT !.msix = @ + 1]
  /\ ringing' = FALSE
  /\ UNCHANGED <<serverVars, sentCc, wantCc, calm>>

LinkRealize ==
  /\ ConnectFails \/ HandshakeReply \/ ((calm => ~peerOpen) /\ HandshakeTimeout)
  /\ UNCHANGED <<serverVars, linkVars>>

LinkReader == Reader /\ UNCHANGED <<serverVars, linkVars>>

LinkBh == (BhDmaRead \/ BhEnd) /\ UNCHANGED <<serverVars, linkVars>>

LinkBhStart == BhStart /\ UNCHANGED <<serverVars, linkVars>>

LinkIrq == (\E vec \in Vectors : GuestIrq(vec)) /\ UNCHANGED <<serverVars, linkVars>>

-----------------------------------------------------------------------------
(* The server process.  When it closes the session the device's socket     *)
(* hangs up.                                                               *)

Hangup == IF sst'[1] = "closed" /\ peerOpen THEN BackendClose ELSE UNCHANGED vars

ServerEndpoint == S!Endpoint /\ Hangup /\ UNCHANGED linkVars

ServerIo ==
  /\ calm /\ io = "hello" => in[1] # <<>> \/ cst[1] = "closed"
  /\ S!IoThread
  /\ Hangup
  /\ UNCHANGED <<epVars, linkVars>>

ServerCall ==
  /\ S!CallSend \/ S!WaitAnswered \/ (~calm /\ S!WaitTimeout)
  /\ UNCHANGED <<vars, epVars, linkVars>>

\* The process dies: both threads stop and the kernel closes the socket.
ServerCrash ==
  /\ ~calm /\ stage # "end"
  /\ running' = FALSE /\ io' = "exit" /\ stage' = "end" /\ sock' = 0
  /\ call' = [call EXCEPT !.st = "idle"]
  /\ sst' = [sst EXCEPT ![1] = "closed"]
  /\ Hangup
  /\ UNCHANGED <<hasClient, inbound, ptab, txnGen, in, out, cst, regs, linkVars>>

-----------------------------------------------------------------------------

LinkNext ==
  \/ LinkConnect \/ LinkExit \/ SocketUp \/ SocketDown
  \/ \E v \in Vcpus : LinkBegin(v) \/ LinkSend(v) \/ LinkReturn(v)
  \/ LinkDmaWrite \/ LinkMsix \/ LinkRealize \/ LinkReader \/ LinkBh \/ LinkBhStart \/ LinkIrq
  \/ ServerEndpoint \/ ServerIo \/ ServerCall \/ ServerCrash

LinkSpec == LinkInit /\ [][LinkNext]_allVars

\* The threads of both processes keep running, the socket delivers, and the
\* main loop gets the big lock if it asks for it again and again.
LinkFairness ==
  /\ WF_allVars(SocketUp) /\ WF_allVars(SocketDown)
  /\ WF_allVars(LinkRealize)
  /\ \A v \in Vcpus : WF_allVars(LinkSend(v) \/ LinkReturn(v))
  /\ WF_allVars(LinkReader) /\ SF_allVars(LinkBhStart)
  /\ WF_allVars(LinkDmaWrite \/ LinkMsix \/ LinkBh)
  /\ WF_allVars(ServerIo) /\ WF_allVars(ServerEndpoint \/ ServerCall)

LinkFairSpec == LinkSpec /\ LinkFairness

-----------------------------------------------------------------------------
(* Properties.                                                             *)

\* A read of CC that succeeds returns the value of the last CC write or reset
\* sent before it, including one whose own call timed out: requests travel,
\* queue and are applied in order, and a late answer never stands in for a
\* later read.
ReadSeesLatestWrite ==
  \A v \in Vcpus :
    ret[v] # NoMsg /\ ret[v].type = "MMIO_READ_RSP" /\ req[v].arg = S!CcReg
      => ret[v].data = wantCc[v]

\* The guest never receives an MSI-X before the completion it announces is in
\* guest memory: RunDmaSequence waits for the write's answer, and the reader
\* and bottom half keep the order of the wire.
MsixAfterCompletion == hist.msix <= hist.cpl

\* A BAR access issued while the endpoint runs its DMA sequence holds the big
\* lock that the DMA's bottom half needs, and the endpoint answers it only
\* after the sequence: each side waits for the other until a timeout.  The
\* timeouts break the cycle: the access returns (QemuDevice!RpcReturns, for
\* any backend) and the endpoint always gets back to polling or ends.  (In a
\* calm behaviour it may wait forever for a device that was unplugged.)
SequenceEnds == ~calm /\ stage \in {"doorbell", "read", "write"} ~> stage \in {"poll", "end"}

\* As long as no timed wait runs out and nothing crashes, a doorbell rung by
\* a guest that then waits for its interrupt always ends in that interrupt
\* (or the device is unplugged), if ACQ is an address the device can write to:
\* the answer to the doorbell precedes its DMA, so the vCPU has released the
\* big lock by the time the bottom half needs it.
DoorbellRaisesIrq ==
  calm /\ ringing /\ regs.acq \notin BadAddrs ~> irq # {} \/ life = "gone"
=============================================================================
