---------------------------- MODULE DpiEndpoint ----------------------------
(***************************************************************************)
(* The simulated endpoint on the same server: the SystemVerilog process of *)
(* mini_ics_endpoint_model polls through the DPI-C shim                    *)
(* (mini-ics/dpi/mini_ics_dpi.cpp), hands register accesses to the clocked *)
(* nvme_register_model, and makes the shim's blocking calls for answers,   *)
(* DMA and MSI-X.  "regs" and "stage" are the software endpoint's, with    *)
(* the further stage "access" while a register access is under way.        *)
(*                                                                         *)
(* The shim's calls take no simulated time, so the register model is       *)
(* clocked only while the process waits for an edge.  Whichever of the two *)
(* runs first at an edge, as long as it is the same one at every edge, the *)
(* register model sees each request exactly once.                          *)
(***************************************************************************)
EXTENDS SoftwareEndpoint

VARIABLES
  rm,       \* the register port: [req, rsp, pulse]
  simPass   \* sim_pass

dpiVars == <<rm, simPass>>

PortIdle == [req |-> NoMsg, rsp |-> NoMsg, pulse |-> FALSE]

DpiInit == rm = PortIdle /\ simPass = FALSE

\* The shim: mini_ics_poll, mini_ics_send_response, whether
\* mini_ics_send_request returned 0 for a DMA request, and mini_ics_shutdown.
ShimPoll == Poll
ShimRespond(m) == ResponseBegin(m)
ShimOk == Succeeded
ShimShutdown == EpStop \/ EpJoin

\* What nvme_register_model decodes.  Lengths play no part, and ASQ and ACQ
\* can be read back.
SvWritable == {CcReg, AqaReg, AsqReg, AcqReg, Sq0Doorbell}
SvReadable == {CapReg, CcReg, CstsReg, AqaReg, AsqReg, AcqReg}

SvValue(addr) ==
  CASE addr = AsqReg -> regs.asq
    [] addr = AcqReg -> regs.acq
    [] OTHER         -> RegValue(addr)

SvRegs(m) == WriteRegs([m EXCEPT !.plen = IF m.arg \in {AsqReg, AcqReg} THEN 8 ELSE 4])

\* The clock edge at which nvme_register_model sees req_valid.
RegClock ==
  /\ stage = "access" /\ rm.rsp = NoMsg
  /\ LET m == rm.req IN
       \/ /\ m.type = "MMIO_WRITE_REQ" /\ m.arg \in SvWritable
          /\ regs' = SvRegs(m)
          /\ rm' = [rm EXCEPT !.rsp = Reply(m, "MMIO_WRITE_RSP", NoData, 0, "SUCCESS"),
                              !.pulse = (m.arg = Sq0Doorbell)]
       \/ /\ m.type = "MMIO_READ_REQ" /\ m.arg \in SvReadable
          /\ rm' = [rm EXCEPT !.rsp = Reply(m, "MMIO_READ_RSP", Truncate(SvValue(m.arg), m.len),
                                            m.len, "SUCCESS")]
          /\ UNCHANGED regs
       \/ /\ m.arg \notin (IF m.type = "MMIO_WRITE_REQ" THEN SvWritable ELSE SvReadable)
          /\ rm' = [rm EXCEPT !.rsp = Reply(m, Expected(m.type), NoData, 0, "INVALID_ADDRESS")]
          /\ UNCHANGED regs
  /\ UNCHANGED <<serverVars, stage, simPass>>

\* Mutant: the port still shows rsp_valid and reg_rsp_rdata of the access before.
Port_Stale(m) ==
  [rm EXCEPT !.req = m,
             !.rsp = IF @ = NoMsg THEN @ ELSE Reply(m, Expected(m.type), @.data, m.len, @.status)]

\* reg_req_valid and its fields are set.  The poll before was at an edge
\* without a request, so the response and the pulse of the last access are gone.
Port(m) == [PortIdle EXCEPT !.req = m]

\* poll_and_dispatch.  RESET is answered and changes no register.
DpiPoll ==
  /\ stage = "poll" /\ ShimPoll
  /\ LET m == Head(inbound) IN
       \/ /\ m.type = "RESET_REQ"
          /\ ShimRespond(Reply(m, "RESET_RSP", NoData, 0, "SUCCESS"))
          /\ stage' = "answer"
          /\ UNCHANGED rm
       \/ /\ m.type \in {"MMIO_WRITE_REQ", "MMIO_READ_REQ"}
          /\ rm' = Port(m)
          /\ stage' = "access"
          /\ UNCHANGED <<call, ptab, txnGen>>
       \/ /\ m.type \notin {"RESET_REQ", "MMIO_WRITE_REQ", "MMIO_READ_REQ"}
          /\ stage' = IF m.type = "SHUTDOWN" THEN "stop" ELSE "poll"
          /\ UNCHANGED <<rm, call, ptab, txnGen>>
  /\ UNCHANGED <<ioVars, sessionVars, regs, simPass>>

\* handle_mmio_write and handle_mmio_read once rsp_valid is seen: answer,
\* and go on to the DMA sequence if the doorbell was pulsed.
DpiTake ==
  /\ stage = "access" /\ rm.rsp # NoMsg
  /\ ShimRespond(rm.rsp)
  /\ stage' = IF rm.pulse /\ rm.rsp.status = "SUCCESS" THEN "doorbell" ELSE "answer"
  /\ UNCHANGED <<ioVars, inbound, sessionVars, regs, dpiVars>>

\* Mutant: sim_pass is set before the completion write is answered.
DpiDmaNext_Early ==
  /\ EpDmaNext
  /\ simPass' = (simPass \/ (stage = "read" /\ ShimOk))
  /\ UNCHANGED rm

\* run_dma_sequence.  The steps are RunDmaSequence's; sim_pass is set when
\* MSI-X has been handed to the shim, which reports success in any case.
DpiDmaNext ==
  /\ EpDmaNext
  /\ simPass' = (simPass \/ (stage = "write" /\ ShimOk))
  /\ UNCHANGED rm

Dpi ==
  \/ DpiPoll \/ RegClock \/ DpiTake \/ DpiDmaNext
  \/ (EpAnswered \/ ShimShutdown) /\ UNCHANGED dpiVars
=============================================================================
