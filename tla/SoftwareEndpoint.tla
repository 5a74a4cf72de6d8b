-------------------------- MODULE SoftwareEndpoint --------------------------
(***************************************************************************)
(* SoftwareEndpointModel (mini-ics/src/server.cpp), the endpoint thread of *)
(* mini_ics_server --demo: it polls requests, applies them to the          *)
(* registers, answers them, and after a doorbell drives DMA read, DMA      *)
(* write and MSI-X through the server's calls.                             *)
(***************************************************************************)
EXTENDS MiniIcsServer

CONSTANTS
  Persistent,  \* --persistent: never give up polling
  Completion   \* the 16-byte mock completion, as a value

\* BAR0 offsets and sizes.
CapReg == 0
CcReg == 20
CstsReg == 28
AqaReg == 36
AsqReg == 40
AcqReg == 48
Sq0Doorbell == 4096
MmioSpaceSize == 65536
Capabilities == 1

VARIABLES
  regs,   \* cc_, csts_, asq_, acq_ and aqa_
  stage   \* where Run, HandleMmioWrite and RunDmaSequence are

epVars == <<regs, stage>>

ZeroRegs == [cc |-> 0, csts |-> 0, asq |-> 0, acq |-> 0, aqa |-> 0]

EpInit == regs = ZeroRegs /\ stage = "poll"

AddrValid(addr, len) == addr + len <= MmioSpaceSize

\* HandleMmioWrite, as a function of the payload's address and length.
IsDoorbell(m) == m.type = "MMIO_WRITE_REQ" /\ m.arg = Sq0Doorbell /\ m.plen = 4

WriteRegs(m) ==
  CASE m.arg = CcReg /\ m.plen = 4  -> [regs EXCEPT !.cc = m.data, !.csts = m.data % 2]
    [] m.arg = AsqReg /\ m.plen = 8 -> [regs EXCEPT !.asq = m.data]
    [] m.arg = AcqReg /\ m.plen = 8 -> [regs EXCEPT !.acq = m.data]
    [] m.arg = AqaReg /\ m.plen = 4 -> [regs EXCEPT !.aqa = m.data]
    [] OTHER                        -> regs

WriteStatus(m) ==
  CASE ~AddrValid(m.arg, m.plen) -> "INVALID_ADDRESS"
    [] \/ m.arg \in {CcReg, AqaReg, Sq0Doorbell} /\ m.plen = 4
       \/ m.arg \in {AsqReg, AcqReg} /\ m.plen = 8 -> "SUCCESS"
    [] OTHER -> IF m.plen \in {4, 8} THEN "INVALID_ADDRESS" ELSE "BAD_LENGTH"

\* HandleMmioRead: four registers are readable, at any of the four sizes.
Readable == {CstsReg, CcReg, AqaReg, CapReg}

RegValue(addr) ==
  CASE addr = CstsReg -> regs.csts
    [] addr = CcReg   -> regs.cc
    [] addr = AqaReg  -> regs.aqa
    [] OTHER          -> Capabilities

\* The low len bytes of a register: below four, a remainder modulo 256^len.
ByteSpan == <<1, 256, 65536, 16777216>>
Truncate(value, len) == IF len >= 4 THEN value ELSE value % ByteSpan[len + 1]

\* A bad length is reported only for a readable address: the address test
\* that follows overwrites the status otherwise.  The len of a request is the
\* length the handler works with: transfer_len, or the bytes enabled when it is 0.
ReadStatus(m) ==
  CASE m.arg \notin Readable    -> "INVALID_ADDRESS"
    [] m.len \notin {1, 2, 4, 8} -> "BAD_LENGTH"
    [] OTHER                     -> "SUCCESS"

ReadReply(m) ==
  IF ReadStatus(m) = "SUCCESS"
  THEN Reply(m, "MMIO_READ_RSP", Truncate(RegValue(m.arg), m.len), m.len, "SUCCESS")
  ELSE Reply(m, "MMIO_READ_RSP", NoData, 0, ReadStatus(m))

-----------------------------------------------------------------------------

DmaRequest(type, addr, data, len, plen) ==
  [type |-> type, txn |-> 0, arg |-> addr, data |-> data,
   len |-> len, plen |-> plen, status |-> "SUCCESS"]

\* Mutant: the DMA sequence starts before the doorbell is answered.
EpHandle_DmaFirst ==
  /\ stage = "poll" /\ Poll
  /\ LET m == Head(inbound) IN
       IF IsDoorbell(m)
       THEN /\ RequestBegin(DmaRequest("DMA_READ_REQ", regs.asq, NoData, 64, 0))
            /\ stage' = "read"
            /\ UNCHANGED regs
       ELSE /\ regs' = CASE m.type = "RESET_REQ"      -> ZeroRegs
                         [] m.type = "MMIO_WRITE_REQ" -> WriteRegs(m)
                         [] OTHER                     -> regs
            /\ ResponseBegin(IF m.type = "MMIO_READ_REQ" THEN ReadReply(m)
                             ELSE Reply(m, Expected(m.type), NoData, 0, "SUCCESS"))
            /\ stage' = "answer"
  /\ UNCHANGED <<ioVars, sessionVars>>

\* One round of Run with a request: apply it, then begin to answer it.
EpHandle ==
  /\ stage = "poll" /\ Poll
  /\ LET m == Head(inbound) IN
       \/ /\ m.type = "RESET_REQ"
          /\ regs' = ZeroRegs
          /\ ResponseBegin(Reply(m, "RESET_RSP", NoData, 0, "SUCCESS"))
          /\ stage' = "answer"
       \/ /\ m.type = "MMIO_WRITE_REQ"
          /\ regs' = WriteRegs(m)
          /\ ResponseBegin(Reply(m, "MMIO_WRITE_RSP", NoData, 0, WriteStatus(m)))
          /\ stage' = IF IsDoorbell(m) THEN "doorbell" ELSE "answer"
       \/ /\ m.type = "MMIO_READ_REQ"
          /\ ResponseBegin(ReadReply(m))
          /\ stage' = "answer"
          /\ UNCHANGED regs
       \/ /\ m.type = "SHUTDOWN"
          /\ stage' = "stop"
          /\ UNCHANGED <<regs, call, ptab, txnGen>>
       \/ /\ m.type \notin {"RESET_REQ", "MMIO_WRITE_REQ", "MMIO_READ_REQ", "SHUTDOWN"}
          /\ UNCHANGED <<epVars, call, ptab, txnGen>>
  /\ UNCHANGED <<ioVars, sessionVars>>

Succeeded == call.res # NoMsg /\ call.res.status = "SUCCESS"

\* The answer is out: a doorbell goes on to the DMA read of RunDmaSequence.
EpAnswered ==
  /\ call.st = "idle"
  /\ \/ /\ stage = "answer"
        /\ stage' = "poll"
        /\ UNCHANGED <<call, ptab, txnGen>>
     \/ /\ stage = "doorbell"
        /\ stage' = "read"
        /\ RequestBegin(DmaRequest("DMA_READ_REQ", regs.asq, NoData, 64, 0))
  /\ UNCHANGED <<ioVars, inbound, sessionVars, regs>>

\* Mutant: MSI-X goes out whatever became of the completion write.
EpDmaNext_Unchecked ==
  /\ call.st = "idle"
  /\ \/ /\ stage = "read" /\ Succeeded
        /\ stage' = "write"
        /\ RequestBegin(DmaRequest("DMA_WRITE_REQ", regs.acq, Completion, 16, 16))
     \/ /\ stage = "write"
        /\ stage' = "answer"
        /\ RequestBegin(DmaRequest("MSIX", 0, NoData, 0, 0))
     \/ /\ stage = "read" /\ ~Succeeded
        /\ stage' = "poll"
        /\ UNCHANGED <<call, ptab, txnGen>>
  /\ UNCHANGED <<ioVars, inbound, sessionVars, regs>>

\* Mutant: MSI-X goes out before the completion write.
EpDmaNext_MsixFirst ==
  /\ call.st = "idle"
  /\ \/ /\ stage = "read" /\ Succeeded
        /\ stage' = "write"
        /\ RequestBegin(DmaRequest("MSIX", 0, NoData, 0, 0))
     \/ /\ stage = "write"
        /\ stage' = "answer"
        /\ RequestBegin(DmaRequest("DMA_WRITE_REQ", regs.acq, Completion, 16, 16))
     \/ /\ stage = "read" /\ ~Succeeded
        /\ stage' = "poll"
        /\ UNCHANGED <<call, ptab, txnGen>>
  /\ UNCHANGED <<ioVars, inbound, sessionVars, regs>>

\* RunDmaSequence: each step needs the success of the one before.
EpDmaNext ==
  /\ call.st = "idle"
  /\ \/ /\ stage = "read" /\ Succeeded
        /\ stage' = "write"
        /\ RequestBegin(DmaRequest("DMA_WRITE_REQ", regs.acq, Completion, 16, 16))
     \/ /\ stage = "write" /\ Succeeded
        /\ stage' = "answer"
        /\ RequestBegin(DmaRequest("MSIX", 0, NoData, 0, 0))
     \/ /\ stage \in {"read", "write"} /\ ~Succeeded
        /\ stage' = "poll"
        /\ UNCHANGED <<call, ptab, txnGen>>
  /\ UNCHANGED <<ioVars, inbound, sessionVars, regs>>

\* 200 empty polls in a row end a run that is not persistent.
EpGivesUp ==
  /\ ~Persistent /\ stage = "poll" /\ inbound = <<>>
  /\ stage' = "stop"
  /\ UNCHANGED <<serverVars, regs>>

EpStop ==
  /\ stage = "stop" /\ StopBegin
  /\ stage' = "join"
  /\ UNCHANGED regs

EpJoin ==
  /\ stage = "join" /\ StopJoined
  /\ stage' = "end"
  /\ UNCHANGED regs

Endpoint == EpHandle \/ EpAnswered \/ EpDmaNext \/ EpGivesUp \/ EpStop \/ EpJoin
=============================================================================
