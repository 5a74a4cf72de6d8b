-------------------------- MODULE HarnessEndpoint --------------------------
(***************************************************************************)
(* The main loop of the Verilator harness (rtl/alex/verilator_qemu_main)   *)
(* on the same server, as far as its clients use the registers and the     *)
(* doorbell at 0x1000.  What an access does in the RTL is AxilPath's       *)
(* subject: here Mmio succeeds or fails.  The descriptor ring is           *)
(* DmaRing's: without a write to DMA_CONTROL it is never entered.          *)
(*                                                                         *)
(* "regs" holds main's shadows asq and acq.                                *)
(***************************************************************************)
EXTENDS SoftwareEndpoint

VARIABLE seen   \* doorbell_seen_

HarnessInit == seen = FALSE

\* Shadows are taken from the address alone, whatever became of the access.
Shadow(m) ==
  CASE m.arg = AsqReg -> [regs EXCEPT !.asq = m.data]
    [] m.arg = AcqReg -> [regs EXCEPT !.acq = m.data]
    [] OTHER          -> regs

\* One round of main's loop up to the answer.  A failed access may still have
\* pulsed the doorbell, and doorbell_seen_ stays set until it is used.  RESET
\* clears neither the shadows nor doorbell_seen_.
MainHandle ==
  /\ stage = "poll" /\ Poll
  /\ LET m == Head(inbound) IN
       \/ /\ m.type = "RESET_REQ"
          /\ ResponseBegin(Reply(m, "RESET_RSP", NoData, 0, "SUCCESS"))
          /\ stage' = "answer"
          /\ UNCHANGED <<regs, seen>>
       \/ /\ m.type = "MMIO_WRITE_REQ"
          /\ \E ok \in BOOLEAN :
               /\ ResponseBegin(Reply(m, "MMIO_WRITE_RSP", NoData, 0, IF ok THEN "SUCCESS" ELSE "GENERIC"))
               /\ seen' \in IF m.arg # Sq0Doorbell THEN {seen} ELSE IF ok THEN {TRUE} ELSE {seen, TRUE}
          /\ regs' = Shadow(m)
          /\ stage' = IF m.arg = Sq0Doorbell /\ seen' THEN "doorbell" ELSE "answer"
       \/ /\ m.type = "MMIO_READ_REQ"
          /\ \E ok \in BOOLEAN :
               ResponseBegin(Reply(m, "MMIO_READ_RSP", NoData, IF ok THEN m.len ELSE 0,
                                   IF ok THEN "SUCCESS" ELSE "GENERIC"))
          /\ stage' = "answer"
          /\ UNCHANGED <<regs, seen>>
       \/ /\ m.type \notin {"RESET_REQ", "MMIO_WRITE_REQ", "MMIO_READ_REQ"}
          /\ stage' = IF m.type = "SHUTDOWN" THEN "stop" ELSE "poll"
          /\ UNCHANGED <<regs, seen, call, ptab, txnGen>>
  /\ UNCHANGED <<ioVars, sessionVars>>

\* After the answer: clear_doorbell and the DMA read.
MainAnswered ==
  /\ EpAnswered
  /\ seen' = IF stage = "doorbell" THEN FALSE ELSE seen

\* The rest of the doorbell sequence asks only whether the read was answered
\* at all; the completion write's result is dropped.
MainDmaNext ==
  /\ call.st = "idle"
  /\ \/ /\ stage = "read" /\ call.res # NoMsg
        /\ stage' = "write"
        /\ RequestBegin(DmaRequest("DMA_WRITE_REQ", regs.acq, Completion, 16, 16))
     \/ /\ stage = "read" /\ call.res = NoMsg
        /\ stage' = "poll"
        /\ UNCHANGED <<call, ptab, txnGen>>
     \/ /\ stage = "write"
        /\ stage' = "answer"
        /\ RequestBegin(DmaRequest("MSIX", 0, NoData, 0, 0))
  /\ UNCHANGED <<ioVars, inbound, sessionVars, regs, seen>>

MainLoop ==
  \/ MainHandle \/ MainAnswered \/ MainDmaNext
  \/ (EpStop \/ EpJoin) /\ UNCHANGED seen
=============================================================================
