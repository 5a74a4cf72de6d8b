---------------------------- MODULE MCQemuDevice ----------------------------
(***************************************************************************)
(* Instances of QemuDevice for TLC.  Register 0 is also MSI-X vector 0 and *)
(* a good host address; 1 is not a vector and a host address whose DMA     *)
(* fails.  The backend may answer any transaction ID at any time.          *)
(***************************************************************************)
EXTENDS QemuDevice

MCOps == {[type |-> "MMIO_READ_REQ", arg |-> 0, data |-> "d0", size |-> 1],
          [type |-> "RESET_REQ", arg |-> 0, data |-> "d0", size |-> 0]}

Response(type, txn, plen, status) == Msg(type, txn, 0, "d0", 1, plen, status)

MCBackendMsgs ==
  {Response("HELLO_ACK", 1, 0, "SUCCESS"), Response("HELLO_ACK", 2, 0, "SUCCESS")}
  \cup {Response("MMIO_READ_RSP", t, 1, "SUCCESS") : t \in 2..MaxTxn}
  \cup {Response("MMIO_READ_RSP", MaxTxn, 0, "INVALID_ADDRESS"),
        Response("RESET_RSP", MaxTxn, 0, "SUCCESS"),
        Msg("DMA_READ_REQ", 0, 1, "d0", 1, 0, "SUCCESS"),
        Msg("DMA_WRITE_REQ", 1, 0, "d1", 1, 1, "SUCCESS"),
        Msg("DMA_WRITE_REQ", 1, 0, "d1", 2, 2, "SUCCESS"),
        Msg("MSIX", 2, 0, "d0", 0, 0, "SUCCESS"),
        Msg("MSIX", 2, 1, "d0", 0, 0, "SUCCESS"),
        Msg("SHUTDOWN", 3, 0, "d0", 0, 0, "SUCCESS"),
        Msg(BadHeader, 0, 0, "d0", 0, 0, "SUCCESS")}
=============================================================================
