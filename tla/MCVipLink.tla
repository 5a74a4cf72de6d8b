----------------------------- MODULE MCVipLink -----------------------------
(***************************************************************************)
(* An instance of VipLink for TLC: CC writes and reads, reset and the      *)
(* doorbell, whose DMA goes to host address 0; the value 3 is the          *)
(* completion.                                                             *)
(***************************************************************************)
EXTENDS VipLink

\* The offsets S!CcReg and S!Sq0Doorbell.
Cc == 20
Doorbell == 4096

MCArgs == {0, Cc, Doorbell}
MCValues == 0..3

Write(reg, value, size) == [type |-> "MMIO_WRITE_REQ", arg |-> reg, data |-> value, size |-> size]
Read(reg) == [type |-> "MMIO_READ_REQ", arg |-> reg, data |-> 0, size |-> 4]
ResetOp == [type |-> "RESET_REQ", arg |-> 0, data |-> 0, size |-> 0]

MCOps == {Write(Cc, 1, 4), Read(Cc), Write(Doorbell, 1, 4), ResetOp}
=============================================================================
