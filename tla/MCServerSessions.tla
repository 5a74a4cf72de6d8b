-------------------------- MODULE MCServerSessions --------------------------
(***************************************************************************)
(* Instances of ServerSessions for TLC: the registers a client can reach,  *)
(* host addresses 0 and 1, and the value 2 as the completion.              *)
(***************************************************************************)
EXTENDS ServerSessions

MCValues == 0..2
MCArgs == MCValues \cup {CcReg, Sq0Doorbell}

Doorbell == [type |-> "MMIO_WRITE_REQ", arg |-> Sq0Doorbell, data |-> 1, len |-> 4, plen |-> 4]
ReadCc == [type |-> "MMIO_READ_REQ", arg |-> CcReg, data |-> 0, len |-> 4, plen |-> 0]
Shutdown == [type |-> "SHUTDOWN", arg |-> 0, data |-> 0, len |-> 0, plen |-> 0]
Garbage == [type |-> BadHeader, arg |-> 0, data |-> 0, len |-> 0, plen |-> 0]
HelloAgain == [type |-> "HELLO", arg |-> 0, data |-> 0, len |-> 0, plen |-> 0]

ReadNothing == [ReadCc EXCEPT !.arg = 1]
Reset == [type |-> "RESET_REQ", arg |-> 0, data |-> 0, len |-> 0, plen |-> 0]
WriteCc == [type |-> "MMIO_WRITE_REQ", arg |-> CcReg, data |-> 1, len |-> 4, plen |-> 4]

AllKinds == {"software", "dpi", "harness"}
DemoOnly == {"software"}

SoftwareAsk == {Doorbell, ReadCc, HelloAgain, Shutdown, Garbage}
DpiAsk == {Doorbell, ReadCc, WriteCc, ReadNothing, Reset, Shutdown}
HarnessAsk == {Doorbell, ReadCc, Reset, Shutdown}

MCRequests ==
  [software |-> <<SoftwareAsk, SoftwareAsk, {ReadCc}>>,
   dpi |-> <<DpiAsk, DpiAsk>>,
   harness |-> <<HarnessAsk, HarnessAsk>>]

ReadRequests == [software |-> <<{ReadCc}, {ReadCc}, {ReadCc}, {ReadCc}>>]
=============================================================================
