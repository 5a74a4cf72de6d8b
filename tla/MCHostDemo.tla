----------------------------- MODULE MCHostDemo -----------------------------
(* HostDemo for TLC: the addresses and values of the script. *)
EXTENDS HostDemo

DemoArgs == {0, CcReg, CstsReg, AqaReg, AsqReg, AcqReg, Sq0Doorbell, AsqBase, AcqBase}
DemoValues == {0, 1, 12, 2031647, AsqBase, AcqBase, Pattern, Command}
=============================================================================
