--------------------------- MODULE MCGuestDriver ---------------------------
(* GuestDriver with two processes, the ends of both option ranges, and a   *)
(* BAR of four pages of eight bytes.                                       *)
EXTENDS GuestDriver

CONSTANTS p1, p2

MCChoices == {<<64, 1>>, <<0, 1>>, <<4096, 1024>>, <<4097, 1>>, <<1, 1025>>}
MCOffsets == 0..33
=============================================================================
