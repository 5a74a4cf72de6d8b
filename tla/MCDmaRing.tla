----------------------------- MODULE MCDmaRing -----------------------------
(***************************************************************************)
(* Instances of DmaRing for TLC.                                           *)
(***************************************************************************)
EXTENDS DmaRing, TLC
=============================================================================
