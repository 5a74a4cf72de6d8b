----------------------------- MODULE MCAxilPath -----------------------------
(* Accesses for AxilPath: every register kind, split and partial accesses. *)
EXTENDS AxilPath

One == <<1, 0, 1, 0>>
Two == <<0, 1, 1, 1>>

W(addr, len, lo, hi) == [wr |-> TRUE, addr |-> addr, len |-> len, data |-> <<lo, hi>>]
R(addr, len) == [wr |-> FALSE, addr |-> addr, len |-> len, data |-> <<Zero, Zero>>]

\* CC and CSTS, the two halves of ASQ, an alias of CC, the doorbell, a
\* register that is not there, and a length that is not one.
RegisterOps ==
  {W(\h14, 4, One, Zero), W(\h14, 1, Zero, Zero), R(\h14, 2), R(\h1c, 4),
   W(\h28, 8, One, Two), W(\h2c, 4, One, Zero), R(\h28, 8), R(\h2014, 4),
   W(\h1000, 4, One, Zero), W(\h18, 4, One, Zero), R(\h18, 8), R(\h14, 3)}
=============================================================================
