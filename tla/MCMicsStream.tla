---------------------------- MODULE MCMicsStream ----------------------------
(* MicsStream with two connections and a kernel buffer that holds less than *)
(* any message.                                                             *)
EXTENDS MicsStream

MCConns == 1..2
MCPayload == [ep |-> <<2, 0>>, io |-> <<0, 0>>, vcpu |-> <<1, 0>>, bh |-> <<2>>]
=============================================================================
