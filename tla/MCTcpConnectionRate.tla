------------------------- MODULE MCTcpConnectionRate -------------------------
(* The instance of TcpConnectionRate for TLC.                              *)
EXTENDS TcpConnectionRate

MCNoIpLimit == [i \in Pair |-> 0]

MCSteps == {-10, 10, 20}
=============================================================================
