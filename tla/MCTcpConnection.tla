--------------------------- MODULE MCTcpConnection ---------------------------
(* Instances of TcpConnection for TLC.                                     *)
EXTENDS TcpConnection

MCNoIpLimit == [i \in Pair |-> 0]

\* Only the writes to socket 0 are limited by IP, as with "ip 0 2500".
MCIpLimit == [i \in Pair |-> IF i = 1 THEN 2500 ELSE 0]

\* The clock moves on, or is set back between two ticks.
MCSteps == {-10, 10}
MCForward == {10}
=============================================================================
