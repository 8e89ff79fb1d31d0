------------------------------ MODULE MCUdpRelay ------------------------------
(* One rule, to d, and one or two clients.                                 *)
EXTENDS UdpRelay

CONSTANTS d, c1, c2

OneClient  == {<<c1, d>>, <<d, c1>>}
TwoClients == OneClient \cup {<<c2, d>>}
Stray      == OneClient \cup {<<d, d>>}

\* How many datagrams a client and the destination send to each other.
TwoOne   == [f \in Flows |-> IF f = <<c1, d>> THEN 2 ELSE 1]
TwoTwo   == [f \in Flows |-> 2]
OneTwo   == [f \in Flows |-> IF f[1] = d THEN 2 ELSE 1]
=============================================================================
