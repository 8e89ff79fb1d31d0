----------------------------- MODULE MCIPProxies -----------------------------
(* Connections of one or two client addresses, on two io_services. u1 and  *)
(* u2 run on different threads.                                            *)
EXTENDS IPProxies, TLC

CONSTANTS u1, u2, u3, t1, t2

MCThreads == {t1, t2}
MCIoService == [u \in Users |-> IF u = u1 THEN t1 ELSE t2]
MCBandwidth == [i \in Pair |-> IF i = 1 THEN 2500 ELSE 0]
=============================================================================
