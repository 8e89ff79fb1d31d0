-------------------------- MODULE TcpConnectionRate --------------------------
(***************************************************************************)
(* TcpConnection with the history that the bandwidth of its rule is about: *)
(* the bytes charged by the writes to each socket and the milliseconds     *)
(* that its flushes have accounted for.  Each direction is a Throttle.     *)
(***************************************************************************)
EXTENDS TcpConnection

CONSTANT MaxElapsed    \* bound: milliseconds of history

\* A chunk has a largest size: the buffer that is read into.
ASSUME RateAssumption ==
  /\ MaxElapsed \in Nat
  /\ \E largest \in Sizes : \A size \in Sizes : size <= largest

VARIABLES spent, elapsed

rateVars == <<vars, spent, elapsed>>

\* The step starts a write to socket p.
Starts(p) ==
  /\ write_op[p] \in {"none", "ok"}
  /\ write_op'[p] \in {"pending", "err"}

RateInit == Init /\ spent = Both(0) /\ elapsed = 0

Charge == spent' = [p \in Pair |-> spent[p] + IF Starts(p) THEN Cost(Head(msg_queue'[p])) ELSE 0]

RateTick(d) ==
  /\ HandleWait(d)
  /\ elapsed' = elapsed + AtLeast(d - lag, 0)
  /\ elapsed' <= MaxElapsed
  /\ Charge

RateOther ==
  /\ Handlers \/ Kernel \/ ProxyClose \/ IpLimiter \/ HandlerAfterErase \/ Terminated
  /\ Charge
  /\ UNCHANGED elapsed

RateNext == RateOther \/ \E d \in Steps : RateTick(d)

RateSpec == RateInit /\ [][RateNext]_rateVars
-----------------------------------------------------------------------------
LargestCost == CHOOSE c \in {size + TCP_PACKET_EXTRA_OVERHEAD : size \in Sizes} :
                 \A size \in Sizes : size + TCP_PACKET_EXTRA_OVERHEAD <= c

ToClient == INSTANCE Throttle
  WITH bandwidth <- max_bandwidth, MaxCost <- LargestCost, Intervals <- 0..MaxElapsed,
       balance <- available_bytes[0], spent <- spent[0]
ToServer == INSTANCE Throttle
  WITH bandwidth <- max_bandwidth, MaxCost <- LargestCost, Intervals <- 0..MaxElapsed,
       balance <- available_bytes[1], spent <- spent[1]

\* flushMsgs and handleWrite: each direction of a connection is a Throttle,
\* whenever writes complete, whichever handler or tick starts the next
\* one, and however the clock is set back between the ticks.
TcpThrottled == ToClient!ThrottleSpec /\ ToServer!ThrottleSpec

\* MAX_BANDWIDTH of proxy.conf: over the life of a connection each direction
\* exceeds the configured rate by one packet at most.
RateBounded == ToClient!RateBound /\ ToServer!RateBound
=============================================================================
