------------------------------- MODULE Throttle -------------------------------
(***************************************************************************)
(* The rate limiter that the proxy builds three times: per TCP connection  *)
(* and direction, per UDP endpoint, and per client IP address.  A balance  *)
(* of bytes may be overdrawn by one packet; a packet is sent only when it  *)
(* is not negative, and a routine credits a negative balance with          *)
(* interval * bandwidth / 1000 bytes for the milliseconds gone by.         *)
(***************************************************************************)
EXTENDS Integers

CONSTANTS bandwidth,   \* bytes per second
          MaxCost,     \* the largest packet, overhead included
          Intervals    \* milliseconds one step may account for, 0 included

VARIABLES balance,     \* the available bytes
          spent,       \* bytes sent since the limiter was created
          elapsed      \* milliseconds accounted for since then

throttleVars == <<balance, spent, elapsed>>

ThrottleInit == balance = 0 /\ spent = 0 /\ elapsed = 0

\* The balance after a routine that found d milliseconds gone by.
Credited(b, d) == IF b < 0 THEN b + (d * bandwidth) \div 1000 ELSE b

\* A step accounts for d milliseconds, may credit the balance, and may then
\* send one packet of cost c (c = 0: it sends none).
Step(d, c) ==
  \E b \in {balance, Credited(balance, d)} :
    /\ c > 0 => b >= 0
    /\ balance' = b - c
    /\ spent' = spent + c
    /\ elapsed' = elapsed + d

ThrottleNext == \E d \in Intervals, c \in 0..MaxCost : Step(d, c)

ThrottleSpec == ThrottleInit /\ [][ThrottleNext]_throttleVars

\* What the limiter is for: over any history the bytes sent exceed
\* the configured rate by one packet at most.
RateBound == 1000 * spent <= bandwidth * elapsed + 1000 * MaxCost
=============================================================================
