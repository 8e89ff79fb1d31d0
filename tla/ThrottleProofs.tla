--------------------------- MODULE ThrottleProofs ---------------------------
(***************************************************************************)
(* The rate bound of Throttle, for every bandwidth, packet size and        *)
(* sequence of intervals.                                                  *)
(***************************************************************************)
EXTENDS Throttle, TLAPS

\* What a bandwidth, a packet size and the intervals of a monotonic clock are.
Sound == bandwidth \in Nat /\ MaxCost \in Nat /\ Intervals \subseteq Nat

\* The inductive invariant: what was sent plus what may be sent is covered by
\* the elapsed time, and the balance is overdrawn by one packet at most.
Covered ==
  /\ balance \in Int /\ spent \in Nat /\ elapsed \in Nat
  /\ 1000 * (spent + balance) <= bandwidth * elapsed
  /\ balance >= -MaxCost

\* A credit never exceeds what the interval is worth: the division rounds down.
LEMMA CreditRoundsDown ==
  ASSUME Sound, NEW b \in Int, NEW d \in Intervals
  PROVE  /\ Credited(b, d) \in Int
         /\ Credited(b, d) >= b
         /\ 1000 * Credited(b, d) <= 1000 * b + bandwidth * d
<1>1. d \in Nat /\ bandwidth \in Nat /\ d * bandwidth \in Nat /\ d * bandwidth = bandwidth * d
  BY DEF Sound
<1> DEFINE x == d * bandwidth
<1>2. x \in Nat
  BY <1>1
<1> HIDE DEF x
<1>3. x \div 1000 \in Nat /\ 1000 * (x \div 1000) <= x
  BY <1>2
<1>4. CASE b < 0
  BY <1>1, <1>3, <1>4 DEF Credited, x
<1>5. CASE ~(b < 0)
  BY <1>1, <1>5 DEF Credited
<1> QED BY <1>4, <1>5

\* A new limiter has sent nothing and owes nothing.
LEMMA CoveredInit == ASSUME Sound PROVE ThrottleInit => Covered
<1>1. bandwidth * 0 = 0 /\ MaxCost \in Nat
  BY DEF Sound
<1> QED BY <1>1 DEF ThrottleInit, Covered

\* A credit is covered by its interval, a packet by a balance that was not negative.
LEMMA CoveredStep ==
  ASSUME Sound, Covered, [ThrottleNext]_throttleVars PROVE Covered'
<1>1. CASE UNCHANGED throttleVars
  BY <1>1 DEF Covered, throttleVars
<1>2. ASSUME NEW d \in Intervals, NEW c \in 0..MaxCost, Step(d, c) PROVE Covered'
  <2>1. PICK b \in {balance, Credited(balance, d)} :
          /\ c > 0 => b >= 0
          /\ balance' = b - c /\ spent' = spent + c /\ elapsed' = elapsed + d
    BY <1>2 DEF Step
  <2>2. d \in Nat /\ c \in Nat /\ c <= MaxCost /\ bandwidth \in Nat /\ MaxCost \in Nat
    BY DEF Sound
  <2>3. balance \in Int /\ spent \in Nat /\ elapsed \in Nat /\ balance >= -MaxCost
        /\ 1000 * (spent + balance) <= bandwidth * elapsed
    BY DEF Covered
  <2>4. bandwidth * d \in Nat /\ bandwidth * elapsed \in Nat
        /\ bandwidth * (elapsed + d) = bandwidth * elapsed + bandwidth * d
    BY <2>2, <2>3
  <2>5. b \in Int /\ b >= balance /\ 1000 * b <= 1000 * balance + bandwidth * d
    BY <2>1, <2>3, <2>4, CreditRoundsDown
  <2>6. balance' \in Int /\ spent' \in Nat /\ elapsed' \in Nat /\ balance' >= -MaxCost
    BY <2>1, <2>2, <2>3, <2>5
  <2>7. 1000 * (spent' + balance') <= bandwidth * elapsed'
    <3>1. spent' + balance' = spent + b
      BY <2>1, <2>2, <2>3, <2>5
    <3>2. 1000 * (spent + b) <= bandwidth * elapsed + bandwidth * d
      BY <2>3, <2>4, <2>5
    <3> QED BY <2>1, <2>4, <3>1, <3>2
  <2> QED BY <2>6, <2>7 DEF Covered
<1> QED BY <1>1, <1>2 DEF ThrottleNext

\* What was sent is covered but for the one packet that may be owed.
LEMMA CoveredBounds == ASSUME Sound, Covered PROVE RateBound
<1>1. bandwidth * elapsed \in Nat
  BY DEF Sound, Covered
<1> QED BY <1>1 DEF Sound, Covered, RateBound

\* Over any history the bytes sent exceed the rate by one packet at most.
THEOREM RateHolds == ASSUME Sound PROVE ThrottleSpec => []RateBound
<1>1. ThrottleInit => Covered
  BY CoveredInit
<1>2. Covered /\ [ThrottleNext]_throttleVars => Covered'
  BY CoveredStep
<1>3. Covered => RateBound
  BY CoveredBounds
<1> QED BY <1>1, <1>2, <1>3, PTL DEF ThrottleSpec
=============================================================================
