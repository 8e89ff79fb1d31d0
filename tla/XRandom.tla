-------------------------------- MODULE XRandom --------------------------------
(***************************************************************************)
(* random of xrandom.cpp and xrandom.h, as functions of what rand() gives, *)
(* on integers of a width that is a parameter; and the decision of the UDP *)
(* relay to drop a datagram, which is the only user of it.                 *)
(***************************************************************************)
EXTENDS Integers, FiniteSets, SequencesExt

CONSTANTS RandMax      \* RAND_MAX = GLOBAL_RAND_MAX, the largest int32

ASSUME RandomAssumption == RandMax \in Nat

Larger(a, b)  == IF a < b THEN b ELSE a
Smaller(a, b) == IF a < b THEN a ELSE b

\* int32_range, where max_ - min_ + 1 is an int32.
RangeOpen(min_, max_, rand) == (rand % Larger(1, max_ - min_)) + min_
Int32Range(min_, max_, rand) == (rand % (Larger(min_, max_) - min_ + 1)) + min_

\* uint32_range
Uint32Range(min_, max_, rand) ==
  Int32Range(Smaller(min_, RandMax), Smaller(max_, RandMax), rand)

\* float64_range(min_, max_), and float64_0_1 as (0, 1) and float64_M1_P1 as (-1, 1), in
\* units of 1 / RandMax.
Float64Range(min_, max_, rand) == rand * (Larger(min_, max_) - min_) + min_ * RandMax

\* bool_T_F(num / den); bool_T_F(), int32_0_1 and uint32_0_1 take the last bit.
BoolTF(num, den, rand) == rand * den <= num * RandMax
LastBit(rand) == rand % 2

\* unique_assign: a number that is in buf already is drawn again.
Taken(buf, n) == IF n \in Range(buf) THEN buf ELSE Append(buf, n)

\* What is in buf after the draws; fewer than size if it would go on.
UniqueAssign(size, draws) ==
  FoldLeft(LAMBDA buf, n : IF Len(buf) < size THEN Taken(buf, n) ELSE buf, <<>>, draws)

MayAssign(size, min_, max_) == min_ <= max_ /\ size <= max_ - min_ + 1

\* arrange: each place in turn is exchanged with one that is drawn.
Arrange(buf, draws) ==
  FoldLeft(LAMBDA b, i : [b EXCEPT ![i] = b[draws[i]], ![draws[i]] = b[i]],
           buf, [i \in 1..Len(buf) |-> i])

\* UdpEndpointProxy::handleRecv
Drops(drop_prob, rand) == drop_prob > 0 /\ Int32Range(1, 10000, rand) <= drop_prob
-----------------------------------------------------------------------------
\* int32_range, uint32_range: each number from min_ to max_ comes up, and no other, if
\* both are in reach of rand(); an empty range is its first number.
RangeCovered(min_, max_) ==
  LET span == 0..RandMax
  IN  /\ max_ - min_ < RandMax =>
           {Int32Range(min_, max_, r) : r \in span} = min_..Larger(min_, max_)
      /\ min_ >= 0 =>
           {Uint32Range(min_, max_, r) : r \in span}
             = Smaller(min_, RandMax)..Smaller(Larger(min_, max_), RandMax)

\* float64_range, bool_T_F: both ends are reached and nothing beyond them is; of the
\* RandMax + 1 draws a chance has its share to within one draw, which it has
\* too much, so that a chance of 0 may still come true; a bit is fair.
ChanceKept(num, den, max_) ==
  LET span   == 0..RandMax
      True_  == {r \in span : BoolTF(num, den, r)}
      Reals_ == {Float64Range(num, max_, r) : r \in span}
      Even   == {r \in span : LastBit(r) = 0}
  IN  /\ {num * RandMax, Larger(num, max_) * RandMax} \subseteq Reals_
      /\ Reals_ \subseteq (num * RandMax)..(Larger(num, max_) * RandMax)
      /\ num \in 0..den => Cardinality(True_) * den \in (num * RandMax + 1)..(num * RandMax + den)
      /\ RandMax % 2 = 1 => 2 * Cardinality(Even) = RandMax + 1

\* unique_assign, arrange: the numbers assigned differ and are in their range, and as soon
\* as enough different ones were drawn the loop ends; arrange moves the
\* elements and neither loses nor repeats one.
AssignedOnce(size, min_, max_, draws) ==
  LET drawn == [i \in DOMAIN draws |-> Int32Range(min_, max_, draws[i])]
      buf   == UniqueAssign(size, drawn)
  IN  MayAssign(size, min_, max_) =>
        /\ IsInjective(buf) /\ Range(buf) \subseteq min_..max_
        /\ Len(buf) = Smaller(size, Cardinality(Range(drawn)))

ArrangedOnce(buf, draws) ==
  LET after == Arrange(buf, draws)
      Times(b, e) == Cardinality({i \in DOMAIN b : b[i] = e})
  IN  \A e \in Range(buf) \cup Range(after) : Times(after, e) = Times(buf, e)

\* handleRecv: of 10000 numbers in a row drop_prob drop the datagram, all of them at
\* 10000 and none at 0 or below.
DropShare(drop_prob) ==
  Cardinality({r \in 1..10000 : Drops(drop_prob, r)}) = Smaller(Larger(drop_prob, 0), 10000)
=============================================================================
