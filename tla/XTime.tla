--------------------------------- MODULE XTime ---------------------------------
(***************************************************************************)
(* is_launchtime and interval_checker of xttime.h: something is due once   *)
(* in an interval, by a wall clock that is polled and may be set back.     *)
(***************************************************************************)
EXTENDS Integers, Sequences

\* What a call gives: whether it is time, and the new TS_CHECKOUT.
Due(checkout)    == [due |-> TRUE, checkout |-> checkout]
NotDue(checkout) == [due |-> FALSE, checkout |-> checkout]

\* is_launchtime: late by more than an interval, late, early, or set back.
LaunchLate(checkout, interval, now) ==
  IF now > checkout THEN Due(checkout + interval)
  ELSE IF now > checkout - interval THEN NotDue(checkout)
  ELSE Due(now + interval)
IsLaunchtime(checkout, interval, now) ==
  IF now > checkout + interval THEN Due(now + interval)
  ELSE IF now > checkout THEN Due(checkout + interval)
  ELSE IF now > checkout - interval THEN NotDue(checkout)
  ELSE Due(now + interval)

\* interval_checker::check_and_update: checkout is last_time_ms.
CheckAndUpdate(last_time_ms, interval, now) ==
  IF now - last_time_ms >= interval THEN Due(now) ELSE NotDue(last_time_ms)

\* What the calls give that poll Call at the times of clock.
Polls(Call(_, _, _), checkout, interval, clock) ==
  LET polls[i \in 0..Len(clock)] ==
        IF i = 0 THEN NotDue(checkout)
        ELSE Call(polls[i - 1].checkout, interval, clock[i])
  IN  [i \in 1..Len(clock) |-> polls[i]]

Forward(clock) == \A i, j \in 1..Len(clock) : i < j => clock[i] < clock[j]
DueAt(polls)   == {i \in DOMAIN polls : polls[i].due}
-----------------------------------------------------------------------------
\* is_launchtime: the next launch is never more than an interval away from a poll,
\* whatever the clock and TS_CHECKOUT were; and though a launch that was late
\* may be followed at once by one that is on time, of three in a row the
\* first and the last are more than an interval apart, while each poll
\* finds a later time: one that finds the same as the launch before it
\* is taken for a clock that was set back, and launches again.
LaunchesSpaced(checkout, interval, clock) ==
  LET polls == Polls(IsLaunchtime, checkout, interval, clock)
  IN  /\ \A i \in DOMAIN polls : polls[i].checkout - clock[i] \in 0..interval
      /\ Forward(clock) =>
           \A i, j, k \in DueAt(polls) : i < j /\ j < k => clock[k] - clock[i] > interval

\* interval_checker: two updates are an interval apart, also across a clock that was set
\* back: where is_launchtime goes on at once, it keeps silent until the
\* clock has come to where it was, and for an interval more.
UpdatesSpaced(last_time_ms, interval, clock) ==
  LET polls == Polls(CheckAndUpdate, last_time_ms, interval, clock)
  IN  \A i, j \in DueAt(polls) : i < j => clock[j] - clock[i] >= interval
=============================================================================
