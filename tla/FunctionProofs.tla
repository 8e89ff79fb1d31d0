---------------------------- MODULE FunctionProofs ----------------------------
(***************************************************************************)
(* What the functions beside the relay compute, for every input.  What a   *)
(* loop of the code builds is a chain here: a function on 0..n of which    *)
(* each value is made of the one before it.                                *)
(***************************************************************************)
EXTENDS MCHelpers, FiniteSetTheorems, SequenceTheorems, WellFoundedInduction, TLAPS

-----------------------------------------------------------------------------
(* Options.                                                                *)

\* Where a value comes from: the command line, the file that it or the default names, the
\* default.
LEMMA OptionsLayer ==
  ASSUME NEW command, NEW files
  PROVE  OptionsLayered(command, files)
<1>1. PICK parsed, c : /\ c = Store(command, EmptyMap)
                       /\ parsed = files[ConfigFile(command)]
  OBVIOUS
<1>2. ASSUME NEW o \in OptionNames
      PROVE  /\ command[o] # Unset => c[o] = [value |-> command[o], defaulted |-> FALSE]
             /\ command[o] = Unset => c[o] = [value |-> Default[o], defaulted |-> TRUE]
  <2>1. EmptyMap[o].defaulted
    BY DEF EmptyMap
  <2> QED BY <1>1, <2>1 DEF Store
<1>3. ASSUME NEW o \in OptionNames
      PROVE  /\ command[o] # Unset => c[o].value = command[o] /\ ~c[o].defaulted
             /\ command[o] = Unset => c[o].value = Default[o] /\ c[o].defaulted
  <2>1. CASE command[o] # Unset
    <3>1. c[o] = [value |-> command[o], defaulted |-> FALSE]
      BY <1>2, <2>1
    <3>2. c[o].value = command[o] /\ c[o].defaulted = FALSE
      BY <3>1
    <3> QED BY <2>1, <3>2, Zenon
  <2>2. CASE command[o] = Unset
    <3>1. c[o] = [value |-> Default[o], defaulted |-> TRUE]
      BY <1>2, <2>2
    <3>2. c[o].value = Default[o] /\ c[o].defaulted = TRUE
      BY <3>1
    <3> QED BY <2>2, <3>2, Zenon
  <2> QED BY <2>1, <2>2
<1>4. ASSUME NEW o \in OptionNames
      PROVE  Fields(c)[o] = IF command[o] # Unset THEN command[o] ELSE Default[o]
  BY <1>3 DEF Fields
<1>5. ASSUME NEW o \in OptionNames
      PROVE  Fields(Store(parsed, c))[o] =
               IF command[o] # Unset THEN command[o]
               ELSE IF parsed[o] # Unset THEN parsed[o] ELSE Default[o]
  <2>1. PICK d : d = Store(parsed, c)
    OBVIOUS
  <2>2. CASE command[o] # Unset
    <3>1. d[o] = c[o]
      BY <1>3, <2>1, <2>2 DEF Store
    <3> QED BY <1>3, <2>1, <2>2, <3>1 DEF Fields
  <2>3. CASE command[o] = Unset /\ parsed[o] # Unset
    <3>1. d[o] = [value |-> parsed[o], defaulted |-> FALSE]
      BY <1>3, <2>1, <2>3 DEF Store
    <3> QED BY <2>1, <2>3, <3>1 DEF Fields
  <2>4. CASE command[o] = Unset /\ parsed[o] = Unset
    <3>1. d[o] = [value |-> Default[o], defaulted |-> TRUE]
      BY <1>3, <2>1, <2>4 DEF Store
    <3> QED BY <2>1, <2>4, <3>1 DEF Fields
  <2> QED BY <2>2, <2>3, <2>4
<1>7. ConfigFile(command) = IF command["config_file"] = Unset THEN Default["config_file"]
                            ELSE command["config_file"]
  <2>1. "config_file" \in OptionNames
    BY OptionsAssumption DEF OptionsAssumption
  <2> QED BY <1>1, <1>4, <2>1 DEF ConfigFile
<1>6. InitFields(command, files).fields =
        IF parsed = Missing THEN Fields(c) ELSE Fields(Store(parsed, c))
  BY <1>1 DEF InitFields, Stored
<1> QED BY <1>1, <1>4, <1>5, <1>6, <1>7 DEF OptionsLayered

\* ServerArgsBase::init, for every command line and file.
THEOREM CommandLineAlwaysWins == HelpersSpec => []CommandLineWins
<1>1. CommandLineWins
  BY OptionsLayer DEF CommandLineWins
<1> QED BY <1>1, PTL
-----------------------------------------------------------------------------
(* Polls.                                                                  *)

\* Induction along a sequence of length n, with the set of the places where a fact holds.
LEMMA Along ==
  ASSUME NEW n \in Nat, NEW T \in SUBSET (0..n), 0 \in T,
         \A i \in T : i < n => i + 1 \in T
  PROVE  T = 0..n
<1> SUFFICES ASSUME (0..n) \ T # {} PROVE FALSE
  OBVIOUS
<1> DEFINE Less == OpToRel(<, Nat)
<1>1. IsWellFoundedOn(Less, Nat)
  BY NatLessThanWellFounded
<1>2. (0..n) \ T \subseteq Nat
  OBVIOUS
<1> HIDE DEF Less
<1>3. PICK i \in (0..n) \ T : \A j \in (0..n) \ T : <<j, i>> \notin Less
  BY <1>1, <1>2, WFMin
<1>4. i > 0 /\ i - 1 \in 0..n /\ i - 1 < i /\ (i - 1) + 1 = i
  BY <1>3
<1>5. i - 1 \in T
  BY <1>2, <1>3, <1>4 DEF Less, OpToRel
<1> QED BY <1>3, <1>4, <1>5

\* A sequence of which each element is made of the one before it.
Chained(r, n, base, F) == r[0] = base /\ \A i \in 1..n : r[i] = F[<<i, r[i - 1]>>]

LEMMA Recurs ==
  ASSUME NEW n \in Nat, NEW S, NEW base \in S, NEW F \in [(1..n) \X S -> S]
  PROVE  \E r \in [0..n -> S] : Chained(r, n, base, F)
<1> DEFINE Made_(k) == \E r \in [0..k -> S] :
                         r[0] = base /\ \A i \in 1..k : r[i] = F[<<i, r[i - 1]>>]
           T == {k \in 0..n : Made_(k)}
<1>1. 0 \in T
  <2>1. PICK r : r = [i \in 0..0 |-> base]
    OBVIOUS
  <2>2. r \in [0..0 -> S] /\ r[0] = base /\ 1..0 = {} /\ 0 \in 0..n
    BY <2>1
  <2>3. Made_(0)
    BY <2>2
  <2> QED BY <2>2, <2>3
<1>2. ASSUME NEW k \in T, k < n PROVE k + 1 \in T
  <2>1. PICK r \in [0..k -> S] : r[0] = base /\ \A i \in 1..k : r[i] = F[<<i, r[i - 1]>>]
    OBVIOUS
  <2>2. PICK next : next = F[<<k + 1, r[k]>>]
    OBVIOUS
  <2>3. next \in S /\ k + 1 \in 0..n
    BY <1>2, <2>1, <2>2
  <2>4. PICK s : s = [i \in 0..(k + 1) |-> IF i = k + 1 THEN next ELSE r[i]]
    OBVIOUS
  <2>5. s \in [0..(k + 1) -> S] /\ s[0] = base /\ s[k + 1] = next /\ \A i \in 0..k : s[i] = r[i]
    BY <2>1, <2>3, <2>4
  <2>6. \A i \in 1..(k + 1) : s[i] = F[<<i, s[i - 1]>>]
    <3> TAKE i \in 1..(k + 1)
    <3>1. CASE i = k + 1
      BY <2>2, <2>5, <3>1
    <3>2. CASE i # k + 1
      <4>1. i \in 1..k /\ i - 1 \in 0..k /\ i \in 0..k
        BY <3>2
      <4> QED BY <2>1, <2>5, <4>1
    <3> QED BY <3>1, <3>2
  <2> QED BY <2>3, <2>5, <2>6
<1>3. T = 0..n
  <2> HIDE DEF T
  <2>1. T \in SUBSET (0..n)
    BY DEF T
  <2> QED BY <1>1, <1>2, <2>1, Along
<1> QED BY <1>3 DEF Chained
\* What a call gives, and the calls that Polls makes one after the other.
Answers == [due : BOOLEAN, checkout : Int]

LaunchesMade(r, checkout, interval, clock) ==
  /\ r[0] = NotDue(checkout)
  /\ \A i \in 1..Len(clock) :
       r[i] = IsLaunchtime(r[i - 1].checkout, interval, clock[i])
  /\ Polls(IsLaunchtime, checkout, interval, clock) = [i \in 1..Len(clock) |-> r[i]]

LEMMA LaunchPolls ==
  ASSUME NEW checkout \in Int, NEW interval \in Int, NEW clock \in Seq(Int)
  PROVE  \E r \in [0..Len(clock) -> Answers] : LaunchesMade(r, checkout, interval, clock)
<1>1. PICK n \in Nat : n = Len(clock)
  OBVIOUS
<1>2. ASSUME NEW a \in Answers, NEW i \in 1..n
      PROVE  IsLaunchtime(a.checkout, interval, clock[i]) \in Answers
  <2>1. a.checkout \in Int /\ clock[i] \in Int
    BY <1>1 DEF Answers
  <2>2. \A x \in Int : Due(x) \in Answers /\ NotDue(x) \in Answers
    BY DEF Due, NotDue, Answers
  <2> QED BY <2>1, <2>2 DEF IsLaunchtime
<1>3. NotDue(checkout) \in Answers
  BY DEF NotDue, Answers
<1>4. PICK F : F = [p \in (1..n) \X Answers |-> IsLaunchtime(p[2].checkout, interval, clock[p[1]])]
  OBVIOUS
<1>5. /\ F \in [(1..n) \X Answers -> Answers]
      /\ \A i \in 1..n, a \in Answers : F[<<i, a>>] = IsLaunchtime(a.checkout, interval, clock[i])
  BY <1>2, <1>4
<1>6. PICK r \in [0..n -> Answers] : r[0] = NotDue(checkout) /\ \A i \in 1..n : r[i] = F[<<i, r[i - 1]>>]
  <2>1. \E r \in [0..n -> Answers] : Chained(r, n, NotDue(checkout), F)
    BY <1>3, <1>5, Recurs
  <2> QED BY <2>1 DEF Chained
<1>7. ASSUME NEW i \in 1..n
      PROVE  r[i] = IsLaunchtime(r[i - 1].checkout, interval, clock[i])
  <2>1. i - 1 \in 0..n
    OBVIOUS
  <2>2. r[i - 1] \in Answers
    BY <1>6, <2>1
  <2> QED BY <1>5, <1>6, <2>2
<1> DEFINE Called_(p) == [i \in 0..n |-> IF i = 0 THEN NotDue(checkout)
                                         ELSE IsLaunchtime(p[i - 1].checkout, interval, clock[i])]
<1>8. r = Called_(r)
  BY <1>6, <1>7
<1>9. PICK polls : polls = Called_(polls) /\ polls = (CHOOSE p : p = Called_(p))
  <2> HIDE DEF Called_
  <2> QED BY <1>8
<1>10. Polls(IsLaunchtime, checkout, interval, clock) = [i \in 1..n |-> polls[i]]
  BY <1>1, <1>9 DEF Polls
<1>11. polls[0] = NotDue(checkout)
       /\ \A i \in 1..n : polls[i] = IsLaunchtime(polls[i - 1].checkout, interval, clock[i])
  BY <1>9
<1>12. polls = r
  <2>1. PICK T : T = {i \in 0..n : polls[i] = r[i]}
    OBVIOUS
  <2>2. 0 \in T
    BY <1>6, <1>11, <2>1
  <2>3. ASSUME NEW i \in T, i < n PROVE i + 1 \in T
    <3>1. i \in 0..n /\ polls[i] = r[i] /\ i + 1 \in 1..n /\ (i + 1) - 1 = i
      BY <2>1, <2>3
    <3>2. polls[i + 1] = r[i + 1]
      BY <1>7, <1>11, <3>1
    <3> QED BY <2>1, <3>1, <3>2
  <2>4. T = 0..n
    BY <2>1, <2>2, <2>3, Along
  <2>5. \A i \in 0..n : polls[i] = r[i]
    BY <2>1, <2>4
  <2> QED BY <1>6, <1>9, <2>5
<1> QED BY <1>1, <1>6, <1>7, <1>10, <1>12 DEF LaunchesMade

UpdatesMade(r, checkout, interval, clock) ==
  /\ r[0] = NotDue(checkout)
  /\ \A i \in 1..Len(clock) :
       r[i] = CheckAndUpdate(r[i - 1].checkout, interval, clock[i])
  /\ Polls(CheckAndUpdate, checkout, interval, clock) = [i \in 1..Len(clock) |-> r[i]]

LEMMA UpdatePolls ==
  ASSUME NEW checkout \in Int, NEW interval \in Int, NEW clock \in Seq(Int)
  PROVE  \E r \in [0..Len(clock) -> Answers] : UpdatesMade(r, checkout, interval, clock)
<1>1. PICK n \in Nat : n = Len(clock)
  OBVIOUS
<1>2. ASSUME NEW a \in Answers, NEW i \in 1..n
      PROVE  CheckAndUpdate(a.checkout, interval, clock[i]) \in Answers
  <2>1. a.checkout \in Int /\ clock[i] \in Int
    BY <1>1 DEF Answers
  <2>2. \A x \in Int : Due(x) \in Answers /\ NotDue(x) \in Answers
    BY DEF Due, NotDue, Answers
  <2> QED BY <2>1, <2>2 DEF CheckAndUpdate
<1>3. NotDue(checkout) \in Answers
  BY DEF NotDue, Answers
<1>4. PICK F : F = [p \in (1..n) \X Answers |-> CheckAndUpdate(p[2].checkout, interval, clock[p[1]])]
  OBVIOUS
<1>5. /\ F \in [(1..n) \X Answers -> Answers]
      /\ \A i \in 1..n, a \in Answers : F[<<i, a>>] = CheckAndUpdate(a.checkout, interval, clock[i])
  BY <1>2, <1>4
<1>6. PICK r \in [0..n -> Answers] : r[0] = NotDue(checkout) /\ \A i \in 1..n : r[i] = F[<<i, r[i - 1]>>]
  <2>1. \E r \in [0..n -> Answers] : Chained(r, n, NotDue(checkout), F)
    BY <1>3, <1>5, Recurs
  <2> QED BY <2>1 DEF Chained
<1>7. ASSUME NEW i \in 1..n
      PROVE  r[i] = CheckAndUpdate(r[i - 1].checkout, interval, clock[i])
  <2>1. i - 1 \in 0..n
    OBVIOUS
  <2>2. r[i - 1] \in Answers
    BY <1>6, <2>1
  <2> QED BY <1>5, <1>6, <2>2
<1> DEFINE Called_(p) == [i \in 0..n |-> IF i = 0 THEN NotDue(checkout)
                                         ELSE CheckAndUpdate(p[i - 1].checkout, interval, clock[i])]
<1>8. r = Called_(r)
  BY <1>6, <1>7
<1>9. PICK polls : polls = Called_(polls) /\ polls = (CHOOSE p : p = Called_(p))
  <2> HIDE DEF Called_
  <2> QED BY <1>8
<1>10. Polls(CheckAndUpdate, checkout, interval, clock) = [i \in 1..n |-> polls[i]]
  BY <1>1, <1>9 DEF Polls
<1>11. polls[0] = NotDue(checkout)
       /\ \A i \in 1..n : polls[i] = CheckAndUpdate(polls[i - 1].checkout, interval, clock[i])
  BY <1>9
<1>12. polls = r
  <2>1. PICK T : T = {i \in 0..n : polls[i] = r[i]}
    OBVIOUS
  <2>2. 0 \in T
    BY <1>6, <1>11, <2>1
  <2>3. ASSUME NEW i \in T, i < n PROVE i + 1 \in T
    <3>1. i \in 0..n /\ polls[i] = r[i] /\ i + 1 \in 1..n /\ (i + 1) - 1 = i
      BY <2>1, <2>3
    <3>2. polls[i + 1] = r[i + 1]
      BY <1>7, <1>11, <3>1
    <3> QED BY <2>1, <3>1, <3>2
  <2>4. T = 0..n
    BY <2>1, <2>2, <2>3, Along
  <2>5. \A i \in 0..n : polls[i] = r[i]
    BY <2>1, <2>4
  <2> QED BY <1>6, <1>9, <2>5
<1> QED BY <1>1, <1>6, <1>7, <1>10, <1>12 DEF UpdatesMade

\* Numbers of which none is below the one before it, from the l-th on.
LEMMA Climbing ==
  ASSUME NEW n \in Nat, NEW l \in 0..n, NEW c \in [0..n -> Int],
         \A i \in (l + 1)..n : c[i - 1] =< c[i]
  PROVE  \A i, j \in l..n : i =< j => c[i] =< c[j]
<1>1. PICK T : T = {m \in 0..n : \A i \in l..m : c[i] =< c[m]}
  OBVIOUS
<1>2. 0 \in T
  BY <1>1
<1>3. ASSUME NEW m \in T, m < n PROVE m + 1 \in T
  <2>1. m \in 0..n /\ m + 1 \in 0..n /\ (m + 1) - 1 = m
    BY <1>1, <1>3
  <2>2. SUFFICES ASSUME NEW i \in l..(m + 1) PROVE c[i] =< c[m + 1]
    BY <1>1, <2>1
  <2>3. CASE i = m + 1
    BY <2>1, <2>3
  <2>4. CASE i # m + 1
    <3>1. i \in l..m /\ m + 1 \in (l + 1)..n
      BY <2>1, <2>4
    <3>2. c[i] =< c[m] /\ c[m] =< c[m + 1]
      BY <1>1, <2>1, <3>1
    <3>3. c[i] \in Int /\ c[m] \in Int /\ c[m + 1] \in Int
      BY <2>1, <3>1
    <3> QED BY <3>2, <3>3
  <2> QED BY <2>3, <2>4
<1>4. T = 0..n
  BY <1>1, <1>2, <1>3, Along
<1>5. ASSUME NEW i \in l..n, NEW j \in l..n, i =< j PROVE c[i] =< c[j]
  <2>1. j \in T /\ i \in l..j
    BY <1>4, <1>5
  <2> QED BY <1>1, <2>1
<1> QED BY <1>5

\* What a poll that launches or updates changes, one call at a time.
LEMMA LaunchStep ==
  ASSUME NEW c \in Int, NEW interval \in Nat, NEW now \in Int, NEW a,
         a = IsLaunchtime(c, interval, now)
  PROVE  /\ a.checkout - now \in 0..interval
         /\ now > c - interval => c =< a.checkout /\ (a.due => now > c /\ c + interval =< a.checkout)
<1>1. \A x : Due(x).due /\ Due(x).checkout = x
  BY DEF Due
<1>2. \A x : ~NotDue(x).due /\ NotDue(x).checkout = x
  BY DEF NotDue
<1>3. CASE now > c + interval
  <2>1. a = Due(now + interval)
    BY <1>3 DEF IsLaunchtime
  <2> QED BY <1>1, <1>3, <2>1
<1>4. CASE now > c /\ ~(now > c + interval)
  <2>1. a = Due(c + interval)
    BY <1>4 DEF IsLaunchtime
  <2> QED BY <1>1, <1>4, <2>1
<1>5. CASE now > c - interval /\ ~(now > c)
  <2>1. a = NotDue(c)
    BY <1>5 DEF IsLaunchtime
  <2> QED BY <1>2, <1>5, <2>1
<1>6. CASE ~(now > c - interval)
  <2>1. a = Due(now + interval)
    BY <1>6 DEF IsLaunchtime
  <2> QED BY <1>1, <1>6, <2>1
<1> QED BY <1>3, <1>4, <1>5, <1>6

LEMMA UpdateStep ==
  ASSUME NEW c \in Int, NEW interval \in Nat, NEW now \in Int, NEW a,
         a = CheckAndUpdate(c, interval, now)
  PROVE  c =< a.checkout /\ (a.due => a.checkout = now /\ now - c >= interval)
<1>1. \A x : Due(x).due /\ Due(x).checkout = x
  BY DEF Due
<1>2. \A x : ~NotDue(x).due /\ NotDue(x).checkout = x
  BY DEF NotDue
<1>3. CASE now - c >= interval
  <2>1. a = Due(now)
    BY <1>3 DEF CheckAndUpdate
  <2> QED BY <1>1, <1>3, <2>1
<1>4. CASE ~(now - c >= interval)
  <2>1. a = NotDue(c)
    BY <1>4 DEF CheckAndUpdate
  <2> QED BY <1>2, <1>4, <2>1
<1> QED BY <1>3, <1>4

\* is_launchtime, for every TS_CHECKOUT, interval and clock: the next launch is at most an
\* interval away, and on a clock that goes forward of three launches the first and
\* the last are more than an interval apart.
THEOREM LaunchesKept ==
  ASSUME NEW checkout \in Int, NEW interval \in Nat, NEW clock \in Seq(Int)
  PROVE  LaunchesSpaced(checkout, interval, clock)
<1>1. PICK n \in Nat : n = Len(clock)
  OBVIOUS
<1>2. PICK r \in [0..n -> Answers] :
        /\ r[0] = NotDue(checkout)
        /\ \A i \in 1..n : r[i] = IsLaunchtime(r[i - 1].checkout, interval, clock[i])
        /\ Polls(IsLaunchtime, checkout, interval, clock) = [i \in 1..n |-> r[i]]
  <2>1. PICK r \in [0..Len(clock) -> Answers] : LaunchesMade(r, checkout, interval, clock)
    BY LaunchPolls
  <2> QED BY <1>1, <2>1 DEF LaunchesMade
<1>3. PICK c : c = [i \in 0..n |-> r[i].checkout]
  OBVIOUS
<1>4. c \in [0..n -> Int]
  BY <1>3 DEF Answers
<1>5. ASSUME NEW i \in 1..n
      PROVE  /\ i - 1 \in 0..n /\ i \in 0..n /\ clock[i] \in Int
             /\ c[i] - clock[i] \in 0..interval
             /\ clock[i] > c[i - 1] - interval =>
                  c[i - 1] =< c[i] /\ (r[i].due => clock[i] > c[i - 1] /\ c[i - 1] + interval =< c[i])
  <2>1. i - 1 \in 0..n /\ i \in 0..n /\ clock[i] \in Int
    BY <1>1
  <2>2. r[i] = IsLaunchtime(c[i - 1], interval, clock[i]) /\ c[i] = r[i].checkout
    BY <1>2, <1>3, <2>1
  <2>3. c[i - 1] \in Int
    BY <1>4, <2>1
  <2> QED BY <2>1, <2>2, <2>3, LaunchStep
<1>6. PICK polls : polls = Polls(IsLaunchtime, checkout, interval, clock)
  OBVIOUS
<1>7. polls = [i \in 1..n |-> r[i]]
  BY <1>2, <1>6
<1>8. \A i \in DOMAIN polls : polls[i].checkout - clock[i] \in 0..interval
  BY <1>3, <1>5, <1>7
<1>9. ASSUME Forward(clock), NEW i \in DueAt(polls), NEW j \in DueAt(polls), NEW k \in DueAt(polls),
             i < j, j < k
      PROVE  clock[k] - clock[i] > interval
  <2>1. i \in 1..n /\ j \in 1..n /\ k \in 1..n /\ r[j].due /\ r[k].due
    BY <1>7 DEF DueAt
  <2>2. ASSUME NEW m \in 2..n PROVE clock[m] > c[m - 1] - interval
    <3>1. m \in 1..n /\ m - 1 \in 1..n /\ m - 1 < m
      OBVIOUS
    <3>2. clock[m - 1] < clock[m]
      BY <1>1, <1>9, <3>1 DEF Forward
    <3>3. c[m - 1] - clock[m - 1] \in 0..interval /\ clock[m - 1] \in Int /\ clock[m] \in Int
      BY <1>5, <3>1
    <3>4. c[m - 1] \in Int
      BY <1>4
    <3> QED BY <3>2, <3>3, <3>4
  <2>3. ASSUME NEW m \in 2..n PROVE c[m - 1] =< c[m]
    BY <1>5, <2>2
  <2>4. \A p, q \in 1..n : p =< q => c[p] =< c[q]
    <3>1. n \in Nat /\ 1 \in 0..n /\ 1 + 1 = 2
      BY <2>1
    <3> QED BY <1>4, <2>3, <3>1, Climbing
  <2>5. j \in 2..n /\ k \in 2..n /\ i =< j - 1 /\ j =< k - 1 /\ j - 1 \in 1..n /\ k - 1 \in 1..n
    BY <1>9, <2>1
  <2>6. c[i] =< c[j - 1] /\ c[j] =< c[k - 1]
    BY <2>1, <2>4, <2>5
  <2>7. c[j - 1] + interval =< c[j] /\ clock[k] > c[k - 1]
    BY <1>5, <2>1, <2>2, <2>5
  <2>8. clock[i] =< c[i]
    <3>1. c[i] - clock[i] \in 0..interval /\ clock[i] \in Int /\ c[i] \in Int
      BY <1>4, <1>5, <2>1
    <3> QED BY <3>1
  <2>9. /\ c[i] \in Int /\ c[j - 1] \in Int /\ c[j] \in Int /\ c[k - 1] \in Int
        /\ clock[i] \in Int /\ clock[k] \in Int
    BY <1>4, <1>5, <2>1
  <2>10. \A a, b, d, e, x, y \in Int :
           a =< b /\ b + interval =< d /\ d =< e /\ y > e /\ x =< a => y - x > interval
    OBVIOUS
  <2> QED BY <2>6, <2>7, <2>8, <2>9, <2>10
<1> QED BY <1>6, <1>8, <1>9 DEF LaunchesSpaced

\* interval_checker, for every last_time_ms, interval and clock, also one that is set
\* back: two updates are at least an interval apart.
THEOREM UpdatesKept ==
  ASSUME NEW last_time_ms \in Int, NEW interval \in Nat, NEW clock \in Seq(Int)
  PROVE  UpdatesSpaced(last_time_ms, interval, clock)
<1>1. PICK n \in Nat : n = Len(clock)
  OBVIOUS
<1>2. PICK r \in [0..n -> Answers] :
        /\ r[0] = NotDue(last_time_ms)
        /\ \A i \in 1..n : r[i] = CheckAndUpdate(r[i - 1].checkout, interval, clock[i])
        /\ Polls(CheckAndUpdate, last_time_ms, interval, clock) = [i \in 1..n |-> r[i]]
  <2>1. PICK r \in [0..Len(clock) -> Answers] : UpdatesMade(r, last_time_ms, interval, clock)
    BY UpdatePolls
  <2> QED BY <1>1, <2>1 DEF UpdatesMade
<1>3. PICK c : c = [i \in 0..n |-> r[i].checkout]
  OBVIOUS
<1>4. c \in [0..n -> Int]
  BY <1>3 DEF Answers
<1>5. ASSUME NEW i \in 1..n
      PROVE  /\ i - 1 \in 0..n /\ i \in 0..n /\ clock[i] \in Int
             /\ c[i - 1] =< c[i]
             /\ r[i].due => c[i] = clock[i] /\ clock[i] - c[i - 1] >= interval
  <2>1. i - 1 \in 0..n /\ i \in 0..n /\ clock[i] \in Int
    BY <1>1
  <2>2. r[i] = CheckAndUpdate(c[i - 1], interval, clock[i]) /\ c[i] = r[i].checkout
    BY <1>2, <1>3, <2>1
  <2>3. c[i - 1] \in Int
    BY <1>4, <2>1
  <2>4. c[i - 1] =< r[i].checkout
        /\ (r[i].due => r[i].checkout = clock[i] /\ clock[i] - c[i - 1] >= interval)
    BY <2>1, <2>2, <2>3, UpdateStep
  <2> QED BY <2>1, <2>2, <2>4
<1>6. PICK polls : polls = Polls(CheckAndUpdate, last_time_ms, interval, clock)
  OBVIOUS
<1>7. polls = [i \in 1..n |-> r[i]]
  BY <1>2, <1>6
<1>8. \A p, q \in 0..n : p =< q => c[p] =< c[q]
  <2>1. 0 \in 0..n /\ 0 + 1 = 1
    BY <1>1
  <2> QED BY <1>4, <1>5, <2>1, Climbing
<1>9. ASSUME NEW i \in DueAt(polls), NEW j \in DueAt(polls), i < j
      PROVE  clock[j] - clock[i] >= interval
  <2>1. i \in 1..n /\ j \in 1..n /\ r[i].due /\ r[j].due
    BY <1>7 DEF DueAt
  <2>2. i \in 0..n /\ j - 1 \in 0..n /\ i =< j - 1
    BY <1>9, <2>1
  <2>3. c[i] =< c[j - 1] /\ c[i] = clock[i] /\ clock[j] - c[j - 1] >= interval
    BY <1>5, <1>8, <2>1, <2>2
  <2>4. c[i] \in Int /\ c[j - 1] \in Int /\ clock[i] \in Int /\ clock[j] \in Int
    BY <1>4, <1>5, <2>1, <2>2
  <2> QED BY <2>3, <2>4
<1> QED BY <1>6, <1>9 DEF UpdatesSpaced

\* An input is of the set that its kind names, as long as it runs.
InputsOf(kind) ==
  CASE kind = "clock" -> ClockInputs
    [] kind = "range" -> [of : {"range"}, min_ : -3..10, max_ : -3..10]
    [] kind = "drop" -> [of : {"drop"}, drop_prob : {-1, 0, 1, 100, 5000, 9999, 10000, 10001}]
    [] kind = "chance" -> [of : {"chance"}, num : -1..4, den : 1..3, max_ : -1..2]
    [] kind = "assign" -> [of : {"assign"}, size : 0..3, min_ : {-1, 1}, max_ : -1..2, draws : [1..4 -> 0..3]]
    [] kind = "arrange" -> UNION {[of : {"arrange"}, buf : [1..n -> 1..n], draws : [1..n -> 1..n]] : n \in 0..3}
    [] kind = "file" -> [of : {"file"}, file : BoundedSeq(Lines, 3)]
    [] kind = "options" -> [of : {"options"}, command : Givens, files : [Values["config_file"] -> ConfigFiles]]
    [] kind = "log" -> [of : {"log"}, calls : BoundedSeq(LogCalls, 3)]
    [] kind = "tokens" -> [of : {"tokens"}, leader : Words, tokens : BoundedSeq(Words, 2)]
    [] kind = "path" -> [of : {"path"}, name : BoundedSeq({Slash, Dot, "a"}, 3), workdir : BoundedSeq({Slash, "a"}, 2),
                           elsewhere : {<<>>, <<Slash>>, <<"a">>}]

LEMMA InputOfKind ==
  ASSUME input \in Inputs
  PROVE  input \in InputsOf(input.of)
<1>1. CASE input \in ClockInputs
  <2>1. input.of = "clock"
    BY <1>1 DEF ClockInputs
  <2> QED BY <1>1, <2>1 DEF InputsOf
<1>2. CASE input \in [of : {"range"}, min_ : -3..10, max_ : -3..10]
  <2>1. input.of = "range"
    BY <1>2
  <2> QED BY <1>2, <2>1 DEF InputsOf
<1>3. CASE input \in [of : {"drop"}, drop_prob : {-1, 0, 1, 100, 5000, 9999, 10000, 10001}]
  <2>1. input.of = "drop"
    BY <1>3
  <2> QED BY <1>3, <2>1 DEF InputsOf
<1>4. CASE input \in [of : {"chance"}, num : -1..4, den : 1..3, max_ : -1..2]
  <2>1. input.of = "chance"
    BY <1>4
  <2> QED BY <1>4, <2>1 DEF InputsOf
<1>5. CASE input \in [of : {"assign"}, size : 0..3, min_ : {-1, 1}, max_ : -1..2, draws : [1..4 -> 0..3]]
  <2>1. input.of = "assign"
    BY <1>5
  <2> QED BY <1>5, <2>1 DEF InputsOf
<1>6. CASE input \in UNION {[of : {"arrange"}, buf : [1..n -> 1..n], draws : [1..n -> 1..n]] : n \in 0..3}
  <2>1. input.of = "arrange"
    BY <1>6
  <2> QED BY <1>6, <2>1 DEF InputsOf
<1>7. CASE input \in [of : {"file"}, file : BoundedSeq(Lines, 3)]
  <2>1. input.of = "file"
    BY <1>7
  <2> QED BY <1>7, <2>1 DEF InputsOf
<1>8. CASE input \in [of : {"options"}, command : Givens, files : [Values["config_file"] -> ConfigFiles]]
  <2>1. input.of = "options"
    BY <1>8
  <2> QED BY <1>8, <2>1 DEF InputsOf
<1>9. CASE input \in [of : {"log"}, calls : BoundedSeq(LogCalls, 3)]
  <2>1. input.of = "log"
    BY <1>9
  <2> QED BY <1>9, <2>1 DEF InputsOf
<1>10. CASE input \in [of : {"tokens"}, leader : Words, tokens : BoundedSeq(Words, 2)]
  <2>1. input.of = "tokens"
    BY <1>10
  <2> QED BY <1>10, <2>1 DEF InputsOf
<1>11. CASE input \in [of : {"path"}, name : BoundedSeq({Slash, Dot, "a"}, 3), workdir : BoundedSeq({Slash, "a"}, 2),
                      elsewhere : {<<>>, <<Slash>>, <<"a">>}]
  <2>1. input.of = "path"
    BY <1>11
  <2> QED BY <1>11, <2>1 DEF InputsOf
<1> QED
  BY <1>1, <1>2, <1>3, <1>4, <1>5, <1>6, <1>7, <1>8, <1>9, <1>10, <1>11
  DEF Inputs, DrawInputs, TextInputs

LEMMA ClockInput ==
  ASSUME input \in Inputs, input.of = "clock"
  PROVE  input.checkout \in Int /\ input.interval \in Nat /\ input.clock \in Seq(Int)
<1>1. input \in ClockInputs
  BY InputOfKind DEF InputsOf
<1>2. input.checkout \in {-4, 1, 7} /\ input.interval \in 1..3 /\ input.clock \in [1..4 -> 0..5]
  BY <1>1 DEF ClockInputs
<1>3. PICK k \in Nat : k = 4
  OBVIOUS
<1>4. input.clock \in [1..k -> 0..5]
  BY <1>2, <1>3
<1>5. [1..k -> 0..5] \subseteq Seq(Int)
  OBVIOUS
<1> QED BY <1>2, <1>4, <1>5

\* is_launchtime, interval_checker: the intervals are kept for whatever is polled.
THEOREM IntervalsAreKept == HelpersSpec => []IntervalsKept
<1> DEFINE Given_ == input.of = "clock" => input \in Inputs
<1>1. HelpersInit => Given_
  BY DEF HelpersInit
<1>2. Given_ /\ [HelpersNext]_<<lockVars, input>> => Given_'
  BY DEF HelpersNext
<1>3. Given_ => IntervalsKept
  BY ClockInput, LaunchesKept, UpdatesKept DEF IntervalsKept
<1> QED BY <1>1, <1>2, <1>3, PTL DEF HelpersSpec

-----------------------------------------------------------------------------
(* Ranges of draws.                                                        *)

LEMMA Remainders ==
  ASSUME NEW m \in Nat \ {0}, NEW r \in Nat
  PROVE  r % m \in 0..(m - 1) /\ (r < m => r % m = r)
OBVIOUS

\* int32_range and uint32_range, for every RAND_MAX and both ends: each number of the range
\* comes up and no other does.
THEOREM RangeIsCovered ==
  ASSUME NEW min_ \in Int, NEW max_ \in Int
  PROVE  RangeCovered(min_, max_)
<1>1. ASSUME NEW a \in Int, NEW b \in Int, b - a < RandMax + 1
      PROVE  {Int32Range(a, b, r) : r \in 0..RandMax} = a..Larger(a, b)
  <2>1. PICK m : m = Larger(a, b) - a + 1
    OBVIOUS
  <2>2. m \in Nat \ {0} /\ Larger(a, b) \in Int /\ m =< RandMax + 1
    BY <1>1, <2>1, RandomAssumption DEF Larger, RandomAssumption
  <2>3. \A r \in Nat : Int32Range(a, b, r) = (r % m) + a
    BY <2>1 DEF Int32Range
  <2>4. ASSUME NEW r \in 0..RandMax PROVE Int32Range(a, b, r) \in a..Larger(a, b)
    <3>1. r \in Nat
      BY RandomAssumption DEF RandomAssumption
    <3>2. r % m \in 0..(m - 1) /\ Int32Range(a, b, r) = (r % m) + a
      BY <2>2, <2>3, <3>1, Remainders
    <3> QED BY <2>1, <2>2, <3>2
  <2>5. ASSUME NEW v \in a..Larger(a, b) PROVE \E r \in 0..RandMax : v = Int32Range(a, b, r)
    <3>1. PICK r : r = v - a
      OBVIOUS
    <3>2. r \in Nat /\ r < m /\ r \in 0..RandMax /\ r + a = v
      BY <2>1, <2>2, <3>1, RandomAssumption DEF RandomAssumption
    <3>3. r % m = r
      BY <2>2, <3>2, Remainders
    <3> QED BY <2>3, <3>2, <3>3
  <2> QED BY <2>4, <2>5
<1>2. ASSUME max_ - min_ < RandMax
      PROVE  {Int32Range(min_, max_, r) : r \in 0..RandMax} = min_..Larger(min_, max_)
  BY <1>1, <1>2, RandomAssumption DEF RandomAssumption
<1>3. ASSUME min_ >= 0
      PROVE  {Uint32Range(min_, max_, r) : r \in 0..RandMax}
               = Smaller(min_, RandMax)..Smaller(Larger(min_, max_), RandMax)
  <2>1. PICK a, b : a = Smaller(min_, RandMax) /\ b = Smaller(max_, RandMax)
    OBVIOUS
  <2>2. a \in Int /\ b \in Int /\ b - a < RandMax + 1
        /\ Larger(a, b) = Smaller(Larger(min_, max_), RandMax)
    BY <1>3, <2>1, RandomAssumption DEF RandomAssumption, Smaller, Larger
  <2>3. {Uint32Range(min_, max_, r) : r \in 0..RandMax} = {Int32Range(a, b, r) : r \in 0..RandMax}
    BY <2>1 DEF Uint32Range
  <2>4. {Int32Range(a, b, r) : r \in 0..RandMax} = a..Larger(a, b)
    BY <1>1, <2>2
  <2>5. {Uint32Range(min_, max_, r) : r \in 0..RandMax} = a..Smaller(Larger(min_, max_), RandMax)
    BY <2>2, <2>3, <2>4
  <2> QED BY <2>1, <2>5
<1> QED BY <1>2, <1>3 DEF RangeCovered
-----------------------------------------------------------------------------
(* Folds.                                                                  *)

LEMMA MaxOf ==
  ASSUME NEW n \in Nat, NEW s \in SUBSET (1..n), n \in s
  PROVE  Max(s) = n
<1>1. \E x \in s : \A y \in s : x >= y
  OBVIOUS
<1>2. Max(s) \in s /\ \A y \in s : Max(s) >= y
  BY <1>1 DEF Max
<1>3. PICK m : m = Max(s)
  OBVIOUS
<1>4. m \in 1..n /\ m >= n
  BY <1>2, <1>3
<1> QED BY <1>3, <1>4

LEMMA MaxIn ==
  ASSUME NEW n \in Nat, NEW s \in SUBSET (1..n), s # {}
  PROVE  Max(s) \in s
<1> DEFINE Ends_(t) == \E x \in t : \A y \in t : x >= y
<1>1. PICK T : T = {k \in 0..n : \A t \in SUBSET (1..k) : t # {} => Ends_(t)}
  OBVIOUS
<1>2. 0 \in T
  <2>1. 1..0 = {} /\ 0 \in 0..n
    OBVIOUS
  <2>2. \A t \in SUBSET (1..0) : t = {}
    BY <2>1
  <2> QED BY <1>1, <2>1, <2>2
<1>3. ASSUME NEW k \in T, k < n PROVE k + 1 \in T
  <2>1. k \in 0..n /\ k + 1 \in 0..n /\ \A t \in SUBSET (1..k) : t # {} => Ends_(t)
    BY <1>1, <1>3
  <2>2. ASSUME NEW t \in SUBSET (1..(k + 1)), t # {} PROVE Ends_(t)
    <3>1. CASE k + 1 \in t
      <4>1. \A y \in t : k + 1 >= y
        BY <2>1
      <4> QED BY <3>1, <4>1
    <3>2. CASE k + 1 \notin t
      <4>1. t \in SUBSET (1..k)
        BY <2>1, <3>2
      <4> QED BY <2>1, <2>2, <4>1
    <3> QED BY <3>1, <3>2
  <2> QED BY <1>1, <2>1, <2>2
<1>4. T = 0..n
  BY <1>1, <1>2, <1>3, Along
<1>5. Ends_(s)
  <2>1. n \in T
    BY <1>4
  <2> QED BY <1>1, <2>1
<1> QED BY <1>5 DEF Max

\* A fold goes through the sets of places down from the highest one: the function that it
\* is defined by exists,
Folded(iter, n, base, F) ==
  \A s \in SUBSET (1..n) :
    iter[s] = IF s = {} THEN base ELSE F[<<Max(s), iter[s \ {Max(s)}]>>]

LEMMA FoldExists ==
  ASSUME NEW n \in Nat, NEW V, NEW base \in V, NEW F \in [(1..n) \X V -> V]
  PROVE  \E iter \in [SUBSET (1..n) -> V] : Folded(iter, n, base, F)
<1> DEFINE Made_(k) == \E iter \in [SUBSET (1..k) -> V] : Folded(iter, k, base, F)
           T == {k \in 0..n : Made_(k)}
<1>1. 0 \in T
  <2>1. PICK iter : iter = [s \in SUBSET (1..0) |-> base]
    OBVIOUS
  <2>2. 1..0 = {} /\ 0 \in 0..n
    OBVIOUS
  <2>3. iter \in [SUBSET (1..0) -> V] /\ Folded(iter, 0, base, F)
    BY <2>1, <2>2 DEF Folded
  <2> QED BY <2>2, <2>3
<1>2. ASSUME NEW k \in T, k < n PROVE k + 1 \in T
  <2>1. PICK iter \in [SUBSET (1..k) -> V] : Folded(iter, k, base, F)
    OBVIOUS
  <2>2. k \in Nat /\ k + 1 \in 0..n /\ k + 1 \in 1..n
    BY <1>2
  <2>3. PICK next : next = [s \in SUBSET (1..(k + 1)) |->
                             IF k + 1 \in s THEN F[<<k + 1, iter[s \ {k + 1}]>>] ELSE iter[s]]
    OBVIOUS
  <2>4. ASSUME NEW s \in SUBSET (1..(k + 1))
        PROVE  /\ next[s] \in V
               /\ next[s] = IF s = {} THEN base ELSE F[<<Max(s), next[s \ {Max(s)}]>>]
    <3>1. CASE k + 1 \in s
      <4>1. s \ {k + 1} \in SUBSET (1..k) /\ s \ {k + 1} \in SUBSET (1..(k + 1))
        BY <2>2
      <4>2. Max(s) = k + 1
        BY <2>2, <3>1, MaxOf
      <4>3. next[s] = F[<<k + 1, iter[s \ {k + 1}]>>] /\ next[s \ {k + 1}] = iter[s \ {k + 1}]
        BY <2>3, <3>1, <4>1
      <4>4. iter[s \ {k + 1}] \in V
        BY <4>1
      <4> QED BY <2>2, <3>1, <4>2, <4>3, <4>4
    <3>2. CASE k + 1 \notin s
      <4>1. s \in SUBSET (1..k)
        BY <2>2, <3>2
      <4>2. next[s] = iter[s]
        BY <2>3, <3>2
      <4>3. iter[s] \in V
        BY <4>1
      <4>4. CASE s = {}
        BY <2>1, <4>1, <4>2, <4>3, <4>4 DEF Folded
      <4>5. CASE s # {}
        <5>1. s \ {Max(s)} \in SUBSET (1..k) /\ k + 1 \notin s \ {Max(s)}
          BY <2>2, <3>2, <4>1
        <5>2. next[s \ {Max(s)}] = iter[s \ {Max(s)}]
          BY <2>3, <5>1
        <5>3. iter[s] = F[<<Max(s), iter[s \ {Max(s)}]>>]
          BY <2>1, <4>1, <4>5 DEF Folded
        <5> QED BY <4>2, <4>3, <4>5, <5>2, <5>3
      <4> QED BY <4>4, <4>5
    <3> QED BY <3>1, <3>2
  <2>5. next \in [SUBSET (1..(k + 1)) -> V] /\ Folded(next, k + 1, base, F)
    BY <2>3, <2>4 DEF Folded
  <2> QED BY <2>2, <2>5
<1>3. T = 0..n
  <2> HIDE DEF T
  <2>1. T \in SUBSET (0..n)
    BY DEF T
  <2> QED BY <1>1, <1>2, <2>1, Along
<1> QED BY <1>3

\* there is no other, and it gives the elements one after the other.
FoldedIn(fold, n, V, base, F) ==
  /\ fold[{}] = base
  /\ \A s \in SUBSET (1..n) :
       s # {} /\ fold[s \ {Max(s)}] \in V => fold[s] = F[<<Max(s), fold[s \ {Max(s)}]>>]

EndOf(fold, n, V, base, F) ==
  \E r \in [0..n -> V] : Chained(r, n, base, F) /\ fold[1..n] = r[n]

LEMMA FoldIs ==
  ASSUME NEW n \in Nat, NEW V, NEW base \in V, NEW F \in [(1..n) \X V -> V],
         NEW fold, FoldedIn(fold, n, V, base, F)
  PROVE  EndOf(fold, n, V, base, F)
<1>0. PICK iter \in [SUBSET (1..n) -> V] : Folded(iter, n, base, F)
  BY FoldExists
<1>1. PICK r : r = [i \in 0..n |-> iter[1..i]]
  OBVIOUS
<1>2. r \in [0..n -> V]
  BY <1>0, <1>1
<1>3. r[0] = base
  <2>1. 1..0 = {} /\ 0 \in 0..n
    OBVIOUS
  <2> QED BY <1>0, <1>1, <2>1 DEF Folded
<1>4. ASSUME NEW i \in 1..n PROVE r[i] = F[<<i, r[i - 1]>>]
  <2>1. 1..i \in SUBSET (1..n) /\ i \in 1..i /\ i \in 0..n /\ i - 1 \in 0..n
    OBVIOUS
  <2>2. Max(1..i) = i
    BY <2>1, MaxOf
  <2>3. (1..i) \ {i} = 1..(i - 1)
    OBVIOUS
  <2>4. PICK s \in SUBSET (1..n) : s = 1..i
    BY <2>1
  <2>5. iter[s] = F[<<i, iter[s \ {i}]>>]
    BY <1>0, <2>1, <2>2, <2>4 DEF Folded
  <2> QED BY <1>1, <2>1, <2>3, <2>4, <2>5
<1>5. \A k \in 0..n : fold[1..k] = iter[1..k]
  <2>1. PICK T : T = {k \in 0..n : fold[1..k] = iter[1..k]}
    OBVIOUS
  <2>2. 0 \in T
    <3>1. 1..0 = {} /\ 0 \in 0..n
      OBVIOUS
    <3> QED BY <1>0, <2>1, <3>1 DEF Folded, FoldedIn
  <2>3. ASSUME NEW k \in T, k < n PROVE k + 1 \in T
    <3>1. k \in 0..n /\ k + 1 \in 0..n /\ fold[1..k] = iter[1..k]
      BY <2>1, <2>3
    <3>2. PICK s \in SUBSET (1..n) : s = 1..(k + 1)
      BY <3>1
    <3>3. s # {} /\ k + 1 \in s /\ s \ {k + 1} = 1..k /\ s \in SUBSET (1..(k + 1))
      <4>1. k + 1 \in 1..(k + 1) /\ (1..(k + 1)) \ {k + 1} = 1..k
        BY <3>1
      <4> QED BY <3>2, <4>1
    <3>4. Max(s) = k + 1
      BY <3>1, <3>3, MaxOf
    <3>5. iter[1..k] \in V
      BY <1>0, <3>1
    <3>6. fold[s] = F[<<k + 1, fold[1..k]>>]
      BY <3>1, <3>3, <3>4, <3>5 DEF FoldedIn
    <3>7. iter[s] = F[<<k + 1, iter[1..k]>>]
      BY <1>0, <3>3, <3>4 DEF Folded
    <3> QED BY <2>1, <3>1, <3>2, <3>6, <3>7
  <2>4. T = 0..n
    BY <2>1, <2>2, <2>3, Along
  <2> QED BY <2>1, <2>4
<1>6. fold[1..n] = r[n]
  BY <1>1, <1>5
<1> QED BY <1>2, <1>3, <1>4, <1>6 DEF Chained, EndOf

-----------------------------------------------------------------------------
(* Rules.                                                                  *)

LEMMA GoodFieldsAre ==
  ASSUME NEW X, NEW fields \in Seq(X)
  PROVE  /\ GoodFields(fields) \in 0..Len(fields)
         /\ \A i \in 1..GoodFields(fields) : fields[i] # Bad
<1>1. PICK n \in Nat : n = Len(fields)
  OBVIOUS
<1> DEFINE Good_(k) == /\ \A i \in 1..k : fields[i] # Bad
                       /\ k = n \/ fields[k + 1] = Bad
<1>2. \E k \in 0..n : Good_(k)
  <2>1. SUFFICES ASSUME \A k \in 0..n : ~Good_(k) PROVE FALSE
    OBVIOUS
  <2>2. PICK T : T = {k \in 0..n : \A i \in 1..k : fields[i] # Bad}
    OBVIOUS
  <2>3. 0 \in T
    BY <2>2
  <2>4. ASSUME NEW k \in T, k < n PROVE k + 1 \in T
    <3>1. k \in 0..n /\ fields[k + 1] # Bad /\ k + 1 \in 0..n
      BY <2>1, <2>2, <2>4
    <3>2. \A i \in 1..(k + 1) : i \in 1..k \/ i = k + 1
      BY <3>1
    <3> QED BY <2>2, <3>1, <3>2
  <2>5. T = 0..n
    BY <2>2, <2>3, <2>4, Along
  <2>6. n \in T
    BY <2>5
  <2> QED BY <2>1, <2>2, <2>6
<1>3. GoodFields(fields) \in 0..n /\ Good_(GoodFields(fields))
  BY <1>1, <1>2 DEF GoodFields
<1> QED BY <1>1, <1>3

\* What the loop may have made of the lines of a file.
RulesOf(file) == {Rule(file[i], c) : i \in DOMAIN file, c \in Nat}
MadeOf(file, X) ==
  [failed : BOOLEAN, send : X \cup {0}, recv : X \cup {0}, next_io_service : Nat,
   proxies : Seq(RulesOf(file)), endpoints : SUBSET RulesOf(file)]

NextService(c) == IF c + 1 = pool_size THEN 0 ELSE c + 1

TakenBy(made, line) ==
  \/ line.fields[1] \in BusyPorts
  \/ \E p \in Range(made.proxies) : p.src_port = line.fields[1]

\* One turn of the loop, by the kind of its line.
Turned(made, after, line) ==
  /\ WellFormed(line) => after.next_io_service = NextService(made.next_io_service)
  /\ ~WellFormed(line) => after.next_io_service = made.next_io_service
  /\ IF WellFormed(line) /\ line.proto = "tcp" /\ ~TakenBy(made, line)
     THEN after.proxies = Append(made.proxies, Rule(line, made.next_io_service))
     ELSE after.proxies = made.proxies
  /\ IF WellFormed(line) /\ line.proto = "udp"
     THEN after.endpoints = Added(made.endpoints, Rule(line, made.next_io_service))
     ELSE after.endpoints = made.endpoints
  /\ line.proto = "ip" /\ GoodFields(line.fields) >= 2 =>
       after.send = line.fields[1] /\ after.recv = line.fields[2]
  /\ line.proto # "ip" => after.send = made.send /\ after.recv = made.recv

LEMMA TurnOfLoop ==
  ASSUME NEW P, NEW X, NEW file \in Seq([proto : P, fields : Seq(X)]),
         NEW i \in DOMAIN file, NEW before \in MadeOf(file, X)
  PROVE  /\ ReadLine(before, file[i]) \in MadeOf(file, X)
         /\ Turned(before, ReadLine(before, file[i]), file[i])
<1>1. PICK line \in [proto : P, fields : Seq(X)] : line = file[i]
  <2>1. PICK Line_ : Line_ = [proto : P, fields : Seq(X)]
    OBVIOUS
  <2>2. file \in Seq(Line_)
    BY <2>1
  <2>3. file[i] \in Line_
    BY <2>2
  <2> QED BY <2>1, <2>3
<1>2. PICK made \in MadeOf(file, X) : made = Cleared(before)
  BY DEF Cleared, MadeOf
<1>3. /\ made.failed = FALSE /\ made.send = before.send /\ made.recv = before.recv
      /\ made.next_io_service = before.next_io_service
      /\ made.proxies = before.proxies /\ made.endpoints = before.endpoints
  BY <1>2 DEF Cleared, MadeOf
<1>4. PICK read : read = CASE line.proto = "ip"  -> IpLine(made, line.fields)
                           [] line.proto = "tcp" -> TcpLine(made, line)
                           [] line.proto = "udp" -> UdpLine(made, line)
                           [] OTHER -> made
  OBVIOUS
<1>5. ReadLine(before, line) = IF line.proto = "comment" THEN before
                               ELSE [read EXCEPT !.failed = @ \/ Spent(line)]
  BY <1>2, <1>3, <1>4 DEF ReadLine
<1>6. Spent(line) \in BOOLEAN
  BY DEF Spent
<1>7. /\ GoodFields(line.fields) \in 0..Len(line.fields)
      /\ \A k \in 1..GoodFields(line.fields) : line.fields[k] # Bad
      /\ Len(line.fields) \in Nat
  BY GoodFieldsAre
<1>8. \A c \in Nat : Rule(line, c) \in RulesOf(file)
  BY <1>1 DEF RulesOf
<1>9. PICK c \in Nat, q \in Seq(RulesOf(file)), E \in SUBSET RulesOf(file) :
        c = made.next_io_service /\ q = made.proxies /\ E = made.endpoints
  BY DEF MadeOf
<1>10. NextService(c) \in Nat
  BY DEF NextService
<1>11. GetIoService(made) = [made EXCEPT !.next_io_service = NextService(c)]
  BY <1>9 DEF GetIoService, NextService, MadeOf
<1>12. read \in MadeOf(file, X) /\ Turned(made, read, line)
  <2>1. CASE line.proto = "ip"
    <3>1. read = IpLine(made, line.fields)
      BY <1>4, <2>1
    <3>2. \A k \in 1..Len(line.fields) : Value(line.fields[k]) \in X \cup {0}
      BY DEF Value
    <3>3. /\ Len(line.fields) >= 1 => Value(line.fields[1]) \in X \cup {0}
          /\ Len(line.fields) >= 2 => Value(line.fields[2]) \in X \cup {0}
      BY <1>7, <3>2
    <3>4. /\ read \in MadeOf(file, X) /\ read.proxies = q /\ read.endpoints = E
          /\ read.next_io_service = c
      BY <1>9, <3>1, <3>3 DEF IpLine, MadeOf
    <3>5. ASSUME GoodFields(line.fields) >= 2
          PROVE  read.send = line.fields[1] /\ read.recv = line.fields[2]
      <4>1. /\ Len(line.fields) >= 2 /\ Value(line.fields[1]) = line.fields[1]
            /\ Value(line.fields[2]) = line.fields[2]
        BY <1>7, <3>5 DEF Value
      <4>2. Len(line.fields) >= 1 /\ GoodFields(line.fields) >= 1
        BY <1>7, <3>5
      <4> QED BY <3>1, <3>5, <4>1, <4>2 DEF IpLine, MadeOf
    <3>6. ~WellFormed(line)
      BY <2>1 DEF WellFormed
    <3> QED BY <1>9, <2>1, <3>4, <3>5, <3>6 DEF Turned
  <2>2. CASE ~WellFormed(line) /\ line.proto # "ip"
    <3>1. read = made
      <4>1. line.proto \in {"tcp", "udp"} => ~(GoodFields(line.fields) >= 3)
        BY <2>2 DEF WellFormed
      <4>2. line.proto \in {"tcp", "udp"} => GoodFields(line.fields) < 3
        BY <1>7, <4>1
      <4> QED BY <1>4, <2>2, <4>2 DEF TcpLine, UdpLine
    <3> QED BY <1>9, <2>2, <3>1 DEF Turned
  <2>3. CASE WellFormed(line) /\ line.proto = "tcp"
    <3>1. ~(GoodFields(line.fields) < 3)
      BY <1>7, <2>3 DEF WellFormed
    <3>2. Rule(line, c).src_port = line.fields[1]
      BY DEF Rule
    <3>3. read = [GetIoService(made) EXCEPT
                    !.proxies = IF TakenBy(made, line) THEN @ ELSE Append(@, Rule(line, c))]
      BY <1>4, <1>9, <2>3, <3>1, <3>2 DEF TcpLine, TakenBy
    <3>4. read = [made EXCEPT !.next_io_service = NextService(c),
                    !.proxies = IF TakenBy(made, line) THEN q ELSE Append(q, Rule(line, c))]
      BY <1>9, <1>11, <3>3 DEF MadeOf
    <3>5. (IF TakenBy(made, line) THEN q ELSE Append(q, Rule(line, c))) \in Seq(RulesOf(file))
      BY <1>8
    <3>6. /\ read \in MadeOf(file, X) /\ read.next_io_service = NextService(c)
          /\ read.proxies = IF TakenBy(made, line) THEN q ELSE Append(q, Rule(line, c))
          /\ read.endpoints = E /\ read.send = made.send /\ read.recv = made.recv
      BY <1>9, <1>10, <3>4, <3>5 DEF MadeOf
    <3> QED BY <1>9, <2>3, <3>6 DEF Turned
  <2>4. CASE WellFormed(line) /\ line.proto = "udp"
    <3>1. ~(GoodFields(line.fields) < 3)
      BY <1>7, <2>4 DEF WellFormed
    <3>2. read = [GetIoService(made) EXCEPT !.endpoints = Added(@, Rule(line, c))]
      BY <1>4, <1>9, <2>4, <3>1 DEF UdpLine
    <3>3. read = [made EXCEPT !.next_io_service = NextService(c),
                    !.endpoints = Added(E, Rule(line, c))]
      BY <1>9, <1>11, <3>2 DEF MadeOf
    <3>4. Added(E, Rule(line, c)) \in SUBSET RulesOf(file)
      BY <1>8 DEF Added
    <3>5. /\ read \in MadeOf(file, X) /\ read.next_io_service = NextService(c)
          /\ read.endpoints = Added(E, Rule(line, c)) /\ read.proxies = q
          /\ read.send = made.send /\ read.recv = made.recv
      BY <1>9, <1>10, <3>3, <3>4 DEF MadeOf
    <3> QED BY <1>9, <2>4, <3>5 DEF Turned
  <2> QED BY <2>1, <2>2, <2>3, <2>4 DEF WellFormed
<1>13. Turned(before, read, line)
  BY <1>3, <1>12 DEF Turned, TakenBy
<1>14. CASE line.proto = "comment"
  <2>1. ReadLine(before, line) = before /\ ~WellFormed(line)
    BY <1>5, <1>14 DEF WellFormed
  <2> QED BY <1>1, <1>14, <2>1 DEF Turned
<1>15. CASE line.proto # "comment"
  <2>1. PICK after : after = [read EXCEPT !.failed = @ \/ Spent(line)]
    OBVIOUS
  <2>2. /\ after \in MadeOf(file, X) /\ after.next_io_service = read.next_io_service
        /\ after.proxies = read.proxies /\ after.endpoints = read.endpoints
        /\ after.send = read.send /\ after.recv = read.recv
    BY <1>6, <1>12, <2>1 DEF MadeOf
  <2>3. Turned(before, after, line)
    BY <1>13, <2>2 DEF Turned
  <2> QED BY <1>1, <1>5, <1>15, <2>1, <2>2, <2>3
<1> QED BY <1>14, <1>15

\* The loop, one line after the other.
LoopMade(r, file) ==
  /\ r[0] = Empty
  /\ \A i \in 1..Len(file) : r[i] = ReadLine(r[i - 1], file[i])
  /\ InitRules(file) = r[Len(file)]

LEMMA LoopChains ==
  ASSUME NEW P, NEW X, NEW file \in Seq([proto : P, fields : Seq(X)])
  PROVE  \E r \in [0..Len(file) -> MadeOf(file, X)] : LoopMade(r, file)
<1>1. PICK n \in Nat : n = Len(file)
  OBVIOUS
<1>2. DOMAIN file = 1..n
  BY <1>1
<1>3. PICK V : V = MadeOf(file, X)
  OBVIOUS
<1>4. Empty \in V
  <2>1. <<>> \in Seq(RulesOf(file)) /\ {} \in SUBSET RulesOf(file)
    OBVIOUS
  <2> QED BY <1>3, <2>1 DEF Empty, MadeOf
<1>5. \A i \in 1..n, m \in V : ReadLine(m, file[i]) \in V
  BY <1>2, <1>3, TurnOfLoop
<1>6. PICK F : F = [p \in (1..n) \X V |-> ReadLine(p[2], file[p[1]])]
  OBVIOUS
<1>7. F \in [(1..n) \X V -> V] /\ \A i \in 1..n, m \in V : F[<<i, m>>] = ReadLine(m, file[i])
  BY <1>5, <1>6
<1>8. PICK iter \in [SUBSET (1..n) -> V] : Folded(iter, n, Empty, F)
  BY <1>4, <1>7, FoldExists
<1> DEFINE Step_(p) == [s \in SUBSET (1..n) |->
                          IF s = {} THEN Empty ELSE ReadLine(p[s \ {Max(s)}], file[Max(s)])]
<1>9. ASSUME NEW s \in SUBSET (1..n), s # {} PROVE Max(s) \in 1..n
  <2>1. Max(s) \in s
    BY <1>9, MaxIn
  <2> QED BY <2>1
<1>10. iter = Step_(iter)
  <2>1. ASSUME NEW s \in SUBSET (1..n)
        PROVE  iter[s] = IF s = {} THEN Empty ELSE ReadLine(iter[s \ {Max(s)}], file[Max(s)])
    <3>1. CASE s = {}
      BY <1>8, <3>1 DEF Folded
    <3>2. CASE s # {}
      <4>1. Max(s) \in 1..n /\ iter[s \ {Max(s)}] \in V
        BY <1>9, <3>2
      <4>2. iter[s] = F[<<Max(s), iter[s \ {Max(s)}]>>]
        BY <1>8, <3>2 DEF Folded
      <4> QED BY <1>7, <3>2, <4>1, <4>2
    <3> QED BY <3>1, <3>2
  <2> QED BY <2>1
<1>11. PICK fold : fold = Step_(fold) /\ fold = (CHOOSE p : p = Step_(p))
  <2> HIDE DEF Step_
  <2> QED BY <1>10
<1>12. InitRules(file) = fold[1..n]
  BY <1>2, <1>11 DEF InitRules, FoldLeft, MapThenFoldSet
<1>13. PICK r \in [0..n -> V] : Chained(r, n, Empty, F) /\ fold[1..n] = r[n]
  <2>1. \A s \in SUBSET (1..n) :
          fold[s] = IF s = {} THEN Empty ELSE ReadLine(fold[s \ {Max(s)}], file[Max(s)])
    BY <1>11
  <2>2. fold[{}] = Empty
    BY <2>1
  <2>3. ASSUME NEW s \in SUBSET (1..n), s # {}, fold[s \ {Max(s)}] \in V
        PROVE  fold[s] = F[<<Max(s), fold[s \ {Max(s)}]>>]
    BY <1>7, <1>9, <2>1, <2>3
  <2>4. FoldedIn(fold, n, V, Empty, F)
    BY <2>2, <2>3 DEF FoldedIn
  <2>5. EndOf(fold, n, V, Empty, F)
    BY <1>4, <1>7, <2>4, FoldIs
  <2> QED BY <2>5 DEF EndOf
<1>14. ASSUME NEW i \in 1..n PROVE r[i] = ReadLine(r[i - 1], file[i])
  <2>1. r[i - 1] \in V
    BY <1>13
  <2> QED BY <1>7, <1>13, <2>1 DEF Chained
<1> QED BY <1>1, <1>3, <1>12, <1>13, <1>14 DEF LoopMade, Chained

LEMMA Remains ==
  ASSUME NEW c \in Int, NEW m \in Nat \ {0}, NEW q \in Int, NEW d \in 0..(m - 1), c = m * q + d
  PROVE  c % m = d
<1>1. PICK b \in Int, e \in Int : b = c \div m /\ e = c % m
  OBVIOUS
<1>2. c = m * b + e /\ e \in 0..(m - 1)
  BY <1>1
<1>3. ASSUME NEW x \in Int, NEW y \in Int, x < y PROVE m * y >= m * x + m
  <2>1. PICK z \in Nat : z = y - x - 1
    BY <1>3
  <2>2. m * z \in Nat
    OBVIOUS
  <2>3. y = x + z + 1
    BY <2>1
  <2>4. m * (x + z + 1) = m * x + m * z + m
    OBVIOUS
  <2>5. m * x \in Int
    OBVIOUS
  <2> QED BY <2>2, <2>3, <2>4, <2>5
<1>4. ~(q < b) /\ ~(b < q)
  <2>1. m * q \in Int /\ m * b \in Int
    OBVIOUS
  <2>2. PICK u \in Int, v \in Int : u = m * q /\ v = m * b
    BY <2>1
  <2>3. u + d = v + e
    BY <1>2, <2>2
  <2>4. CASE q < b
    <3>1. v >= u + m
      BY <1>3, <2>2, <2>4
    <3> QED BY <1>2, <2>3, <3>1
  <2>5. CASE b < q
    <3>1. u >= v + m
      BY <1>3, <2>2, <2>5
    <3> QED BY <1>2, <2>3, <3>1
  <2> QED BY <2>4, <2>5
<1>5. q = b
  BY <1>4
<1>6. d = e
  <2>1. PICK u \in Int : u = m * q
    OBVIOUS
  <2>2. u + d = u + e
    BY <1>2, <1>5, <2>1
  <2> QED BY <1>2, <2>1, <2>2
<1> QED BY <1>1, <1>6

LEMMA Dealt ==
  ASSUME NEW c \in Nat
  PROVE  NextService(c % pool_size) = (c + 1) % pool_size
<1>1. PICK m \in Nat \ {0} : m = pool_size
  BY RuleFileAssumption DEF RuleFileAssumption
<1>2. PICK q \in Int, d \in Int : q = c \div m /\ d = c % m
  BY <1>1
<1>3. c = m * q + d /\ d \in 0..(m - 1)
  BY <1>2
<1>4. CASE d + 1 < m
  <2>1. c + 1 = m * q + (d + 1) /\ d + 1 \in 0..(m - 1)
    BY <1>3, <1>4
  <2>2. \A n \in Int, e \in 0..(m - 1) : n = m * q + e => n % m = e
    BY Remains
  <2>3. c + 1 \in Int
    OBVIOUS
  <2>4. (c + 1) % m = d + 1
    BY <2>1, <2>2, <2>3
  <2> QED BY <1>1, <1>2, <1>4, <2>4 DEF NextService
<1>5. CASE d + 1 = m
  <2>1. c + 1 = m * (q + 1) + 0 /\ 0 \in 0..(m - 1) /\ q + 1 \in Int
    BY <1>3, <1>5
  <2>2. \A p \in Int, n \in Int, e \in 0..(m - 1) : n = m * p + e => n % m = e
    BY Remains
  <2>3. c + 1 \in Int
    OBVIOUS
  <2>4. (c + 1) % m = 0
    BY <2>1, <2>2, <2>3
  <2> QED BY <1>1, <1>2, <1>5, <2>4 DEF NextService
<1> QED BY <1>3, <1>4, <1>5

LEMMA LeastIn ==
  ASSUME NEW s \in SUBSET Nat, s # {}
  PROVE  \E x \in s : \A y \in s : x <= y
<1> DEFINE Less == OpToRel(<, Nat)
<1>1. IsWellFoundedOn(Less, Nat)
  BY NatLessThanWellFounded
<1> HIDE DEF Less
<1>2. PICK x \in s : \A y \in s : <<y, x>> \notin Less
  BY <1>1, WFMin
<1>3. \A y \in s : ~(y < x)
  BY <1>2 DEF Less, OpToRel
<1> QED BY <1>3

\* The place of a number in a set that grows at its end.
LEMMA Places ==
  ASSUME NEW k \in Nat, NEW S \in SUBSET (1..k)
  PROVE  /\ IsFiniteSet(S) /\ Cardinality(S) \in Nat
         /\ \A i \in S : Place(S, i) \in 1..Cardinality(S)
         /\ Cardinality(S \cup {k + 1}) = Cardinality(S) + 1
         /\ Place(S \cup {k + 1}, k + 1) = Cardinality(S) + 1
         /\ \A i \in S : Place(S \cup {k + 1}, i) = Place(S, i)
<1>1. IsFiniteSet(1..k)
  BY FS_Interval
<1>2. IsFiniteSet(S) /\ Cardinality(S) \in Nat
  BY <1>1, FS_Subset, FS_CardinalityType
<1>3. ASSUME NEW i \in S PROVE Place(S, i) \in 1..Cardinality(S)
  <2>1. PICK T : T = {j \in S : j <= i}
    OBVIOUS
  <2>2. i \in T /\ T \subseteq S
    BY <2>1
  <2>3. IsFiniteSet(T) /\ Cardinality(T) \in Nat /\ Cardinality(T) <= Cardinality(S)
    BY <1>2, <2>2, FS_Subset, FS_CardinalityType
  <2>4. Cardinality(T) # 0
    BY <2>2, <2>3, FS_EmptySet
  <2> QED BY <1>2, <2>1, <2>3, <2>4 DEF Place
<1>4. k + 1 \notin S
  OBVIOUS
<1>5. Cardinality(S \cup {k + 1}) = Cardinality(S) + 1
  BY <1>2, <1>4, FS_AddElement
<1>6. {j \in S \cup {k + 1} : j <= k + 1} = S \cup {k + 1}
  <2>1. \A j \in S : j <= k + 1
    OBVIOUS
  <2>2. k + 1 <= k + 1
    OBVIOUS
  <2> QED BY <2>1, <2>2
<1>7. \A i \in S : {j \in S \cup {k + 1} : j <= i} = {j \in S : j <= i}
  OBVIOUS
<1> QED BY <1>2, <1>3, <1>5, <1>6, <1>7 DEF Place

\* The loop as its turns, and what it has made of the first k lines.
LinesOf(P, X) == Seq([proto : P, fields : Seq(X)])

Turns(r, file, X) ==
  /\ r \in [0..Len(file) -> MadeOf(file, X)] /\ r[0] = Empty
  /\ \A i \in 1..Len(file) : Turned(r[i - 1], r[i], file[i])

LEMMA LoopTurns ==
  ASSUME NEW P, NEW X, NEW file \in LinesOf(P, X)
  PROVE  \E r : Turns(r, file, X) /\ InitRules(file) = r[Len(file)]
<1>1. PICK r \in [0..Len(file) -> MadeOf(file, X)] : LoopMade(r, file)
  BY LoopChains DEF LinesOf
<1>2. ASSUME NEW i \in 1..Len(file) PROVE Turned(r[i - 1], r[i], file[i])
  <2>1. i \in DOMAIN file /\ r[i] = ReadLine(r[i - 1], file[i])
    BY <1>1, <1>2 DEF LoopMade, LinesOf
  <2>2. i - 1 \in 0..Len(file)
    BY DEF LinesOf
  <2>3. r[i - 1] \in MadeOf(file, X)
    BY <1>1, <2>2
  <2>4. file \in Seq([proto : P, fields : Seq(X)])
    BY DEF LinesOf
  <2>5. Turned(r[i - 1], ReadLine(r[i - 1], file[i]), file[i])
    BY <2>1, <2>3, <2>4, TurnOfLoop
  <2> QED BY <2>1, <2>5
<1> QED BY <1>1, <1>2 DEF LoopMade, Turns

\* get_io_service deals the io_services in turn to the lines that are well formed.
Before(file, k) == {j \in 1..k : WellFormed(file[j])}

LEMMA ServicesAreDealt ==
  ASSUME NEW P, NEW X, NEW file \in LinesOf(P, X), NEW r, Turns(r, file, X)
  PROVE  \A i \in 1..Len(file) : WellFormed(file[i]) =>
           Rule(file[i], r[i - 1].next_io_service) = Listed(file, i)
<1>1. PICK n \in Nat : n = Len(file)
  BY DEF LinesOf
<1>2. PICK T : T = {k \in 0..n :
        r[k].next_io_service = Cardinality(Before(file, k)) % pool_size}
  OBVIOUS
<1>3. 0 \in T
  <2>1. Before(file, 0) = {} /\ 0 \in 0..n
    BY DEF Before
  <2>2. Cardinality(Before(file, 0)) = 0
    BY <2>1, FS_EmptySet
  <2>3. PICK m \in Nat \ {0} : m = pool_size
    BY RuleFileAssumption DEF RuleFileAssumption
  <2>4. 0 = m * 0 + 0 /\ 0 \in 0..(m - 1)
    OBVIOUS
  <2>5. 0 % m = 0
    BY <2>4, Remains
  <2>6. r[0].next_io_service = 0
    BY DEF Turns, Empty
  <2> QED BY <1>2, <2>1, <2>2, <2>3, <2>5, <2>6
<1>4. ASSUME NEW k \in T, k < n PROVE k + 1 \in T
  <2>1. /\ k \in 0..n /\ k + 1 \in 0..n /\ k + 1 \in 1..n
        /\ r[k].next_io_service = Cardinality(Before(file, k)) % pool_size
    BY <1>2, <1>4
  <2>2. Turned(r[k], r[k + 1], file[k + 1])
    <3>1. (k + 1) - 1 = k
      BY <2>1
    <3> QED BY <1>1, <2>1, <3>1 DEF Turns
  <2>3. Before(file, k) \in SUBSET (1..k) /\ k \in Nat
    BY <2>1 DEF Before
  <2>4. CASE WellFormed(file[k + 1])
    <3>1. Before(file, k + 1) = Before(file, k) \cup {k + 1}
      BY <2>1, <2>4 DEF Before
    <3>2. /\ Cardinality(Before(file, k)) \in Nat
          /\ Cardinality(Before(file, k + 1)) = Cardinality(Before(file, k)) + 1
      BY <2>3, <3>1, Places
    <3>3. r[k + 1].next_io_service = NextService(r[k].next_io_service)
      BY <2>2, <2>4 DEF Turned
    <3> QED BY <1>2, <2>1, <3>2, <3>3, Dealt
  <2>5. CASE ~WellFormed(file[k + 1])
    <3>1. Before(file, k + 1) = Before(file, k)
      BY <2>1, <2>5 DEF Before
    <3>2. r[k + 1].next_io_service = r[k].next_io_service
      BY <2>2, <2>5 DEF Turned
    <3> QED BY <1>2, <2>1, <3>1, <3>2
  <2> QED BY <2>4, <2>5
<1>5. T = 0..n
  BY <1>2, <1>3, <1>4, Along
<1>6. ASSUME NEW i \in 1..n
      PROVE  Rule(file[i], r[i - 1].next_io_service) = Listed(file, i)
  <2>1. i - 1 \in T
    BY <1>5
  <2> QED BY <1>2, <2>1 DEF Listed, Before
<1> QED BY <1>1, <1>6

\* TcpProxy::start has made a proxy for the first line with each port that is free.
TcpOf(file) ==
  {i \in Rules(file, "tcp") :
     /\ Port(file, i) \notin BusyPorts
     /\ \A j \in Rules(file, "tcp") : Port(file, j) = Port(file, i) => i <= j}
TcpTo(file, k) == {i \in TcpOf(file) : i <= k}

ProxiesTo(proxies, file, k) ==
  /\ Len(proxies) = Cardinality(TcpTo(file, k))
  /\ \A i \in TcpTo(file, k) : proxies[Place(TcpTo(file, k), i)] = Listed(file, i)
  /\ \A p \in Range(proxies) : \E i \in TcpTo(file, k) : p = Listed(file, i)

LEMMA ProxyOfLine ==
  ASSUME NEW P, NEW X, NEW file \in LinesOf(P, X), NEW r, Turns(r, file, X),
         NEW k \in Nat, k < Len(file), ProxiesTo(r[k].proxies, file, k)
  PROVE  ProxiesTo(r[k + 1].proxies, file, k + 1)
<1>1. PICK n \in Nat : n = Len(file)
  BY DEF LinesOf
<1>2. k + 1 \in 1..n /\ k \in 0..n /\ (k + 1) - 1 = k /\ DOMAIN file = 1..n
  BY <1>1 DEF LinesOf
<1>3. Turned(r[k], r[k + 1], file[k + 1])
  BY <1>1, <1>2 DEF Turns
<1>4. r[k] \in MadeOf(file, X)
  BY <1>1, <1>2 DEF Turns
<1>5. PICK q \in Seq(RulesOf(file)) : q = r[k].proxies
  BY <1>4 DEF MadeOf
<1>6. PICK S : S = TcpTo(file, k)
  OBVIOUS
<1>7. TcpOf(file) \in SUBSET (1..n) /\ Rules(file, "tcp") \in SUBSET (1..n)
  BY <1>2 DEF TcpOf, Rules
<1>8. S \in SUBSET (1..k)
  BY <1>6, <1>7 DEF TcpTo
<1>9. \A i : Listed(file, i).src_port = Port(file, i)
  BY DEF Listed, Rule, Port
<1>10. CASE WellFormed(file[k + 1]) /\ file[k + 1].proto = "tcp" /\ ~TakenBy(r[k], file[k + 1])
  <2>1. k + 1 \in Rules(file, "tcp") /\ Port(file, k + 1) \notin BusyPorts
    BY <1>2, <1>10 DEF Rules, TakenBy, Port
  <2>2. ASSUME NEW j \in Rules(file, "tcp"), Port(file, j) = Port(file, k + 1), ~(k + 1 <= j)
        PROVE  FALSE
    <3>1. PICK s : s = {l \in Rules(file, "tcp") : Port(file, l) = Port(file, k + 1)}
      OBVIOUS
    <3>2. j \in s /\ s \in SUBSET Nat
      BY <1>7, <2>2, <3>1
    <3>3. PICK x \in s : \A y \in s : x <= y
      BY <3>2, LeastIn
    <3>4. x <= j /\ j <= k /\ x \in Nat /\ j \in Nat
      BY <1>2, <2>2, <3>2, <3>3
    <3>5. x \in S
      BY <1>6, <2>1, <3>1, <3>3, <3>4 DEF TcpTo, TcpOf
    <3>6. q[Place(S, x)] = Listed(file, x) /\ Place(S, x) \in 1..Cardinality(S)
      BY <1>5, <1>6, <1>8, <3>5, Places DEF ProxiesTo
    <3>7. Listed(file, x) \in Range(q)
      BY <1>5, <1>6, <3>6 DEF ProxiesTo, Range
    <3>8. TakenBy(r[k], file[k + 1])
      BY <1>5, <1>9, <3>1, <3>7 DEF TakenBy, Port
    <3> QED BY <1>10, <3>8
  <2>3. k + 1 \in TcpOf(file)
    BY <2>1, <2>2 DEF TcpOf
  <2>4. TcpTo(file, k + 1) = S \cup {k + 1}
    <3>1. \A i \in 1..n : i <= k + 1 <=> i <= k \/ i = k + 1
      BY <1>2
    <3> QED BY <1>6, <1>7, <2>3, <3>1 DEF TcpTo
  <2>5. r[k + 1].proxies = Append(q, Listed(file, k + 1))
    BY <1>1, <1>2, <1>3, <1>5, <1>10, ServicesAreDealt DEF Turned
  <2>6. PICK next \in Seq(RulesOf(file)) : next = Append(q, Listed(file, k + 1))
    <3>1. Rule(file[k + 1], r[k].next_io_service) = Listed(file, k + 1)
      BY <1>1, <1>2, <1>10, ServicesAreDealt
    <3>2. r[k].next_io_service \in Nat
      BY <1>4 DEF MadeOf
    <3>3. Listed(file, k + 1) \in RulesOf(file)
      BY <1>2, <3>1, <3>2 DEF RulesOf
    <3>4. PICK V, rule : V = RulesOf(file) /\ rule = Listed(file, k + 1)
      OBVIOUS
    <3>5. q \in Seq(V)
      BY <3>4
    <3>6. Append(q, rule) \in Seq(V)
      BY <3>3, <3>4, <3>5
    <3> QED BY <3>4, <3>6
  <2>7. /\ Len(next) = Len(q) + 1 /\ next[Len(q) + 1] = Listed(file, k + 1)
        /\ \A i \in 1..Len(q) : next[i] = q[i]
        /\ \A p \in Range(next) : p \in Range(q) \/ p = Listed(file, k + 1)
    BY <2>6 DEF Range
  <2>8. /\ Cardinality(S \cup {k + 1}) = Cardinality(S) + 1
        /\ Place(S \cup {k + 1}, k + 1) = Cardinality(S) + 1
        /\ \A i \in S : /\ Place(S \cup {k + 1}, i) = Place(S, i)
                        /\ Place(S, i) \in 1..Cardinality(S)
    BY <1>8, Places
  <2>9. Len(q) = Cardinality(S)
    BY <1>5, <1>6 DEF ProxiesTo
  <2>10. ASSUME NEW i \in S \cup {k + 1}
         PROVE  next[Place(S \cup {k + 1}, i)] = Listed(file, i)
    <3>1. CASE i = k + 1
      BY <2>7, <2>8, <2>9, <3>1
    <3>2. CASE i \in S
      <4>1. q[Place(S, i)] = Listed(file, i)
        BY <1>5, <1>6, <3>2 DEF ProxiesTo
      <4> QED BY <2>7, <2>8, <2>9, <3>2, <4>1
    <3> QED BY <3>1, <3>2
  <2>11. \A p \in Range(next) : \E i \in S \cup {k + 1} : p = Listed(file, i)
    BY <1>5, <1>6, <2>7 DEF ProxiesTo
  <2> QED BY <2>4, <2>5, <2>6, <2>7, <2>8, <2>9, <2>10, <2>11 DEF ProxiesTo
<1>11. CASE ~(WellFormed(file[k + 1]) /\ file[k + 1].proto = "tcp" /\ ~TakenBy(r[k], file[k + 1]))
  <2>1. r[k + 1].proxies = q
    BY <1>3, <1>5, <1>11 DEF Turned
  <2>2. ASSUME k + 1 \in TcpOf(file) PROVE FALSE
    <3>1. WellFormed(file[k + 1]) /\ file[k + 1].proto = "tcp" /\ Port(file, k + 1) \notin BusyPorts
      BY <2>2 DEF TcpOf, Rules
    <3>2. PICK p \in Range(q) : p.src_port = Port(file, k + 1)
      BY <1>5, <1>11, <3>1 DEF TakenBy, Port
    <3>3. PICK i \in S : p = Listed(file, i)
      BY <1>5, <1>6 DEF ProxiesTo
    <3>4. Port(file, i) = Port(file, k + 1)
      BY <1>9, <3>2, <3>3
    <3>5. i \in Rules(file, "tcp")
      BY <1>6, <3>3 DEF TcpTo, TcpOf
    <3>6. k + 1 <= i
      BY <2>2, <3>4, <3>5 DEF TcpOf
    <3> QED BY <1>8, <3>3, <3>6
  <2>3. TcpTo(file, k + 1) = S
    <3>1. \A i \in 1..n : i <= k + 1 <=> i <= k \/ i = k + 1
      BY <1>2
    <3> QED BY <1>6, <1>7, <2>2, <3>1 DEF TcpTo
  <2> QED BY <1>5, <1>6, <2>1, <2>3 DEF ProxiesTo
<1> QED BY <1>10, <1>11

\* addServerProxy has kept the last of the first k lines with each destination.
UdpTo(file, k) ==
  {i \in Rules(file, "udp") :
     /\ i <= k
     /\ \A j \in Rules(file, "udp") :
          j <= k /\ Listed(file, i).dst_endpoint = Listed(file, j).dst_endpoint => j <= i}
EndpointsTo(file, k) == {Listed(file, i) : i \in UdpTo(file, k)}

LEMMA EndpointOfLine ==
  ASSUME NEW P, NEW X, NEW file \in LinesOf(P, X), NEW r, Turns(r, file, X),
         NEW k \in Nat, k < Len(file), r[k].endpoints = EndpointsTo(file, k)
  PROVE  r[k + 1].endpoints = EndpointsTo(file, k + 1)
<1>1. PICK n \in Nat : n = Len(file)
  BY DEF LinesOf
<1>2. k + 1 \in 1..n /\ k \in 0..n /\ (k + 1) - 1 = k /\ DOMAIN file = 1..n
  BY <1>1 DEF LinesOf
<1>3. Turned(r[k], r[k + 1], file[k + 1])
  BY <1>1, <1>2 DEF Turns
<1>4. PICK U : U = Rules(file, "udp")
  OBVIOUS
<1>5. U \in SUBSET (1..n) /\ \A j \in U : j <= k + 1 <=> j <= k \/ j = k + 1
  BY <1>2, <1>4 DEF Rules
<1>6. CASE WellFormed(file[k + 1]) /\ file[k + 1].proto = "udp"
  <2>1. k + 1 \in U
    BY <1>2, <1>4, <1>6 DEF Rules
  <2>2. r[k + 1].endpoints = Added(EndpointsTo(file, k), Listed(file, k + 1))
    BY <1>1, <1>2, <1>3, <1>6, ServicesAreDealt DEF Turned
  <2>3. UdpTo(file, k + 1) =
          {i \in UdpTo(file, k) : Listed(file, i).dst_endpoint # Listed(file, k + 1).dst_endpoint}
            \cup {k + 1}
    <3>1. \A i \in U : i <= k => ~(k + 1 <= i)
      BY <1>2, <1>5
    <3>2. k + 1 <= k + 1 /\ ~(k + 1 <= k) /\ \A j \in U : j <= k => j <= k + 1
      BY <1>2, <1>5
    <3>3. ASSUME NEW i \in UdpTo(file, k + 1), i # k + 1
          PROVE  /\ i \in UdpTo(file, k)
                 /\ Listed(file, i).dst_endpoint # Listed(file, k + 1).dst_endpoint
      BY <1>4, <1>5, <2>1, <3>1, <3>2, <3>3 DEF UdpTo
    <3>4. k + 1 \in UdpTo(file, k + 1)
      BY <1>4, <1>5, <2>1, <3>2 DEF UdpTo
    <3>5. ASSUME NEW i \in UdpTo(file, k),
                 Listed(file, i).dst_endpoint # Listed(file, k + 1).dst_endpoint
          PROVE  i \in UdpTo(file, k + 1)
      BY <1>4, <1>5, <3>2, <3>5 DEF UdpTo
    <3> QED BY <3>3, <3>4, <3>5
  <2> QED BY <2>2, <2>3 DEF Added, EndpointsTo
<1>7. CASE ~(WellFormed(file[k + 1]) /\ file[k + 1].proto = "udp")
  <2>1. k + 1 \notin U
    BY <1>4, <1>7 DEF Rules
  <2>2. UdpTo(file, k + 1) = UdpTo(file, k)
    BY <1>4, <1>5, <2>1 DEF UdpTo
  <2>3. r[k + 1].endpoints = r[k].endpoints
    BY <1>3, <1>7 DEF Turned
  <2> QED BY <2>2, <2>3 DEF EndpointsTo
<1> QED BY <1>6, <1>7

LEMMA PairIn ==
  ASSUME NEW X, NEW a \in X, NEW b \in X
  PROVE  <<a, b>> \in Seq(X)
  OBVIOUS

\* The limits stay those of the last "ip" line.
LEMMA LimitsOfLine ==
  ASSUME NEW P, NEW X, NEW file \in LinesOf(P, X), NEW r, Turns(r, file, X),
         NEW i \in DOMAIN file, file[i].proto = "ip", GoodFields(file[i].fields) >= 2,
         \A j \in (i + 1)..Len(file) : file[j].proto # "ip"
  PROVE  <<r[Len(file)].send, r[Len(file)].recv>> = SubSeq(file[i].fields, 1, 2)
<1>1. PICK n \in Nat : n = Len(file)
  BY DEF LinesOf
<1>2. DOMAIN file = 1..n /\ i \in 1..n
  BY <1>1 DEF LinesOf
<1>3. PICK fields \in Seq(X) : fields = file[i].fields
  <2>1. PICK Line_ : Line_ = [proto : P, fields : Seq(X)]
    OBVIOUS
  <2>2. file \in Seq(Line_)
    BY <2>1 DEF LinesOf
  <2>3. file[i] \in Line_
    BY <2>2
  <2> QED BY <2>1, <2>3
<1>4. Len(fields) \in Nat /\ Len(fields) >= 2
  <2>1. GoodFields(fields) \in 0..Len(fields)
    BY GoodFieldsAre
  <2> QED BY <1>3, <2>1
<1>5. PICK T : T = {k \in 0..n : k >= i => /\ r[k].send = fields[1] /\ r[k].recv = fields[2]}
  OBVIOUS
<1>6. 0 \in T
  BY <1>2, <1>5
<1>7. ASSUME NEW k \in T, k < n PROVE k + 1 \in T
  <2>1. k \in 0..n /\ k + 1 \in 0..n /\ k + 1 \in 1..n /\ (k + 1) - 1 = k
    BY <1>5, <1>7
  <2>2. Turned(r[k], r[k + 1], file[k + 1])
    BY <1>1, <2>1 DEF Turns
  <2>3. CASE k + 1 = i
    BY <1>3, <1>5, <2>1, <2>2, <2>3 DEF Turned
  <2>4. CASE k + 1 > i
    <3>1. k + 1 \in (i + 1)..Len(file) /\ k >= i
      BY <1>1, <1>2, <2>1, <2>4
    <3>2. file[k + 1].proto # "ip"
      BY <3>1
    <3> QED BY <1>5, <2>1, <2>2, <3>1, <3>2 DEF Turned
  <2>5. CASE k + 1 < i
    BY <1>2, <1>5, <2>1, <2>5
  <2> QED BY <1>2, <2>1, <2>3, <2>4, <2>5
<1>8. T = 0..n
  BY <1>5, <1>6, <1>7, Along
<1>9. r[n].send = fields[1] /\ r[n].recv = fields[2]
  BY <1>2, <1>5, <1>8
<1>10. SubSeq(fields, 1, 2) = <<fields[1], fields[2]>>
  <2>1. 1 \in Int /\ 2 \in Int /\ \A x \in 1..2 : fields[x] \in X
    BY <1>4
  <2>2. \A l \in Int, u \in Int :
          (\A x \in l..u : fields[x] \in X) =>
            /\ SubSeq(fields, l, u) \in Seq(X)
            /\ Len(SubSeq(fields, l, u)) = IF l <= u THEN u - l + 1 ELSE 0
            /\ \A x \in 1..(u - l + 1) : SubSeq(fields, l, u)[x] = fields[l + x - 1]
    BY SubSeqProperties
  <2>3. PICK s \in Seq(X) :
          /\ s = SubSeq(fields, 1, 2) /\ Len(s) = 2
          /\ \A x \in 1..2 : s[x] = fields[x]
    <3>1. PICK l \in Int, u \in Int : l = 1 /\ u = 2
      OBVIOUS
    <3>2. PICK s : s = SubSeq(fields, l, u)
      OBVIOUS
    <3>3. \A x \in l..u : fields[x] \in X
      BY <2>1, <3>1
    <3>4. /\ s \in Seq(X) /\ Len(s) = IF l <= u THEN u - l + 1 ELSE 0
          /\ \A x \in 1..(u - l + 1) : s[x] = fields[l + x - 1]
      BY <2>2, <3>2, <3>3
    <3>5. Len(s) = 2
      BY <3>1, <3>4
    <3>6. \A x \in 1..2 : s[x] = fields[x]
      BY <3>1, <3>4
    <3> QED BY <3>1, <3>2, <3>4, <3>5, <3>6
  <2>4. s = <<s[1], s[2]>>
    <3>1. PICK a \in X, b \in X : a = s[1] /\ b = s[2]
      BY <2>3
    <3>2. PICK t \in Seq(X) : t = <<a, b>>
      BY PairIn
    <3>3. Len(t) = 2 /\ t[1] = a /\ t[2] = b
      BY <3>2
    <3>4. \A x \in 1..2 : s[x] = t[x]
      BY <3>1, <3>3
    <3>5. s = t
      BY <2>3, <3>3, <3>4, SeqEqual
    <3> QED BY <3>1, <3>2, <3>5
  <2>5. s[1] = fields[1] /\ s[2] = fields[2]
    BY <2>3
  <2> QED BY <2>3, <2>4, <2>5
<1> QED BY <1>1, <1>3, <1>9, <1>10

\* SharedData::init, get_io_service: of every file, each line stands for itself.
THEOREM RulesAreListed ==
  ASSUME NEW P, NEW X, NEW file \in LinesOf(P, X)
  PROVE  RulesAsListed(file)
<1>1. PICK n \in Nat : n = Len(file)
  BY DEF LinesOf
<1>2. DOMAIN file = 1..n
  BY <1>1 DEF LinesOf
<1>3. PICK r : Turns(r, file, X) /\ InitRules(file) = r[n]
  BY <1>1, LoopTurns
<1>4. PICK T : T = {k \in 0..n : /\ ProxiesTo(r[k].proxies, file, k)
                                 /\ r[k].endpoints = EndpointsTo(file, k)}
  OBVIOUS
<1>5. Rules(file, "tcp") \in SUBSET (1..n) /\ Rules(file, "udp") \in SUBSET (1..n)
  BY <1>2 DEF Rules
<1>6. 0 \in T
  <2>1. TcpTo(file, 0) = {}
    BY <1>5 DEF TcpTo, TcpOf
  <2>2. UdpTo(file, 0) = {}
    BY <1>5 DEF UdpTo
  <2>3. r[0].proxies = <<>> /\ r[0].endpoints = {}
    BY <1>3 DEF Turns, Empty
  <2>4. Cardinality({}) = 0 /\ Len(<<>>) = 0 /\ Range(<<>>) = {}
    BY FS_EmptySet DEF Range
  <2>5. 0 \in 0..n
    OBVIOUS
  <2> QED BY <1>4, <2>1, <2>2, <2>3, <2>4, <2>5 DEF ProxiesTo, EndpointsTo
<1>7. ASSUME NEW k \in T, k < n PROVE k + 1 \in T
  <2>1. /\ k \in Nat /\ k + 1 \in 0..n /\ k < Len(file)
        /\ ProxiesTo(r[k].proxies, file, k) /\ r[k].endpoints = EndpointsTo(file, k)
    BY <1>1, <1>4, <1>7
  <2>2. ProxiesTo(r[k + 1].proxies, file, k + 1)
    BY <1>3, <2>1, ProxyOfLine
  <2>3. r[k + 1].endpoints = EndpointsTo(file, k + 1)
    BY <1>3, <2>1, EndpointOfLine
  <2> QED BY <1>4, <2>1, <2>2, <2>3
<1>8. T = 0..n
  BY <1>4, <1>6, <1>7, Along
<1>9. ProxiesTo(r[n].proxies, file, n) /\ r[n].endpoints = EndpointsTo(file, n)
  BY <1>4, <1>8
<1>10. TcpTo(file, n) = TcpOf(file)
  BY <1>5 DEF TcpTo, TcpOf
<1>11. UdpTo(file, n) =
         {i \in Rules(file, "udp") :
            \A j \in Rules(file, "udp") :
              Listed(file, i).dst_endpoint = Listed(file, j).dst_endpoint => j <= i}
  <2>1. \A j \in Rules(file, "udp") : j <= n
    BY <1>5
  <2> QED BY <2>1 DEF UdpTo
<1>12. ASSUME NEW i \in DOMAIN file, file[i].proto = "ip", GoodFields(file[i].fields) >= 2,
              \A j \in (i + 1)..Len(file) : file[j].proto # "ip"
       PROVE  <<r[n].send, r[n].recv>> = SubSeq(file[i].fields, 1, 2)
  BY <1>1, <1>3, <1>12, LimitsOfLine
<1> QED BY <1>3, <1>9, <1>10, <1>11, <1>12 DEF RulesAsListed, TcpOf, ProxiesTo, EndpointsTo

LEMMA FileInput ==
  ASSUME input \in Inputs, input.of = "file"
  PROVE  \E P, X : input.file \in LinesOf(P, X)
<1>1. input.file \in BoundedSeq(Lines, 3)
  <2>1. input \in [of : {"file"}, file : BoundedSeq(Lines, 3)]
    BY InputOfKind DEF InputsOf
  <2> QED BY <2>1
<1>2. PICK P, X : P = {"comment", "other", "ip", "tcp", "udp"} /\ X = {Bad} \cup Nat
  OBVIOUS
<1>3. \A x \in Lines : x \in [proto : P, fields : Seq(X)]
  <2>1. /\ <<>> \in Seq(X)
        /\ \A a \in X : <<a>> \in Seq(X)
        /\ \A a \in X, b \in X : <<a, b>> \in Seq(X)
        /\ \A a \in X, b \in X, c \in X : <<a, b, c>> \in Seq(X)
    OBVIOUS
  <2>2. /\ \A a \in X, b \in X, c \in X, d \in X, e \in X : <<a, b, c, d, e>> \in Seq(X)
        /\ \A a \in X, b \in X, c \in X, d \in X, e \in X, f \in X : <<a, b, c, d, e, f>> \in Seq(X)
    OBVIOUS
  <2>3. Bad \in X /\ \A a \in Nat : a \in X
    BY <1>2
  <2>4. \A p \in P, f \in Seq(X) : Line(p, f) \in [proto : P, fields : Seq(X)]
    BY DEF Line
  <2>5. /\ <<1>> \in Seq(X) /\ <<7, 8>> \in Seq(X) /\ <<9, Bad>> \in Seq(X)
        /\ <<Bad, 5>> \in Seq(X) /\ <<6>> \in Seq(X) /\ <<1, 1>> \in Seq(X)
        /\ <<1, 1, 1>> \in Seq(X) /\ <<3, 1, 1>> \in Seq(X) /\ <<1, Bad, 2>> \in Seq(X)
    BY <1>2, <2>1
  <2>6. /\ <<1, 2, 2, 5, 6>> \in Seq(X) /\ <<2, 1, 1, Bad, 6>> \in Seq(X)
        /\ <<2, 1, 1, 5, 6, 7>> \in Seq(X) /\ <<1, 2, 1, 5, Bad, 7>> \in Seq(X)
    BY <1>2, <2>2
  <2>7. PICK R : R = [proto : P, fields : Seq(X)]
    OBVIOUS
  <2>8. /\ \A f \in Seq(X) : Line("comment", f) \in R /\ Line("other", f) \in R
        /\ \A f \in Seq(X) : Line("ip", f) \in R /\ Line("tcp", f) \in R /\ Line("udp", f) \in R
    BY <1>2, <2>4, <2>7
  <2>9. /\ Line("comment", <<>>) \in R /\ Line("other", <<1>>) \in R
        /\ Line("ip", <<7, 8>>) \in R /\ Line("ip", <<9, Bad>>) \in R
        /\ Line("ip", <<Bad, 5>>) \in R /\ Line("ip", <<6>>) \in R
    BY <2>1, <2>5, <2>8
  <2>10. /\ Line("tcp", <<1, 1, 1>>) \in R /\ Line("tcp", <<1, 2, 2, 5, 6>>) \in R
         /\ Line("tcp", <<2, 1, 1, Bad, 6>>) \in R /\ Line("tcp", <<3, 1, 1>>) \in R
         /\ Line("tcp", <<1, Bad, 2>>) \in R
    BY <2>5, <2>6, <2>8
  <2>11. /\ Line("udp", <<1, 1, 1>>) \in R /\ Line("udp", <<2, 1, 1, 5, 6, 7>>) \in R
         /\ Line("udp", <<1, 2, 1, 5, Bad, 7>>) \in R /\ Line("udp", <<1, 1>>) \in R
    BY <2>5, <2>6, <2>8
  <2> HIDE DEF Line
  <2>12. \A x \in Lines : x \in R
    BY <2>9, <2>10, <2>11, Zenon DEF Lines
  <2> QED BY <2>7, <2>12
<1>4. PICK L : L = [proto : P, fields : Seq(X)]
  OBVIOUS
<1>5. PICK file : file = input.file
  OBVIOUS
<1>6. file \in Seq(L)
  <2>1. file \in UNION {[1..m -> Lines] : m \in 0..3}
    BY <1>1, <1>5 DEF BoundedSeq, SeqOf
  <2>2. PICK m \in 0..3 : file \in [1..m -> Lines]
    BY <2>1
  <2>3. file \in [1..m -> L]
    BY <1>3, <1>4, <2>2
  <2> QED BY <2>2, <2>3
<1> QED BY <1>4, <1>5, <1>6 DEF LinesOf

\* SharedData::init, get_io_service: every file gives the rules it lists.
THEOREM FilesGiveRules == HelpersSpec => []FileGivesRules
<1> DEFINE Given_ == input.of = "file" => input \in Inputs
<1>1. HelpersInit => Given_
  BY DEF HelpersInit
<1>2. Given_ /\ [HelpersNext]_<<lockVars, input>> => Given_'
  BY DEF HelpersNext
<1>3. Given_ => FileGivesRules
  <2>1. SUFFICES ASSUME input \in Inputs, input.of = "file" PROVE RulesAsListed(input.file)
    BY DEF FileGivesRules
  <2>2. PICK P, X : input.file \in LinesOf(P, X)
    BY <2>1, FileInput
  <2> QED BY <2>2, RulesAreListed
<1> QED BY <1>1, <1>2, <1>3, PTL DEF HelpersSpec

-----------------------------------------------------------------------------
(* Shares of draws.                                                        *)

\* handleRecv drops the share of the datagrams that drop_prob says.
THEOREM DropSharesAreKept ==
  ASSUME NEW drop_prob \in Int
  PROVE  DropShare(drop_prob)
<1>1. PICK m \in Nat \ {0} : m = 10000
  OBVIOUS
<1>2. PICK D : D = {r \in 1..m : Drops(drop_prob, r)}
  OBVIOUS
<1>10. DropShare(drop_prob) <=> Cardinality(D) = Smaller(Larger(drop_prob, 0), m)
  BY <1>1, <1>2 DEF DropShare
<1>3. ASSUME NEW r \in 1..m
      PROVE  Drops(drop_prob, r) <=> drop_prob > 0 /\ (r % m) + 1 <= drop_prob
  <2>1. Int32Range(1, m, r) = (r % m) + 1
    <3>1. Larger(1, m) - 1 + 1 = m
      BY <1>1 DEF Larger
    <3> QED BY <3>1 DEF Int32Range
  <2> QED BY <1>1, <2>1 DEF Drops
<1>4. \A r \in 1..(m - 1) : r % m = r
  BY Remainders
<1>5. m % m = 0
  <2>1. m = m * 1 + 0 /\ 0 \in 0..(m - 1) /\ m \in Int /\ 1 \in Int
    OBVIOUS
  <2> QED BY <2>1, Remains
<1>6. \A r \in 1..m : r \in 1..(m - 1) \/ r = m
  OBVIOUS
<1>7. CASE drop_prob <= 0
  <2>1. D = {}
    BY <1>2, <1>3, <1>7
  <2>2. Smaller(Larger(drop_prob, 0), m) = 0
    BY <1>7 DEF Smaller, Larger
  <2> QED BY <1>10, <2>1, <2>2, FS_EmptySet
<1>8. CASE drop_prob >= m
  <2>1. D = 1..m
    <3>1. \A r \in 1..m : (r % m) + 1 <= m
      BY <1>4, <1>5, <1>6
    <3>2. \A r \in 1..m : r % m \in Int
      BY <1>4, <1>5, <1>6
    <3> QED BY <1>2, <1>3, <1>8, <3>1, <3>2
  <2>2. Smaller(Larger(drop_prob, 0), m) = m
    BY <1>8 DEF Smaller, Larger
  <2>3. Cardinality(1..m) = m
    BY FS_Interval
  <2> QED BY <1>10, <2>1, <2>2, <2>3
<1>9. CASE drop_prob > 0 /\ drop_prob < m
  <2>1. D = (1..(drop_prob - 1)) \cup {m}
    <3>1. \A r \in 1..(m - 1) : Drops(drop_prob, r) <=> r <= drop_prob - 1
      BY <1>3, <1>4, <1>9
    <3>2. Drops(drop_prob, m)
      BY <1>3, <1>5, <1>9
    <3>3. \A r \in 1..(drop_prob - 1) : r \in 1..(m - 1) /\ r <= drop_prob - 1
      BY <1>9
    <3>4. \A r \in 1..(m - 1) : r <= drop_prob - 1 => r \in 1..(drop_prob - 1)
      BY <1>9
    <3> QED BY <1>2, <1>6, <3>1, <3>2, <3>3, <3>4
  <2>2. PICK S : S = 1..(drop_prob - 1)
    OBVIOUS
  <2>3. IsFiniteSet(S) /\ Cardinality(S) = drop_prob - 1 /\ m \notin S
    BY <1>9, <2>2, FS_Interval
  <2>4. Cardinality(S \cup {m}) = Cardinality(S) + 1
    BY <2>3, FS_AddElement
  <2>5. Smaller(Larger(drop_prob, 0), m) = drop_prob
    BY <1>9 DEF Smaller, Larger
  <2> QED BY <1>10, <2>1, <2>2, <2>3, <2>4, <2>5
<1> QED BY <1>7, <1>8, <1>9

\* Every second number is even.
LEMMA Halves ==
  ASSUME NEW n \in Nat
  PROVE  Cardinality({r \in 0..(2 * n + 1) : r % 2 = 0}) = n + 1
<1> DEFINE Even_(k) == {r \in 0..(2 * k + 1) : r % 2 = 0}
<1>1. PICK T : T = {k \in 0..n : IsFiniteSet(Even_(k)) /\ Cardinality(Even_(k)) = k + 1}
  OBVIOUS
<1>2. 0 \in T
  <2>1. Even_(0) = {0}
    OBVIOUS
  <2>2. IsFiniteSet({0}) /\ Cardinality({0}) = 1
    BY FS_Singleton
  <2>3. 0 \in 0..n
    OBVIOUS
  <2> QED BY <1>1, <2>1, <2>2, <2>3
<1>3. ASSUME NEW k \in T, k < n PROVE k + 1 \in T
  <2>1. k \in 0..n /\ k + 1 \in 0..n /\ IsFiniteSet(Even_(k)) /\ Cardinality(Even_(k)) = k + 1
    BY <1>1, <1>3
  <2>2. Even_(k + 1) = Even_(k) \cup {2 * k + 2}
    <3>1. 2 * (k + 1) + 1 = 2 * k + 3 /\ (2 * k + 2) % 2 = 0 /\ (2 * k + 3) % 2 = 1
      BY <2>1
    <3>2. \A r : r \in 0..(2 * k + 3) <=> r \in 0..(2 * k + 1) \/ r = 2 * k + 2 \/ r = 2 * k + 3
      BY <2>1
    <3> QED BY <3>1, <3>2
  <2>3. PICK S, x : S = Even_(k) /\ x = 2 * k + 2
    OBVIOUS
  <2>4. x \notin S /\ IsFiniteSet(S)
    BY <2>1, <2>3
  <2>5. IsFiniteSet(S \cup {x}) /\ Cardinality(S \cup {x}) = Cardinality(S) + 1
    BY <2>4, FS_AddElement
  <2> QED BY <1>1, <2>1, <2>2, <2>3, <2>5
<1>4. T = 0..n
  BY <1>1, <1>2, <1>3, Along
<1>5. n \in T
  BY <1>4
<1> QED BY <1>1, <1>5

\* float64_range, bool_T_F: every chance is kept.
THEOREM ChancesAreKept ==
  ASSUME NEW num \in Int, NEW den \in Nat \ {0}, NEW max_ \in Int
  PROVE  ChanceKept(num, den, max_)
<1>1. PICK R \in Nat : R = RandMax
  BY RandomAssumption DEF RandomAssumption
<1>2. PICK top \in Int : top = Larger(num, max_) /\ num <= top
  BY DEF Larger
<1>3. PICK w \in Nat : w = top - num
  BY <1>2
<1>4. ASSUME NEW r \in 0..R PROVE Float64Range(num, max_, r) = r * w + num * R
  BY <1>1, <1>2, <1>3 DEF Float64Range
<1>5. \A a \in Int, b \in Int, c \in Nat : a <= b => a * c <= b * c
  <2>1. ASSUME NEW a \in Int, NEW b \in Int, NEW c \in Nat, a <= b PROVE a * c <= b * c
    <3>1. PICK z \in Nat : b = a + z
      <4>1. b - a \in Nat /\ b = a + (b - a)
        BY <2>1
      <4> QED BY <4>1
    <3>2. (a + z) * c = a * c + z * c /\ z * c \in Nat /\ a * c \in Int
      OBVIOUS
    <3> QED BY <3>1, <3>2
  <2> QED BY <2>1
<1>6. R * w + num * R = top * R
  <2>1. top = w + num
    BY <1>3
  <2>2. (w + num) * R = R * w + num * R
    OBVIOUS
  <2> QED BY <2>1, <2>2
<1>7. ASSUME NEW r \in 0..R PROVE r * w + num * R \in (num * R)..(top * R)
  <2>1. r * w <= R * w /\ 0 * w <= r * w
    BY <1>5
  <2>2. PICK x \in Int, y \in Int, z \in Int : x = r * w /\ y = R * w /\ z = num * R
    OBVIOUS
  <2>3. x <= y /\ 0 <= x /\ y + z = top * R
    BY <1>6, <2>1, <2>2
  <2> QED BY <2>2, <2>3
<1>8. PICK Reals_ : Reals_ = {Float64Range(num, max_, r) : r \in 0..R}
  OBVIOUS
<1>9. Reals_ \subseteq (num * R)..(top * R)
  BY <1>4, <1>7, <1>8
<1>10. num * R \in Reals_ /\ top * R \in Reals_
  <2>1. 0 \in 0..R /\ R \in 0..R /\ 0 * w + num * R = num * R
    OBVIOUS
  <2> QED BY <1>4, <1>6, <1>8, <2>1
<1>11. ASSUME num \in 0..den
       PROVE  Cardinality({r \in 0..R : BoolTF(num, den, r)}) * den
                \in (num * R + 1)..(num * R + den)
  <2>1. PICK x \in Nat : x = num * R
    BY <1>11
  <2>2. PICK q \in Int, d \in Int : q = x \div den /\ d = x % den
    OBVIOUS
  <2>3. x = den * q + d /\ d \in 0..(den - 1)
    BY <2>2
  <2>4. q >= 0
    <3>1. CASE q <= -1
      <4>1. q * den <= (-1) * den
        BY <1>5, <3>1
      <4> QED BY <2>3, <4>1
    <3> QED BY <3>1
  <2>5. q <= R
    <3>1. CASE q >= R + 1
      <4>1. (R + 1) * den <= q * den
        BY <1>5, <3>1
      <4>2. num * R <= den * R
        BY <1>5, <1>11
      <4>3. PICK y \in Int : y = den * R
        OBVIOUS
      <4>4. (R + 1) * den = y + den
        BY <4>3
      <4> QED BY <2>1, <2>3, <4>1, <4>2, <4>3, <4>4
    <3> QED BY <3>1
  <2>6. ASSUME NEW r \in 0..R PROVE BoolTF(num, den, r) <=> r <= q
    <3>1. BoolTF(num, den, r) <=> r * den <= x
      BY <1>1, <2>1 DEF BoolTF
    <3>2. r <= q => r * den <= q * den
      BY <1>5
    <3>3. r >= q + 1 => (q + 1) * den <= r * den
      BY <1>5
    <3>4. (q + 1) * den = q * den + den
      OBVIOUS
    <3>5. PICK u \in Int, v \in Int : u = r * den /\ v = q * den
      OBVIOUS
    <3> QED BY <2>3, <3>1, <3>2, <3>3, <3>4, <3>5
  <2>7. {r \in 0..R : BoolTF(num, den, r)} = 0..q
    BY <2>4, <2>5, <2>6
  <2>8. Cardinality(0..q) = q + 1
    BY <2>4, FS_Interval
  <2>9. PICK y \in Int : y = den * q
    OBVIOUS
  <2>10. (q + 1) * den = y + den
    BY <2>9
  <2>11. (q + 1) * den \in (x + 1)..(x + den)
    BY <2>3, <2>9, <2>10
  <2> QED BY <2>1, <2>7, <2>8, <2>11
<1>12. ASSUME R % 2 = 1
       PROVE  2 * Cardinality({r \in 0..R : LastBit(r) = 0}) = R + 1
  <2>1. PICK n \in Nat : R = 2 * n + 1
    <3>1. R \div 2 \in Nat /\ R = 2 * (R \div 2) + 1
      BY <1>12
    <3> QED BY <3>1
  <2>2. {r \in 0..R : LastBit(r) = 0} = {r \in 0..(2 * n + 1) : r % 2 = 0}
    BY <2>1 DEF LastBit
  <2>3. Cardinality({r \in 0..R : LastBit(r) = 0}) = n + 1
    BY <2>2, Halves
  <2> QED BY <2>1, <2>3
<1> QED BY <1>1, <1>2, <1>8, <1>9, <1>10, <1>11, <1>12 DEF ChanceKept

\* unique_assign, draw by draw.
Assigned(r, size, drawn) ==
  /\ r[0] = <<>>
  /\ \A i \in 1..Len(drawn) :
       r[i] = IF Len(r[i - 1]) < size THEN Taken(r[i - 1], drawn[i]) ELSE r[i - 1]
  /\ UniqueAssign(size, drawn) = r[Len(drawn)]

LEMMA AssignChains ==
  ASSUME NEW size \in Nat, NEW D, NEW drawn \in Seq(D)
  PROVE  \E r \in [0..Len(drawn) -> Seq(D)] : Assigned(r, size, drawn)
<1>1. PICK n \in Nat : n = Len(drawn)
  OBVIOUS
<1>2. DOMAIN drawn = 1..n
  BY <1>1
<1>3. PICK V : V = Seq(D)
  OBVIOUS
<1>4. <<>> \in V
  BY <1>3
<1> DEFINE Next_(b, d) == IF Len(b) < size THEN Taken(b, d) ELSE b
<1>5. ASSUME NEW i \in 1..n, NEW b \in V PROVE Next_(b, drawn[i]) \in V
  <2>1. drawn[i] \in D
    BY <1>1
  <2> QED BY <1>3, <2>1 DEF Taken
<1>6. PICK F : F = [p \in (1..n) \X V |-> Next_(p[2], drawn[p[1]])]
  OBVIOUS
<1>7. F \in [(1..n) \X V -> V] /\ \A i \in 1..n, b \in V : F[<<i, b>>] = Next_(b, drawn[i])
  <2> HIDE DEF Next_
  <2> QED BY <1>5, <1>6
<1>8. PICK iter \in [SUBSET (1..n) -> V] : Folded(iter, n, <<>>, F)
  BY <1>4, <1>7, FoldExists
<1> DEFINE Step_(p) == [s \in SUBSET (1..n) |->
                          IF s = {} THEN <<>> ELSE Next_(p[s \ {Max(s)}], drawn[Max(s)])]
<1>9. ASSUME NEW s \in SUBSET (1..n), s # {} PROVE Max(s) \in 1..n
  <2>1. Max(s) \in s
    BY <1>9, MaxIn
  <2> QED BY <2>1
<1>10. iter = Step_(iter)
  <2> HIDE DEF Next_
  <2>1. ASSUME NEW s \in SUBSET (1..n)
        PROVE  iter[s] = IF s = {} THEN <<>> ELSE Next_(iter[s \ {Max(s)}], drawn[Max(s)])
    <3>1. CASE s = {}
      BY <1>8, <3>1 DEF Folded
    <3>2. CASE s # {}
      <4>1. Max(s) \in 1..n /\ iter[s \ {Max(s)}] \in V
        BY <1>9, <3>2
      <4>2. iter[s] = F[<<Max(s), iter[s \ {Max(s)}]>>]
        BY <1>8, <3>2 DEF Folded
      <4> QED BY <1>7, <3>2, <4>1, <4>2
    <3> QED BY <3>1, <3>2
  <2> QED BY <2>1
<1>11. PICK fold : fold = Step_(fold) /\ fold = (CHOOSE p : p = Step_(p))
  <2> HIDE DEF Step_
  <2> QED BY <1>10
<1>12. UniqueAssign(size, drawn) = fold[1..n]
  BY <1>2, <1>11 DEF UniqueAssign, FoldLeft, MapThenFoldSet
<1>13. PICK r \in [0..n -> V] : Chained(r, n, <<>>, F) /\ fold[1..n] = r[n]
  <2> HIDE DEF Next_
  <2>1. \A s \in SUBSET (1..n) :
          fold[s] = IF s = {} THEN <<>> ELSE Next_(fold[s \ {Max(s)}], drawn[Max(s)])
    BY <1>11
  <2>2. fold[{}] = <<>>
    BY <2>1
  <2>3. ASSUME NEW s \in SUBSET (1..n), s # {}, fold[s \ {Max(s)}] \in V
        PROVE  fold[s] = F[<<Max(s), fold[s \ {Max(s)}]>>]
    BY <1>7, <1>9, <2>1, <2>3
  <2>4. FoldedIn(fold, n, V, <<>>, F)
    BY <2>2, <2>3 DEF FoldedIn
  <2>5. EndOf(fold, n, V, <<>>, F)
    BY <1>4, <1>7, <2>4, FoldIs
  <2> QED BY <2>5 DEF EndOf
<1>14. ASSUME NEW i \in 1..n PROVE r[i] = Next_(r[i - 1], drawn[i])
  <2> HIDE DEF Next_
  <2>1. r[i - 1] \in V
    BY <1>13
  <2> QED BY <1>7, <1>13, <2>1 DEF Chained
<1> QED BY <1>1, <1>3, <1>12, <1>13, <1>14 DEF Assigned, Chained

LEMMA Appended ==
  ASSUME NEW D, NEW buf \in Seq(D), NEW d \in D
  PROVE  /\ Append(buf, d) \in Seq(D) /\ Len(Append(buf, d)) = Len(buf) + 1
         /\ Append(buf, d)[Len(buf) + 1] = d
         /\ \A i \in 1..Len(buf) : Append(buf, d)[i] = buf[i]
         /\ DOMAIN Append(buf, d) = 1..(Len(buf) + 1)
  OBVIOUS

\* What unique_assign has assigned after k draws.
AssignedTo(buf, size, D, drawn, k) ==
  /\ buf \in Seq(D) /\ IsInjective(buf)
  /\ Len(buf) <= size /\ Cardinality(Range(buf)) = Len(buf) /\ IsFiniteSet(Range(buf))
  /\ Range(buf) \subseteq {drawn[i] : i \in 1..k}
  /\ Len(buf) < size => Range(buf) = {drawn[i] : i \in 1..k}

LEMMA AssignedNext ==
  ASSUME NEW size \in Nat, NEW D, NEW drawn \in Seq(D), NEW k \in Nat, k < Len(drawn),
         NEW buf, AssignedTo(buf, size, D, drawn, k),
         NEW next, next = IF Len(buf) < size THEN Taken(buf, drawn[k + 1]) ELSE buf
  PROVE  AssignedTo(next, size, D, drawn, k + 1)
<1>1. k + 1 \in 1..Len(drawn)
  OBVIOUS
<1>2. PICK d \in D : d = drawn[k + 1]
  BY <1>1
<1>3. PICK S : S = {drawn[i] : i \in 1..k}
  OBVIOUS
<1>4. {drawn[i] : i \in 1..(k + 1)} = S \cup {d}
  <2>1. \A i : i \in 1..(k + 1) <=> i \in 1..k \/ i = k + 1
    OBVIOUS
  <2> QED BY <1>2, <1>3, <2>1
<1>5. /\ buf \in Seq(D) /\ Len(buf) \in Nat /\ DOMAIN buf = 1..Len(buf)
      /\ Range(buf) = {buf[i] : i \in 1..Len(buf)}
  BY DEF AssignedTo, Range
<1>6. CASE ~(Len(buf) < size)
  BY <1>3, <1>4, <1>6 DEF AssignedTo
<1>7. CASE Len(buf) < size /\ d \in Range(buf)
  <2>1. next = buf
    BY <1>2, <1>7 DEF Taken
  <2>2. S \cup {d} = S
    BY <1>3, <1>7 DEF AssignedTo
  <2> QED BY <1>3, <1>4, <2>1, <2>2 DEF AssignedTo
<1>8. CASE Len(buf) < size /\ d \notin Range(buf)
  <2>1. next = Append(buf, d)
    BY <1>2, <1>8 DEF Taken
  <2>2. /\ next \in Seq(D) /\ Len(next) = Len(buf) + 1 /\ next[Len(buf) + 1] = d
        /\ \A i \in 1..Len(buf) : next[i] = buf[i]
        /\ DOMAIN next = 1..(Len(buf) + 1)
    <3>1. \A b \in Seq(D) :
            /\ Append(b, d) \in Seq(D) /\ Len(Append(b, d)) = Len(b) + 1
            /\ Append(b, d)[Len(b) + 1] = d
            /\ \A i \in 1..Len(b) : Append(b, d)[i] = b[i]
            /\ DOMAIN Append(b, d) = 1..(Len(b) + 1)
      BY Appended
    <3> QED BY <1>5, <2>1, <3>1, Zenon
  <2>3. \A i : i \in 1..(Len(buf) + 1) <=> i \in 1..Len(buf) \/ i = Len(buf) + 1
    BY <1>5
  <2>4. Range(next) = Range(buf) \cup {d}
    <3>1. Range(next) = {next[i] : i \in 1..(Len(buf) + 1)}
      BY <2>2 DEF Range
    <3> QED BY <1>5, <2>2, <2>3, <3>1
  <2>5. IsInjective(next)
    <3>1. \A i \in 1..Len(buf) : buf[i] # d
      BY <1>5, <1>8
    <3>2. \A i, j \in 1..Len(buf) : buf[i] = buf[j] => i = j
      BY <1>5 DEF AssignedTo, IsInjective
    <3> QED BY <2>2, <2>3, <3>1, <3>2 DEF IsInjective
  <2>6. IsFiniteSet(Range(next)) /\ Cardinality(Range(next)) = Len(next)
    <3>1. PICK Q : Q = Range(buf)
      OBVIOUS
    <3>2. IsFiniteSet(Q) /\ Cardinality(Q) = Len(buf) /\ d \notin Q
      BY <1>8, <3>1 DEF AssignedTo
    <3>3. IsFiniteSet(Q \cup {d}) /\ Cardinality(Q \cup {d}) = Cardinality(Q) + 1
      BY <3>2, FS_AddElement
    <3> QED BY <2>2, <2>4, <3>1, <3>2, <3>3
  <2>7. Range(buf) = S
    BY <1>3, <1>8 DEF AssignedTo
  <2>8. Len(next) <= size
    BY <1>5, <1>8, <2>2
  <2>9. Range(next) = {drawn[i] : i \in 1..(k + 1)}
    BY <1>4, <2>4, <2>7
  <2> QED BY <2>2, <2>5, <2>6, <2>8, <2>9 DEF AssignedTo
<1> QED BY <1>6, <1>7, <1>8

\* unique_assign: whatever is drawn, what is assigned is in range and without repetition,
\* and it is all that was asked for as soon as that many were drawn.
THEOREM AllAssignedOnce ==
  ASSUME NEW size \in Nat, NEW min_ \in Int, NEW max_ \in Int, NEW draws \in Seq(Nat)
  PROVE  AssignedOnce(size, min_, max_, draws)
<1>1. SUFFICES ASSUME min_ <= max_
               PROVE  LET drawn == [i \in DOMAIN draws |-> Int32Range(min_, max_, draws[i])]
                          buf   == UniqueAssign(size, drawn)
                      IN  /\ IsInjective(buf) /\ Range(buf) \subseteq min_..max_
                          /\ Len(buf) = Smaller(size, Cardinality(Range(drawn)))
  BY DEF AssignedOnce, MayAssign
<1>2. PICK n \in Nat : n = Len(draws) /\ DOMAIN draws = 1..n
  OBVIOUS
<1>3. PICK D : D = min_..max_
  OBVIOUS
<1>4. PICK drawn : drawn = [i \in DOMAIN draws |-> Int32Range(min_, max_, draws[i])]
  OBVIOUS
<1>5. ASSUME NEW i \in 1..n PROVE Int32Range(min_, max_, draws[i]) \in D
  <2>1. PICK m \in Nat \ {0} : m = max_ - min_ + 1
    BY <1>1
  <2>4. PICK x \in Nat : x = draws[i]
    BY <1>2
  <2>2. x % m \in 0..(m - 1)
    BY Remainders
  <2>3. Int32Range(min_, max_, draws[i]) = (x % m) + min_
    BY <1>1, <2>1, <2>4 DEF Int32Range, Larger
  <2> QED BY <1>3, <2>1, <2>2, <2>3
<1>6. drawn \in Seq(D) /\ Len(drawn) = n /\ DOMAIN drawn = 1..n
  <2>1. drawn \in [1..n -> D]
    BY <1>2, <1>4, <1>5
  <2> QED BY <2>1
<1>7. PICK r \in [0..n -> Seq(D)] : Assigned(r, size, drawn)
  BY <1>6, AssignChains
<1>8. PICK T : T = {k \in 0..n : AssignedTo(r[k], size, D, drawn, k)}
  OBVIOUS
<1>9. 0 \in T
  <2>1. 1..0 = {} /\ 0 \in 0..n
    OBVIOUS
  <2>2. r[0] = <<>>
    BY <1>7 DEF Assigned
  <2>3. Range(<<>>) = {} /\ IsInjective(<<>>) /\ Len(<<>>) = 0 /\ <<>> \in Seq(D)
    BY DEF Range, IsInjective
  <2>4. {drawn[i] : i \in 1..0} = {}
    BY <2>1
  <2>5. AssignedTo(<<>>, size, D, drawn, 0)
    <3>1. PICK e : e = <<>>
      OBVIOUS
    <3>2. /\ e \in Seq(D) /\ IsInjective(e) /\ Len(e) = 0 /\ Range(e) = {}
          /\ Cardinality(Range(e)) = 0 /\ IsFiniteSet(Range(e))
      BY <2>3, <3>1, FS_EmptySet
    <3>3. 0 <= size
      OBVIOUS
    <3>4. AssignedTo(e, size, D, drawn, 0)
      BY <2>4, <3>2, <3>3 DEF AssignedTo
    <3> QED BY <3>1, <3>4
  <2> QED BY <1>8, <2>1, <2>2, <2>5
<1>10. ASSUME NEW k \in T, k < n PROVE k + 1 \in T
  <2>1. /\ k \in Nat /\ k + 1 \in 0..n /\ k + 1 \in 1..n /\ (k + 1) - 1 = k
        /\ AssignedTo(r[k], size, D, drawn, k)
    BY <1>8, <1>10
  <2>2. r[k + 1] = IF Len(r[k]) < size THEN Taken(r[k], drawn[k + 1]) ELSE r[k]
    BY <1>6, <1>7, <2>1 DEF Assigned
  <2>3. AssignedTo(r[k + 1], size, D, drawn, k + 1)
    BY <1>6, <1>10, <2>1, <2>2, AssignedNext
  <2> QED BY <1>8, <2>1, <2>3
<1>11. T = 0..n
  BY <1>8, <1>9, <1>10, Along
<1>12. PICK buf : buf = UniqueAssign(size, drawn) /\ AssignedTo(buf, size, D, drawn, n)
  <2>1. n \in T
    BY <1>11
  <2> QED BY <1>6, <1>7, <1>8, <2>1 DEF Assigned
<1>13. Range(drawn) = {drawn[i] : i \in 1..n}
  BY <1>6 DEF Range
<1>14. Len(buf) = Smaller(size, Cardinality(Range(drawn)))
  <2>1. IsFiniteSet(Range(drawn))
    <3>1. IsFiniteSet(D)
      BY <1>3, FS_Interval
    <3>2. Range(drawn) \subseteq D
      BY <1>6, <1>13
    <3> QED BY <3>1, <3>2, FS_Subset
  <2>2. Len(buf) <= Cardinality(Range(drawn)) /\ Cardinality(Range(drawn)) \in Nat
    BY <1>12, <1>13, <2>1, FS_Subset, FS_CardinalityType DEF AssignedTo
  <2>3. Len(buf) \in Nat /\ Len(buf) <= size
    BY <1>12 DEF AssignedTo
  <2>4. Len(buf) < size => Len(buf) = Cardinality(Range(drawn))
    BY <1>12, <1>13 DEF AssignedTo
  <2> QED BY <2>2, <2>3, <2>4 DEF Smaller
<1>15. Range(buf) \subseteq min_..max_
  BY <1>3, <1>12 DEF AssignedTo, Range
<1> QED BY <1>4, <1>12, <1>14, <1>15 DEF AssignedTo

\* arrange, place by place.
Exchanged(b, i, j) == [b EXCEPT ![i] = b[j], ![j] = b[i]]
TimesIn(b, n, e) == Cardinality({k \in 1..n : b[k] = e})

LEMMA ExchangeKeeps ==
  ASSUME NEW n \in Nat, NEW X, NEW b \in [1..n -> X], NEW i \in 1..n, NEW j \in 1..n, NEW e
  PROVE  /\ Exchanged(b, i, j) \in [1..n -> X]
         /\ TimesIn(Exchanged(b, i, j), n, e) = TimesIn(b, n, e)
<1>1. PICK c : c = Exchanged(b, i, j)
  OBVIOUS
<1>2. c \in [1..n -> X]
  BY <1>1 DEF Exchanged
<1>3. \A k \in 1..n : c[k] = IF k = j THEN b[i] ELSE IF k = i THEN b[j] ELSE b[k]
  BY <1>1 DEF Exchanged
<1>4. PICK S, P : S = {k \in 1..n : b[k] = e} /\ P = {k \in 1..n : c[k] = e}
  OBVIOUS
<1>5. PICK f : f = [k \in S |-> IF k = j THEN i ELSE IF k = i THEN j ELSE k]
  OBVIOUS
<1>6. f \in [S -> P]
  BY <1>3, <1>4, <1>5
<1>7. \A x, y \in S : f[x] = f[y] => x = y
  BY <1>5
<1>8. \A y \in P : \E x \in S : f[x] = y
  <2>1. ASSUME NEW y \in P PROVE \E x \in S : f[x] = y
    <3>1. PICK x : x = IF y = j THEN i ELSE IF y = i THEN j ELSE y
      OBVIOUS
    <3>2. x \in S
      BY <1>3, <1>4, <3>1
    <3>3. f[x] = y
      BY <1>5, <3>1, <3>2
    <3> QED BY <3>2, <3>3
  <2> QED BY <2>1
<1>9. f \in Bijection(S, P)
  BY <1>6, <1>7, <1>8 DEF Bijection, Injection, Surjection, IsInjective
<1>10. IsFiniteSet(S)
  BY <1>4, FS_Interval, FS_Subset
<1>11. Cardinality(P) = Cardinality(S)
  BY <1>9, <1>10, FS_Bijection DEF ExistsBijection
<1> QED BY <1>1, <1>2, <1>4, <1>11 DEF TimesIn

Arranged(r, buf, draws, n) ==
  /\ r[0] = buf
  /\ \A i \in 1..n : r[i] = Exchanged(r[i - 1], i, draws[i])
  /\ Arrange(buf, draws) = r[n]

LEMMA ArrangeChains ==
  ASSUME NEW n \in Nat, NEW X, NEW buf \in [1..n -> X], NEW draws \in [1..n -> 1..n]
  PROVE  \E r \in [0..n -> [1..n -> X]] : Arranged(r, buf, draws, n)
<1>1. Len(buf) = n
  OBVIOUS
<1> DEFINE Place_(x) == [i \in 1..Len(buf) |-> i][x]
<1>2. \A i \in 1..n : Place_(i) = i
  BY <1>1
<1>3. PICK V : V = [1..n -> X]
  OBVIOUS
<1>4. buf \in V
  BY <1>3
<1> DEFINE Next_(b, i) == [b EXCEPT ![i] = b[draws[i]], ![draws[i]] = b[i]]
<1>5. ASSUME NEW i \in 1..n, NEW b \in V PROVE Next_(b, i) \in V
  BY <1>3
<1>6. PICK F : F = [p \in (1..n) \X V |-> Next_(p[2], p[1])]
  OBVIOUS
<1>7. F \in [(1..n) \X V -> V] /\ \A i \in 1..n, b \in V : F[<<i, b>>] = Next_(b, i)
  <2> HIDE DEF Next_, Place_
  <2> QED BY <1>5, <1>6
<1>8. PICK iter \in [SUBSET (1..n) -> V] : Folded(iter, n, buf, F)
  BY <1>4, <1>7, FoldExists
<1> DEFINE Step_(p) == [s \in SUBSET (1..n) |->
                          IF s = {} THEN buf ELSE Next_(p[s \ {Max(s)}], Place_(Max(s)))]
<1>9. ASSUME NEW s \in SUBSET (1..n), s # {}
      PROVE  Max(s) \in 1..n /\ Place_(Max(s)) = Max(s)
  <2> HIDE DEF Place_
  <2>1. Max(s) \in s
    BY <1>9, MaxIn
  <2> QED BY <1>2, <2>1
<1>10. iter = Step_(iter)
  <2> HIDE DEF Next_, Place_
  <2>1. ASSUME NEW s \in SUBSET (1..n)
        PROVE  iter[s] = IF s = {} THEN buf ELSE Next_(iter[s \ {Max(s)}], Place_(Max(s)))
    <3>1. CASE s = {}
      BY <1>8, <3>1 DEF Folded
    <3>2. CASE s # {}
      <4>1. /\ Max(s) \in 1..n /\ iter[s \ {Max(s)}] \in V
            /\ Place_(Max(s)) = Max(s)
        BY <1>9, <3>2
      <4>2. iter[s] = F[<<Max(s), iter[s \ {Max(s)}]>>]
        BY <1>8, <3>2 DEF Folded
      <4> QED BY <1>7, <3>2, <4>1, <4>2
    <3> QED BY <3>1, <3>2
  <2> QED BY <2>1
<1>11. PICK fold : fold = Step_(fold) /\ fold = (CHOOSE p : p = Step_(p))
  <2> HIDE DEF Step_
  <2> QED BY <1>10
<1>12. Arrange(buf, draws) = fold[1..n]
  <2>1. DOMAIN [i \in 1..Len(buf) |-> i] = 1..n
    BY <1>1
  <2> QED BY <1>11, <2>1 DEF Arrange, FoldLeft, MapThenFoldSet
<1>13. PICK r \in [0..n -> V] : Chained(r, n, buf, F) /\ fold[1..n] = r[n]
  <2> HIDE DEF Next_, Place_
  <2>1. \A s \in SUBSET (1..n) :
          fold[s] = IF s = {} THEN buf ELSE Next_(fold[s \ {Max(s)}], Place_(Max(s)))
    BY <1>11
  <2>2. fold[{}] = buf
    BY <2>1
  <2>3. ASSUME NEW s \in SUBSET (1..n), s # {}, fold[s \ {Max(s)}] \in V
        PROVE  fold[s] = F[<<Max(s), fold[s \ {Max(s)}]>>]
    <3>1. Max(s) \in 1..n /\ Place_(Max(s)) = Max(s)
      BY <1>9, <2>3
    <3>2. fold[s] = Next_(fold[s \ {Max(s)}], Max(s))
      BY <2>1, <2>3, <3>1
    <3> QED BY <1>7, <2>3, <3>1, <3>2
  <2>4. FoldedIn(fold, n, V, buf, F)
    BY <2>2, <2>3 DEF FoldedIn
  <2>5. EndOf(fold, n, V, buf, F)
    BY <1>4, <1>7, <2>4, FoldIs
  <2> QED BY <2>5 DEF EndOf
<1>14. ASSUME NEW i \in 1..n PROVE r[i] = Exchanged(r[i - 1], i, draws[i])
  <2>1. r[i] = Next_(r[i - 1], i)
    <3> HIDE DEF Next_
    <3>1. r[i - 1] \in V
      BY <1>13
    <3> QED BY <1>7, <1>13, <3>1 DEF Chained
  <2> QED BY <2>1 DEF Exchanged
<1> QED BY <1>3, <1>12, <1>13, <1>14 DEF Arranged, Chained

\* arrange: every sequence of draws loses no element and repeats none.
THEOREM AllArrangedOnce ==
  ASSUME NEW n \in Nat, NEW X, NEW buf \in [1..n -> X], NEW draws \in [1..n -> 1..n]
  PROVE  ArrangedOnce(buf, draws)
<1>1. PICK r \in [0..n -> [1..n -> X]] : Arranged(r, buf, draws, n)
  BY ArrangeChains
<1>2. PICK T : T = {k \in 0..n : \A e \in X : TimesIn(r[k], n, e) = TimesIn(buf, n, e)}
  OBVIOUS
<1>3. 0 \in T
  BY <1>1, <1>2 DEF Arranged
<1>4. ASSUME NEW k \in T, k < n PROVE k + 1 \in T
  <2>1. /\ k \in 0..n /\ k + 1 \in 0..n /\ k + 1 \in 1..n /\ (k + 1) - 1 = k
        /\ \A e \in X : TimesIn(r[k], n, e) = TimesIn(buf, n, e)
    BY <1>2, <1>4
  <2>2. r[k + 1] = Exchanged(r[k], k + 1, draws[k + 1])
    BY <1>1, <2>1 DEF Arranged
  <2>3. draws[k + 1] \in 1..n /\ r[k] \in [1..n -> X]
    BY <2>1
  <2>4. \A e \in X : TimesIn(r[k + 1], n, e) = TimesIn(r[k], n, e)
    BY <2>1, <2>2, <2>3, ExchangeKeeps
  <2> QED BY <1>2, <2>1, <2>4
<1>5. T = 0..n
  BY <1>2, <1>3, <1>4, Along
<1>6. PICK after \in [1..n -> X] : after = Arrange(buf, draws) /\ after = r[n]
  BY <1>1 DEF Arranged
<1>7. \A e \in X : TimesIn(after, n, e) = TimesIn(buf, n, e)
  <2>1. n \in T
    BY <1>5
  <2> QED BY <1>2, <1>6, <2>1
<1>8. Range(buf) \subseteq X /\ Range(after) \subseteq X
  BY DEF Range
<1> QED BY <1>6, <1>7, <1>8 DEF ArrangedOnce, TimesIn

LEMMA DrawInput ==
  ASSUME input \in Inputs
  PROVE  /\ input.of = "range" => input.min_ \in Int /\ input.max_ \in Int
         /\ input.of = "drop" => input.drop_prob \in Int
         /\ input.of = "chance" =>
              input.num \in Int /\ input.den \in Nat \ {0} /\ input.max_ \in Int
         /\ input.of = "assign" =>
              /\ input.size \in Nat /\ input.min_ \in Int /\ input.max_ \in Int
              /\ input.draws \in Seq(Nat)
         /\ input.of = "arrange" =>
              \E n \in Nat : input.buf \in [1..n -> 1..n] /\ input.draws \in [1..n -> 1..n]
<1>1. ASSUME input.of = "range" PROVE input.min_ \in Int /\ input.max_ \in Int
  <2>1. input \in [of : {"range"}, min_ : -3..10, max_ : -3..10]
    BY <1>1, InputOfKind DEF InputsOf
  <2> QED BY <2>1
<1>2. ASSUME input.of = "drop" PROVE input.drop_prob \in Int
  <2>1. input \in [of : {"drop"}, drop_prob : {-1, 0, 1, 100, 5000, 9999, 10000, 10001}]
    BY <1>2, InputOfKind DEF InputsOf
  <2> QED BY <2>1
<1>3. ASSUME input.of = "chance"
      PROVE  input.num \in Int /\ input.den \in Nat \ {0} /\ input.max_ \in Int
  <2>1. input \in [of : {"chance"}, num : -1..4, den : 1..3, max_ : -1..2]
    BY <1>3, InputOfKind DEF InputsOf
  <2> QED BY <2>1
<1>4. ASSUME input.of = "assign"
      PROVE  /\ input.size \in Nat /\ input.min_ \in Int /\ input.max_ \in Int
             /\ input.draws \in Seq(Nat)
  <2>1. input \in [of : {"assign"}, size : 0..3, min_ : {-1, 1}, max_ : -1..2, draws : [1..4 -> 0..3]]
    BY <1>4, InputOfKind DEF InputsOf
  <2>2. PICK k \in Nat : k = 4
    OBVIOUS
  <2>3. PICK draws : draws = input.draws /\ draws \in [1..k -> 0..3]
    BY <2>1, <2>2
  <2>4. draws \in Seq(Nat)
    BY <2>3
  <2> QED BY <2>1, <2>3, <2>4
<1>5. ASSUME input.of = "arrange"
      PROVE  \E n \in Nat : input.buf \in [1..n -> 1..n] /\ input.draws \in [1..n -> 1..n]
  <2>1. input \in UNION {[of : {"arrange"}, buf : [1..n -> 1..n], draws : [1..n -> 1..n]] : n \in 0..3}
    BY <1>5, InputOfKind DEF InputsOf
  <2>2. PICK n \in 0..3 :
          input \in [of : {"arrange"}, buf : [1..n -> 1..n], draws : [1..n -> 1..n]]
    BY <2>1
  <2>3. input.buf \in [1..n -> 1..n] /\ input.draws \in [1..n -> 1..n]
    BY <2>2
  <2>4. n \in Nat
    OBVIOUS
  <2> QED BY <2>3, <2>4, Zenon
<1> QED BY <1>1, <1>2, <1>3, <1>4, <1>5

\* random and its use in handleRecv: whatever is drawn, from whatever range.
THEOREM DrawsAreRight == HelpersSpec => []DrawsRight
<1> DEFINE Given_ == input.of \in {"range", "drop", "chance", "assign", "arrange"} => input \in Inputs
<1>1. HelpersInit => Given_
  BY DEF HelpersInit
<1>2. Given_ /\ [HelpersNext]_<<lockVars, input>> => Given_'
  BY DEF HelpersNext
<1>3. Given_ => DrawsRight
  <2>1. ASSUME input \in Inputs PROVE DrawsRight
    BY <2>1, DrawInput, RangeIsCovered, ChancesAreKept, DropSharesAreKept, AllAssignedOnce,
       AllArrangedOnce DEF DrawsRight
  <2> QED BY <2>1 DEF DrawsRight
<1> QED BY <1>1, <1>2, <1>3, PTL DEF HelpersSpec

-----------------------------------------------------------------------------
(* Logging.                                                                *)

CallsOf(Paths, Messages, Known) ==
  [of : {"reset"}, path : Paths, level : Int, location : BOOLEAN] \cup
  [of : {"reset_logpath"}, path : Paths] \cup
  [of : {"reset_maxloglevel"}, level : Int] \cup
  [of : {"reset_loglocation"}, location : BOOLEAN] \cup
  [of : {"macro"}, level : 0..LOG_DEBUG, message : Messages] \cup
  [of : {"dolog"}, name : Known, message : Messages]

\* A path as it is given, or as reset makes it.
PathsSet(Paths) == Paths \cup {SystemComplete(path) : path \in Paths}

LogLines(Paths, Messages) ==
  [line : [level : Range(LevelName), message : Messages, located : BOOLEAN],
   to : PathsSet(Paths) \cup {"cerr"}]
WatchOf(Paths, Messages) ==
  [logpath : PathsSet(Paths) \cup {""}, maxloglevel : Int, loglocation : BOOLEAN,
   out : Seq(LogLines(Paths, Messages))]

Shows(call, most) == call.of \in {"macro", "dolog"} /\ LevelOf(call) <= most
LineOf(call, located, path) ==
  [line |-> [level |-> LevelName[LevelOf(call) + 1], message |-> call.message, located |-> located],
   to |-> IF path \in Unwritable \cup {""} THEN "cerr" ELSE path]

\* What one call does to the settings and to what is written.
Told(w, after, call) ==
  /\ after.maxloglevel = IF call.of \in {"reset", "reset_maxloglevel"} THEN call.level
                         ELSE w.maxloglevel
  /\ after.logpath = IF call.of \in {"reset", "reset_logpath"} THEN PathSet(call) ELSE w.logpath
  /\ after.loglocation = IF call.of \in {"reset", "reset_loglocation"} THEN call.location
                         ELSE w.loglocation
  /\ after.out = IF Shows(call, w.maxloglevel)
                 THEN Append(w.out, LineOf(call, w.loglocation, w.logpath)) ELSE w.out

LEMMA LevelNames ==
  /\ \A l \in 0..LOG_DEBUG : /\ LevelName[l + 1] \in Range(LevelName)
                             /\ DictLoglevelname(l) = LevelName[l + 1]
  /\ \A name \in Range(LevelName) : DictLoglevel(name) \in 0..LOG_DEBUG
<1>1. DOMAIN LevelName = 1..8 /\ Len(LevelName) = 8
  BY DEF LevelName
<1>2. \A l \in 0..LOG_DEBUG : l + 1 \in 1..8
  BY DEF LOG_DEBUG
<1>3. ASSUME NEW name \in Range(LevelName) PROVE DictLoglevel(name) \in 0..LOG_DEBUG
  <2>1. PICK i \in 1..Len(LevelName) : i = (CHOOSE x \in 1..Len(LevelName) : LevelName[x] = name)
    BY <1>1 DEF Range
  <2>2. DictLoglevel(name) = i - 1
    BY <2>1 DEF DictLoglevel
  <2> QED BY <1>1, <2>2 DEF LOG_DEBUG
<1> QED BY <1>1, <1>2, <1>3 DEF Range, DictLoglevelname

LEMMA CallTold ==
  ASSUME NEW Paths, NEW Messages, NEW Known,
         NEW w \in WatchOf(Paths, Messages), NEW call \in CallsOf(Paths, Messages, Known)
  PROVE  Called(w, call) \in WatchOf(Paths, Messages) /\ Told(w, Called(w, call), call)
<1>1. PICK after : after = Called(w, call)
  OBVIOUS
<1>2. CASE call \in [of : {"reset"}, path : Paths, level : Int, location : BOOLEAN]
  <2>1. call.of = "reset" /\ call.path \in Paths /\ call.level \in Int /\ call.location \in BOOLEAN
    BY <1>2
  <2>2. PICK p : p = SystemComplete(call.path)
    OBVIOUS
  <2>3. after = [w EXCEPT !.logpath = p, !.maxloglevel = call.level,
                          !.loglocation = call.location]
    BY <1>1, <2>1, <2>2 DEF Called, Reset
  <2>4. p \in PathsSet(Paths)
    <3>1. PICK path \in Paths : path = call.path
      BY <2>1
    <3>2. p = SystemComplete(path)
      BY <2>2, <3>1, Zenon
    <3> QED BY <3>2, Zenon DEF PathsSet
  <2>5. PathSet(call) = p
    BY <2>1, <2>2, Zenon DEF PathSet
  <2>6. after \in WatchOf(Paths, Messages)
    BY <2>1, <2>3, <2>4 DEF WatchOf
  <2>7. Told(w, after, call)
    <3>1. /\ after.maxloglevel = call.level /\ after.logpath = p
          /\ after.loglocation = call.location /\ after.out = w.out
      BY <2>3 DEF WatchOf
    <3> QED BY <2>1, <2>5, <3>1 DEF Told, Shows
  <2> QED BY <1>1, <2>6, <2>7
<1>3. CASE call \in [of : {"reset_logpath"}, path : Paths]
  <2>1. call.of = "reset_logpath" /\ call.path \in Paths
    BY <1>3
  <2>2. after = [w EXCEPT !.logpath = call.path]
    BY <1>1, <2>1 DEF Called, Reset
  <2>3. call.path \in PathsSet(Paths) /\ PathSet(call) = call.path
    BY <2>1 DEF PathsSet, PathSet
  <2> QED BY <1>1, <2>1, <2>2, <2>3 DEF Told, Shows, WatchOf
<1>4. CASE call \in [of : {"reset_maxloglevel"}, level : Int]
  <2>1. call.of = "reset_maxloglevel" /\ call.level \in Int
    BY <1>4
  <2>2. after = [w EXCEPT !.maxloglevel = call.level]
    BY <1>1, <2>1 DEF Called, Reset
  <2> QED BY <1>1, <2>1, <2>2 DEF Told, Shows, WatchOf
<1>5. CASE call \in [of : {"reset_loglocation"}, location : BOOLEAN]
  <2>1. call.of = "reset_loglocation" /\ call.location \in BOOLEAN
    BY <1>5
  <2>2. after = [w EXCEPT !.loglocation = call.location]
    BY <1>1, <2>1 DEF Called, Reset
  <2> QED BY <1>1, <2>1, <2>2 DEF Told, Shows, WatchOf
<1>6. ASSUME call.of \in {"macro", "dolog"}, call.message \in Messages,
             LevelOf(call) \in 0..LOG_DEBUG,
             after = IF LevelOf(call) > w.maxloglevel THEN w
                     ELSE Fwriteln(w, [level |-> DictLoglevelname(LevelOf(call)),
                                       message |-> call.message, located |-> w.loglocation])
      PROVE  after \in WatchOf(Paths, Messages) /\ Told(w, after, call)
  <2>1. PICK l : l = LineOf(call, w.loglocation, w.logpath)
    OBVIOUS
  <2>2. l \in LogLines(Paths, Messages)
    <3>1. w.loglocation \in BOOLEAN /\ w.logpath \in PathsSet(Paths) \cup {""}
      BY DEF WatchOf
    <3>2. LevelName[LevelOf(call) + 1] \in Range(LevelName)
      BY <1>6, LevelNames
    <3>3. (IF w.logpath \in Unwritable \cup {""} THEN "cerr" ELSE w.logpath)
            \in PathsSet(Paths) \cup {"cerr"}
      BY <3>1
    <3> QED BY <1>6, <2>1, <3>1, <3>2, <3>3 DEF LineOf, LogLines
  <2>3. Shows(call, w.maxloglevel) <=> ~(LevelOf(call) > w.maxloglevel)
    <3>1. w.maxloglevel \in Int
      BY DEF WatchOf
    <3> QED BY <1>6, <3>1 DEF Shows, LOG_DEBUG
  <2>4. CASE ~Shows(call, w.maxloglevel)
    BY <1>6, <2>3, <2>4 DEF Told
  <2>5. CASE Shows(call, w.maxloglevel)
    <3>1. DictLoglevelname(LevelOf(call)) = LevelName[LevelOf(call) + 1]
      BY <1>6, LevelNames
    <3>2. PICK to : to = IF w.logpath \in Unwritable \cup {""} THEN "cerr" ELSE w.logpath
      OBVIOUS
    <3>3. to = IF w.logpath = "" \/ w.logpath \in Unwritable THEN "cerr" ELSE w.logpath
      BY <3>2
    <3>4. l = [line |-> [level |-> DictLoglevelname(LevelOf(call)), message |-> call.message,
                         located |-> w.loglocation], to |-> to]
      BY <2>1, <3>1, <3>2 DEF LineOf
    <3>5. after = [w EXCEPT !.out = Append(@, l)]
      BY <1>6, <2>3, <2>5, <3>3, <3>4 DEF Fwriteln
    <3>6. PICK q \in Seq(LogLines(Paths, Messages)) : q = w.out
      BY DEF WatchOf
    <3>7. Append(q, l) \in Seq(LogLines(Paths, Messages))
      BY <2>2, Appended
    <3>8. after = [w EXCEPT !.out = Append(q, l)]
      BY <3>5, <3>6 DEF WatchOf
    <3>9. /\ after.out = Append(q, l) /\ after.maxloglevel = w.maxloglevel
          /\ after.logpath = w.logpath /\ after.loglocation = w.loglocation
          /\ after \in WatchOf(Paths, Messages)
      BY <3>6, <3>7, <3>8 DEF WatchOf
    <3> QED BY <1>6, <2>1, <2>5, <3>6, <3>9 DEF Told
  <2> QED BY <2>4, <2>5
<1>7. CASE call \in [of : {"macro"}, level : 0..LOG_DEBUG, message : Messages]
  <2>1. call.of = "macro" /\ call.level \in 0..LOG_DEBUG /\ call.message \in Messages
    BY <1>7
  <2>2. LevelOf(call) = call.level
    BY <2>1 DEF LevelOf
  <2>3. w.maxloglevel \in Int /\ call.level \in Int
    <3>1. w.maxloglevel \in Int
      BY DEF WatchOf
    <3> QED BY <2>1, <3>1 DEF LOG_DEBUG
  <2>4. after = LogMacro(w, call.level, call.message)
    BY <1>1, <2>1 DEF Called
  <2>5. after = IF LevelOf(call) > w.maxloglevel THEN w
                ELSE Fwriteln(w, [level |-> DictLoglevelname(LevelOf(call)),
                                  message |-> call.message, located |-> w.loglocation])
    BY <2>2, <2>3, <2>4 DEF LogMacro, DologLevel
  <2> QED BY <1>1, <1>6, <2>1, <2>2, <2>5
<1>8. CASE call \in [of : {"dolog"}, name : Known, message : Messages]
  <2>1. call.of = "dolog" /\ call.message \in Messages
    BY <1>8
  <2>2. LevelOf(call) = IF call.name \in Range(LevelName) THEN DictLoglevel(call.name)
                        ELSE LOG_DEBUG
    BY <2>1 DEF LevelOf
  <2>3. LevelOf(call) \in 0..LOG_DEBUG
    BY <2>2, LevelNames DEF LOG_DEBUG
  <2>4. LevelOf(call) = IF DictLoglevel(call.name) = LOG_BADVALUE THEN LOG_DEBUG
                        ELSE DictLoglevel(call.name)
    <3>1. CASE call.name \in Range(LevelName)
      BY <2>2, <2>3, <3>1 DEF LOG_DEBUG, LOG_BADVALUE
    <3>2. CASE call.name \notin Range(LevelName)
      BY <2>2, <3>2 DEF DictLoglevel
    <3> QED BY <3>1, <3>2
  <2>5. after = DologLevel(w, LevelOf(call), call.message)
    BY <1>1, <2>1, <2>4 DEF Called, DologName
  <2>6. after = IF LevelOf(call) > w.maxloglevel THEN w
                ELSE Fwriteln(w, [level |-> DictLoglevelname(LevelOf(call)),
                                  message |-> call.message, located |-> w.loglocation])
    BY <2>5 DEF DologLevel
  <2> QED BY <1>1, <1>6, <2>1, <2>3, <2>6
<1> QED BY <1>2, <1>3, <1>4, <1>5, <1>7, <1>8 DEF CallsOf

\* The log, call by call.
LogTold(r, calls) ==
  /\ r[0] = NotReset
  /\ \A i \in 1..Len(calls) : Told(r[i - 1], r[i], calls[i])
  /\ Written(calls) = r[Len(calls)].out

LEMMA LogChains ==
  ASSUME NEW Paths, NEW Messages, NEW Known, NEW calls \in Seq(CallsOf(Paths, Messages, Known))
  PROVE  \E r \in [0..Len(calls) -> WatchOf(Paths, Messages)] : LogTold(r, calls)
<1>1. PICK n \in Nat : n = Len(calls)
  OBVIOUS
<1>2. DOMAIN calls = 1..n
  BY <1>1
<1>3. PICK V : V = WatchOf(Paths, Messages)
  OBVIOUS
<1>4. NotReset \in V
  <2>1. PICK q \in Seq(LogLines(Paths, Messages)) : q = <<>>
    BY EmptySeq, Zenon
  <2>2. "" \in PathsSet(Paths) \cup {""} /\ 4 \in Int /\ FALSE \in BOOLEAN
    OBVIOUS
  <2>3. NotReset = [logpath |-> "", maxloglevel |-> 4, loglocation |-> FALSE, out |-> q]
    BY <2>1 DEF NotReset, LOG_WARNING
  <2> QED BY <1>3, <2>2, <2>3 DEF WatchOf
<1>5. \A i \in 1..n, w \in V : Called(w, calls[i]) \in V /\ Told(w, Called(w, calls[i]), calls[i])
  <2>1. PICK C : C = CallsOf(Paths, Messages, Known)
    OBVIOUS
  <2>2. calls \in Seq(C)
    BY <2>1
  <2>3. \A i \in 1..n : calls[i] \in C
    BY <1>1, <2>2
  <2> QED BY <1>3, <2>1, <2>3, CallTold
<1>6. PICK F : F = [p \in (1..n) \X V |-> Called(p[2], calls[p[1]])]
  OBVIOUS
<1>7. F \in [(1..n) \X V -> V] /\ \A i \in 1..n, w \in V : F[<<i, w>>] = Called(w, calls[i])
  BY <1>5, <1>6
<1>8. PICK iter \in [SUBSET (1..n) -> V] : Folded(iter, n, NotReset, F)
  BY <1>4, <1>7, FoldExists
<1> DEFINE Step_(p) == [s \in SUBSET (1..n) |->
                          IF s = {} THEN NotReset ELSE Called(p[s \ {Max(s)}], calls[Max(s)])]
<1>9. ASSUME NEW s \in SUBSET (1..n), s # {} PROVE Max(s) \in 1..n
  <2>1. Max(s) \in s
    BY <1>9, MaxIn
  <2> QED BY <2>1
<1>10. iter = Step_(iter)
  <2>1. ASSUME NEW s \in SUBSET (1..n)
        PROVE  iter[s] = IF s = {} THEN NotReset ELSE Called(iter[s \ {Max(s)}], calls[Max(s)])
    <3>1. CASE s = {}
      BY <1>8, <3>1 DEF Folded
    <3>2. CASE s # {}
      <4>1. Max(s) \in 1..n /\ iter[s \ {Max(s)}] \in V
        BY <1>9, <3>2
      <4>2. iter[s] = F[<<Max(s), iter[s \ {Max(s)}]>>]
        BY <1>8, <3>2 DEF Folded
      <4> QED BY <1>7, <3>2, <4>1, <4>2
    <3> QED BY <3>1, <3>2
  <2> QED BY <2>1
<1>11. PICK fold : fold = Step_(fold) /\ fold = (CHOOSE p : p = Step_(p))
  <2> HIDE DEF Step_
  <2> QED BY <1>10
<1>12. Written(calls) = fold[1..n].out
  BY <1>2, <1>11 DEF Written, FoldLeft, MapThenFoldSet
<1>13. PICK r \in [0..n -> V] : Chained(r, n, NotReset, F) /\ fold[1..n] = r[n]
  <2>1. \A s \in SUBSET (1..n) :
          fold[s] = IF s = {} THEN NotReset ELSE Called(fold[s \ {Max(s)}], calls[Max(s)])
    BY <1>11
  <2>2. fold[{}] = NotReset
    BY <2>1
  <2>3. ASSUME NEW s \in SUBSET (1..n), s # {}, fold[s \ {Max(s)}] \in V
        PROVE  fold[s] = F[<<Max(s), fold[s \ {Max(s)}]>>]
    BY <1>7, <1>9, <2>1, <2>3
  <2>4. FoldedIn(fold, n, V, NotReset, F)
    BY <2>2, <2>3 DEF FoldedIn
  <2>5. EndOf(fold, n, V, NotReset, F)
    BY <1>4, <1>7, <2>4, FoldIs
  <2> QED BY <2>5 DEF EndOf
<1>14. ASSUME NEW i \in 1..n PROVE Told(r[i - 1], r[i], calls[i])
  <2>1. r[i - 1] \in V
    BY <1>13
  <2>2. r[i] = Called(r[i - 1], calls[i])
    BY <1>7, <1>13, <2>1 DEF Chained
  <2> QED BY <1>5, <2>1, <2>2
<1> QED BY <1>1, <1>3, <1>12, <1>13, <1>14 DEF LogTold, Chained

\* What a setting is at a call is what the last call that set it gave it.
LEMMA SettersNext ==
  ASSUME NEW calls, NEW setter, NEW k \in Nat
  PROVE  /\ calls[k + 1].of \in {"reset", setter} =>
              /\ Setters(calls, k + 2, setter) # {}
              /\ LastSetter(calls, k + 2, setter) = calls[k + 1]
         /\ calls[k + 1].of \notin {"reset", setter} =>
              /\ Setters(calls, k + 2, setter) = Setters(calls, k + 1, setter)
              /\ LastSetter(calls, k + 2, setter) = LastSetter(calls, k + 1, setter)
<1>1. PICK s, t : s = Setters(calls, k + 1, setter) /\ t = Setters(calls, k + 2, setter)
  OBVIOUS
<1>2. /\ \A j : j \in 1..((k + 2) - 1) <=> j \in 1..((k + 1) - 1) \/ j = k + 1
      /\ (k + 2) - 1 = k + 1
  OBVIOUS
<1>3. CASE calls[k + 1].of \in {"reset", setter}
  <2>1. k + 1 \in t /\ t \in SUBSET (1..(k + 1))
    BY <1>1, <1>2, <1>3 DEF Setters
  <2>2. Max(t) = k + 1
    BY <2>1, MaxOf
  <2> QED BY <1>1, <1>3, <2>1, <2>2 DEF LastSetter
<1>4. CASE calls[k + 1].of \notin {"reset", setter}
  <2>1. t = s
    BY <1>1, <1>2, <1>4 DEF Setters
  <2> QED BY <1>1, <1>4, <2>1 DEF LastSetter
<1> QED BY <1>3, <1>4

LEMMA NothingReset ==
  /\ NotReset.maxloglevel = LOG_WARNING /\ NotReset.logpath = ""
  /\ NotReset.loglocation = FALSE /\ NotReset.out = <<>>
  BY DEF NotReset

LEMMA NoSetters ==
  ASSUME NEW calls, NEW setter
  PROVE  Setters(calls, 0 + 1, setter) = {}
<1>1. 1..((0 + 1) - 1) = {}
  OBVIOUS
<1> QED BY <1>1 DEF Setters

InForce(w, calls, i) ==
  /\ w.maxloglevel = Most(calls, i) /\ w.logpath = Path(calls, i)
  /\ w.loglocation = Located(calls, i)

ShownTo(calls, k) == {i \in 1..k : Shows(calls[i], Most(calls, i))}
LineAt(calls, i) == LineOf(calls[i], Located(calls, i), Path(calls, i))

WrittenTo(out, calls, k) ==
  /\ Len(out) = Cardinality(ShownTo(calls, k))
  /\ \A i \in ShownTo(calls, k) : out[Place(ShownTo(calls, k), i)] = LineAt(calls, i)

LEMMA InForceNext ==
  ASSUME NEW calls, NEW k \in Nat, NEW w, InForce(w, calls, k + 1),
         NEW after, Told(w, after, calls[k + 1])
  PROVE  InForce(after, calls, k + 2)
<1>1. after.maxloglevel = Most(calls, k + 2)
  <2>1. after.maxloglevel = IF calls[k + 1].of \in {"reset", "reset_maxloglevel"}
                            THEN calls[k + 1].level ELSE Most(calls, k + 1)
    BY DEF Told, InForce
  <2> QED BY <2>1, SettersNext DEF Most
<1>2. after.logpath = Path(calls, k + 2)
  <2>1. after.logpath = IF calls[k + 1].of \in {"reset", "reset_logpath"}
                        THEN PathSet(calls[k + 1]) ELSE Path(calls, k + 1)
    BY DEF Told, InForce
  <2> QED BY <2>1, SettersNext DEF Path
<1>3. after.loglocation = Located(calls, k + 2)
  <2>1. after.loglocation = IF calls[k + 1].of \in {"reset", "reset_loglocation"}
                            THEN calls[k + 1].location ELSE Located(calls, k + 1)
    BY DEF Told, InForce
  <2> QED BY <2>1, SettersNext DEF Located
<1> QED BY <1>1, <1>2, <1>3 DEF InForce

LEMMA WrittenNext ==
  ASSUME NEW calls, NEW k \in Nat, NEW L, NEW w, InForce(w, calls, k + 1), w.out \in Seq(L),
         WrittenTo(w.out, calls, k),
         NEW after, Told(w, after, calls[k + 1]), after.out \in Seq(L)
  PROVE  WrittenTo(after.out, calls, k + 1)
<1>1. PICK S : S = ShownTo(calls, k)
  OBVIOUS
<1>2. S \in SUBSET (1..k) /\ \A i : i \in 1..(k + 1) <=> i \in 1..k \/ i = k + 1
  BY <1>1 DEF ShownTo
<1>3. PICK q \in Seq(L) : q = w.out
  OBVIOUS
<1>4. Len(q) = Cardinality(S) /\ \A i \in S : q[Place(S, i)] = LineAt(calls, i)
  BY <1>1, <1>3 DEF WrittenTo
<1>5. CASE Shows(calls[k + 1], Most(calls, k + 1))
  <2>1. ShownTo(calls, k + 1) = S \cup {k + 1}
    BY <1>1, <1>2, <1>5 DEF ShownTo
  <2>2. PICK l : l = LineAt(calls, k + 1)
    OBVIOUS
  <2>3. after.out = Append(q, l)
    BY <1>3, <1>5, <2>2 DEF Told, InForce, LineAt
  <2>4. /\ Len(after.out) = Len(q) + 1 /\ after.out[Len(q) + 1] = l
        /\ \A i \in 1..Len(q) : after.out[i] = q[i]
    <3>1. PICK X : X = L \cup {l}
      OBVIOUS
    <3>2. q \in Seq(X) /\ l \in X
      BY <3>1, SeqMonotonic
    <3> QED BY <2>3, <3>2, Appended
  <2>5. /\ Cardinality(S \cup {k + 1}) = Cardinality(S) + 1
        /\ Place(S \cup {k + 1}, k + 1) = Cardinality(S) + 1
        /\ \A i \in S : /\ Place(S \cup {k + 1}, i) = Place(S, i)
                        /\ Place(S, i) \in 1..Cardinality(S)
    BY <1>2, Places
  <2>6. ASSUME NEW i \in S \cup {k + 1}
        PROVE  after.out[Place(S \cup {k + 1}, i)] = LineAt(calls, i)
    <3>1. CASE i = k + 1
      BY <1>4, <2>2, <2>4, <2>5, <3>1
    <3>2. CASE i \in S
      BY <1>4, <2>4, <2>5, <3>2
    <3> QED BY <3>1, <3>2
  <2> QED BY <1>4, <2>1, <2>4, <2>5, <2>6 DEF WrittenTo
<1>6. CASE ~Shows(calls[k + 1], Most(calls, k + 1))
  <2>1. ShownTo(calls, k + 1) = S
    BY <1>1, <1>2, <1>6 DEF ShownTo
  <2>2. after.out = q
    BY <1>3, <1>6 DEF Told, InForce
  <2> QED BY <1>4, <2>1, <2>2 DEF WrittenTo
<1> QED BY <1>5, <1>6

\* dolog_, reset: every sequence of calls is logged as it is set.
THEOREM AllLoggedAsSet ==
  ASSUME NEW Paths, NEW Messages, NEW Known, NEW calls \in Seq(CallsOf(Paths, Messages, Known))
  PROVE  LoggedAsSet(calls)
<1>1. PICK n \in Nat : n = Len(calls)
  OBVIOUS
<1>2. DOMAIN calls = 1..n
  BY <1>1
<1>3. PICK r \in [0..n -> WatchOf(Paths, Messages)] : LogTold(r, calls)
  BY <1>1, LogChains
<1>4. PICK T : T = {k \in 0..n : InForce(r[k], calls, k + 1) /\ WrittenTo(r[k].out, calls, k)}
  OBVIOUS
<1>5. 0 \in T
  <2>1. r[0] = NotReset /\ 0 \in 0..n /\ 1..0 = {}
    BY <1>3 DEF LogTold
  <2>2. InForce(r[0], calls, 0 + 1)
    <3>1. Most(calls, 0 + 1) = LOG_WARNING
      BY NoSetters, Zenon DEF Most
    <3>2. Path(calls, 0 + 1) = ""
      BY NoSetters, Zenon DEF Path
    <3>3. Located(calls, 0 + 1) = FALSE
      BY NoSetters, Zenon DEF Located
    <3>4. /\ r[0].maxloglevel = LOG_WARNING /\ r[0].logpath = "" /\ r[0].loglocation = FALSE
      BY <2>1, NothingReset, Zenon
    <3> QED BY <3>1, <3>2, <3>3, <3>4, Zenon DEF InForce
  <2>3. ShownTo(calls, 0) = {}
    BY <2>1 DEF ShownTo
  <2>4. r[0].out = <<>> /\ Len(<<>>) = 0 /\ Cardinality({}) = 0
    <3>1. r[0].out = <<>>
      BY <2>1, NothingReset, Zenon
    <3> QED BY <3>1, FS_EmptySet
  <2>5. WrittenTo(r[0].out, calls, 0)
    BY <2>3, <2>4 DEF WrittenTo
  <2> QED BY <1>4, <2>1, <2>2, <2>5
<1>6. ASSUME NEW k \in T, k < n PROVE k + 1 \in T
  <2>1. /\ k \in Nat /\ k \in 0..n /\ k + 1 \in 0..n /\ k + 1 \in 1..n /\ (k + 1) - 1 = k
        /\ (k + 1) + 1 = k + 2
        /\ InForce(r[k], calls, k + 1) /\ WrittenTo(r[k].out, calls, k)
    BY <1>4, <1>6
  <2>2. Told(r[k], r[k + 1], calls[k + 1])
    BY <1>1, <1>3, <2>1 DEF LogTold
  <2>3. InForce(r[k + 1], calls, k + 2)
    BY <2>1, <2>2, InForceNext
  <2>4. r[k].out \in Seq(LogLines(Paths, Messages)) /\ r[k + 1].out \in Seq(LogLines(Paths, Messages))
    BY <2>1 DEF WatchOf
  <2>5. WrittenTo(r[k + 1].out, calls, k + 1)
    BY <2>1, <2>2, <2>4, WrittenNext
  <2> QED BY <1>4, <2>1, <2>3, <2>5
<1>7. T = 0..n
  BY <1>4, <1>5, <1>6, Along
<1>8. WrittenTo(Written(calls), calls, n)
  <2>1. n \in T
    BY <1>7
  <2> QED BY <1>1, <1>3, <1>4, <2>1 DEF LogTold
<1>9. ShownTo(calls, n) = {i \in DOMAIN calls : /\ calls[i].of \in {"macro", "dolog"}
                                                /\ LevelOf(calls[i]) <= Most(calls, i)}
  BY <1>2 DEF ShownTo, Shows
<1> QED BY <1>8, <1>9 DEF LoggedAsSet, WrittenTo, Place, LineAt, LineOf

-----------------------------------------------------------------------------
(* Text.                                                                   *)

LEMMA StandardIs ==
  ASSUME NEW C, NEW d \in Seq(C), d # <<>>, Slash \in C
  PROVE  /\ StandardizeDirname(d) \in Seq(C) /\ StandardizeDirname(d) # <<>>
         /\ StandardizeDirname(d)[1] = d[1] /\ Last(StandardizeDirname(d)) = Slash
         /\ Last(d) = Slash => StandardizeDirname(d) = d
<1>1. Len(d) \in Nat /\ Len(d) >= 1
  BY EmptySeq
<1>2. CASE Last(d) = Slash
  <2>1. StandardizeDirname(d) = d
    BY <1>2 DEF StandardizeDirname
  <2> QED BY <1>2, <2>1
<1>3. CASE Last(d) # Slash
  <2>1. PICK e : e = Append(d, Slash) /\ e = StandardizeDirname(d)
    BY <1>3 DEF StandardizeDirname
  <2>2. /\ e \in Seq(C) /\ Len(e) = Len(d) + 1 /\ e[Len(d) + 1] = Slash
        /\ \A i \in 1..Len(d) : e[i] = d[i]
    <3>1. /\ Append(d, Slash) \in Seq(C) /\ Len(Append(d, Slash)) = Len(d) + 1
          /\ Append(d, Slash)[Len(d) + 1] = Slash
          /\ \A i \in 1..Len(d) : Append(d, Slash)[i] = d[i]
      BY Appended
    <3> QED BY <2>1, <3>1, Zenon
  <2>3. e # <<>>
    BY <1>1, <2>2
  <2>4. e[1] = d[1] /\ Last(e) = Slash
    BY <1>1, <2>2 DEF Last
  <2> QED BY <1>3, <2>1, <2>2, <2>3, <2>4
<1> QED BY <1>2, <1>3

\* format_dirname, format_filename: every name settles.
THEOREM AllPathsSettle ==
  ASSUME NEW C, Slash \in C, NEW name \in Seq(C), NEW workdir \in Seq(C), NEW elsewhere
  PROVE  PathsSettle(name, workdir, elsewhere)
<1>1. SUFFICES ASSUME Absolute(workdir), name # <<>>
               PROVE  LET dir == FormatDirname(name, workdir)
                          file == ConcatePathname(name, workdir)
                      IN  /\ Absolute(dir) /\ Last(dir) = Slash
                          /\ FormatDirname(dir, elsewhere) = dir
                          /\ Absolute(file) /\ ConcatePathname(file, elsewhere) = file
  BY DEF PathsSettle
<1>2. PICK file : file = ConcatePathname(name, workdir)
  OBVIOUS
<1>3. file \in Seq(C) /\ Absolute(file)
  <2>1. CASE Absolute(name)
    BY <1>2, <2>1 DEF ConcatePathname
  <2>2. CASE ~Absolute(name)
    <3>1. PICK d : d = StandardizeDirname(workdir) /\ file = d \o name
      BY <1>1, <1>2, <2>2 DEF ConcatePathname
    <3>2. d \in Seq(C) /\ d # <<>> /\ d[1] = Slash
      BY <1>1, <3>1, StandardIs DEF Absolute
    <3>3. Len(d) \in Nat /\ Len(d) >= 1 /\ Len(name) \in Nat
      BY <3>2, EmptySeq
    <3>4. /\ file \in Seq(C) /\ Len(file) = Len(d) + Len(name)
          /\ \A i \in 1..(Len(d) + Len(name)) : file[i] = IF i <= Len(d) THEN d[i] ELSE name[i - Len(d)]
      BY <3>1, <3>2, ConcatProperties
    <3>5. file[1] = Slash
      BY <3>2, <3>3, <3>4
    <3>6. file # <<>>
      BY <3>3, <3>4
    <3> QED BY <3>4, <3>5, <3>6 DEF Absolute
  <2> QED BY <2>1, <2>2
<1>4. PICK dir : dir = StandardizeDirname(file) /\ dir = FormatDirname(name, workdir)
  BY <1>2 DEF FormatDirname
<1>5. dir \in Seq(C) /\ Absolute(dir) /\ Last(dir) = Slash
  BY <1>3, <1>4, StandardIs DEF Absolute
<1>6. ConcatePathname(dir, elsewhere) = dir /\ ConcatePathname(file, elsewhere) = file
  BY <1>3, <1>5 DEF ConcatePathname
<1>7. StandardizeDirname(dir) = dir
  BY <1>5, StandardIs DEF Absolute
<1>8. FormatDirname(dir, elsewhere) = dir
  BY <1>6, <1>7 DEF FormatDirname
<1> QED BY <1>2, <1>3, <1>4, <1>5, <1>6, <1>8

\* separate_tokens, by the places where its pieces begin.
Inside(s, seps, i) == i \in DOMAIN s /\ s[i] \notin seps
StartsIn(s, seps) == {i \in DOMAIN s : Inside(s, seps, i) /\ ~Inside(s, seps, i - 1)}
StartAt(s, seps, n) == CHOOSE i \in StartsIn(s, seps) : Place(StartsIn(s, seps), i) = n
EndAt(s, seps, i) ==
  CHOOSE j \in i..Len(s) : ~Inside(s, seps, j + 1) /\ \A k \in i..j : Inside(s, seps, k)

WordOf(w, seps) == w # <<>> /\ \A i \in DOMAIN w : w[i] \notin seps

PieceAt(s, seps, t, a) ==
  /\ t # <<>> /\ a \in Nat /\ a >= 1 /\ a + Len(t) - 1 <= Len(s)
  /\ \A k \in 1..Len(t) : s[a + k - 1] = t[k] /\ t[k] \notin seps
  /\ ~Inside(s, seps, a + Len(t)) /\ ~Inside(s, seps, a - 1)

Pieces(s, seps, tokens, from) ==
  /\ StartsIn(s, seps) = {from[i] : i \in 1..Len(tokens)}
  /\ Cardinality(StartsIn(s, seps)) = Len(tokens)
  /\ \A i \in 1..Len(tokens) :
       PieceAt(s, seps, tokens[i], from[i]) /\ Place(StartsIn(s, seps), from[i]) = i

LEMMA Separated ==
  ASSUME NEW s, NEW seps
  PROVE  SeparateTokens(s, seps) =
           [n \in 1..Cardinality(StartsIn(s, seps)) |->
              SubSeq(s, StartAt(s, seps, n), EndAt(s, seps, StartAt(s, seps, n)))]
  BY DEF SeparateTokens, StartsIn, StartAt, EndAt, Inside, Place

LEMMA PieceIs ==
  ASSUME NEW C, NEW s \in Seq(C), NEW seps, NEW t \in Seq(C), NEW a, PieceAt(s, seps, t, a)
  PROVE  SubSeq(s, a, EndAt(s, seps, a)) = t
<1>1. a \in Nat /\ a >= 1 /\ Len(s) \in Nat /\ Len(t) \in Nat /\ Len(t) >= 1
  BY EmptySeq DEF PieceAt
<1>2. PICK e \in Nat : e = a + Len(t) - 1
  <2>1. PICK m \in Nat : m = Len(t) /\ m >= 1
    BY <1>1
  <2>2. a + m - 1 \in Nat
    BY <1>1, <2>1
  <2> QED BY <2>1, <2>2
<1>3. e \in a..Len(s) /\ e + 1 = a + Len(t)
  BY <1>1, <1>2 DEF PieceAt
<1>4. ASSUME NEW k \in a..e PROVE Inside(s, seps, k)
  <2>1. k - a + 1 \in 1..Len(t) /\ a + (k - a + 1) - 1 = k /\ k \in 1..Len(s)
    BY <1>1, <1>2, <1>3
  <2>2. s[k] = t[k - a + 1] /\ t[k - a + 1] \notin seps
    BY <2>1 DEF PieceAt
  <2> QED BY <2>1, <2>2 DEF Inside
<1>5. ~Inside(s, seps, e + 1)
  BY <1>3 DEF PieceAt
<1>6. ASSUME NEW j \in a..Len(s), ~Inside(s, seps, j + 1), \A k \in a..j : Inside(s, seps, k)
      PROVE  j = e
  <2>1. CASE j < e
    <3>1. j + 1 \in a..e
      BY <1>1, <1>2, <2>1
    <3> QED BY <1>4, <1>6, <3>1
  <2>2. CASE j > e
    <3>1. e + 1 \in a..j
      BY <1>1, <1>3, <2>2
    <3> QED BY <1>5, <1>6, <3>1
  <2> QED BY <1>1, <1>2, <2>1, <2>2
<1>7. EndAt(s, seps, a) = e
  BY <1>3, <1>4, <1>5, <1>6 DEF EndAt
<1>8. PICK u : u = SubSeq(s, a, e)
  OBVIOUS
<1>9. \A i \in a..e : s[i] \in C
  BY <1>1, <1>3
<1>10. /\ u \in Seq(C) /\ Len(u) = IF a <= e THEN e - a + 1 ELSE 0
       /\ \A i \in 1..(e - a + 1) : u[i] = s[a + i - 1]
  <2>1. a \in Int /\ e \in Int
    BY <1>1
  <2>2. \A l \in Int, h \in Int :
          (\A x \in l..h : s[x] \in C) =>
            /\ SubSeq(s, l, h) \in Seq(C)
            /\ Len(SubSeq(s, l, h)) = IF l <= h THEN h - l + 1 ELSE 0
            /\ \A x \in 1..(h - l + 1) : SubSeq(s, l, h)[x] = s[l + x - 1]
    BY SubSeqProperties
  <2> QED BY <1>8, <1>9, <2>1, <2>2
<1>11. Len(u) = Len(t) /\ e - a + 1 = Len(t)
  BY <1>1, <1>2, <1>10
<1>12. \A i \in 1..Len(t) : u[i] = t[i]
  BY <1>10, <1>11 DEF PieceAt
<1>13. u = t
  BY <1>10, <1>11, <1>12, SeqEqual
<1> QED BY <1>7, <1>8, <1>13

LEMMA PiecesAreTokens ==
  ASSUME NEW C, NEW s \in Seq(C), NEW seps, NEW tokens \in Seq(Seq(C)), NEW from,
         Pieces(s, seps, tokens, from)
  PROVE  SeparateTokens(s, seps) = tokens
<1>1. PICK n \in Nat : n = Len(tokens) /\ DOMAIN tokens = 1..n
  OBVIOUS
<1>2. PICK S : S = StartsIn(s, seps)
  OBVIOUS
<1>3. S = {from[i] : i \in 1..n} /\ \A i \in 1..n : Place(S, from[i]) = i
  BY <1>1, <1>2 DEF Pieces
<1>4. ASSUME NEW i \in 1..n PROVE StartAt(s, seps, i) = from[i]
  <2>1. ASSUME NEW x \in S, Place(S, x) = i PROVE x = from[i]
    <3>1. PICK j \in 1..n : x = from[j]
      BY <1>3
    <3>2. Place(S, x) = j
      BY <1>3, <3>1
    <3> QED BY <2>1, <3>1, <3>2
  <2>2. from[i] \in S /\ Place(S, from[i]) = i
    BY <1>3
  <2> QED BY <1>2, <2>1, <2>2 DEF StartAt
<1>5. ASSUME NEW i \in 1..n PROVE SubSeq(s, from[i], EndAt(s, seps, from[i])) = tokens[i]
  <2>1. PICK t \in Seq(C) : t = tokens[i]
    BY <1>1
  <2>2. PieceAt(s, seps, t, from[i])
    BY <1>1, <2>1 DEF Pieces
  <2> QED BY <2>1, <2>2, PieceIs
<1>6. SeparateTokens(s, seps) = [i \in 1..n |-> tokens[i]]
  <2>1. Cardinality(S) = n
    BY <1>1, <1>2 DEF Pieces
  <2> QED BY <1>2, <1>4, <1>5, <2>1, Separated
<1>7. tokens = [i \in 1..n |-> tokens[i]]
  BY <1>1
<1> QED BY <1>6, <1>7

LEMMA OnePiece ==
  ASSUME NEW C, NEW w \in Seq(C), NEW seps, WordOf(w, seps)
  PROVE  Pieces(w, seps, <<w>>, <<1>>)
<1>1. PICK n \in Nat : n = Len(w) /\ n >= 1 /\ DOMAIN w = 1..n
  BY EmptySeq DEF WordOf
<1>2. \A i \in 1..n : Inside(w, seps, i)
  BY <1>1 DEF WordOf, Inside
<1>3. ~Inside(w, seps, 0) /\ ~Inside(w, seps, 1 + n)
  BY <1>1 DEF Inside
<1>4. StartsIn(w, seps) = {1}
  <2>1. \A i \in 1..n : i # 1 => i - 1 \in 1..n
    BY <1>1
  <2>2. 1 \in 1..n /\ 1 - 1 = 0
    BY <1>1
  <2> QED BY <1>1, <1>2, <1>3, <2>1, <2>2 DEF StartsIn
<1>5. Cardinality({1}) = 1 /\ Place({1}, 1) = 1
  <2>1. {j \in {1} : j <= 1} = {1}
    OBVIOUS
  <2> QED BY <2>1, FS_Singleton DEF Place
<1>6. PieceAt(w, seps, w, 1)
  <2>1. \A k \in 1..n : 1 + k - 1 = k /\ w[k] \notin seps
    BY <1>1 DEF WordOf
  <2>2. 1 + n - 1 <= n /\ 1 - 1 = 0
    BY <1>1
  <2> QED BY <1>1, <1>3, <2>1, <2>2 DEF PieceAt, WordOf
<1>7. PICK tokens, from : tokens = <<w>> /\ from = <<1>>
  OBVIOUS
<1>8. Len(tokens) = 1 /\ tokens[1] = w /\ from[1] = 1
  BY <1>7
<1>9. \A i \in 1..1 : i = 1
  OBVIOUS
<1>10. Pieces(w, seps, tokens, from)
  <2>1. {from[i] : i \in 1..1} = {1}
    BY <1>8, <1>9
  <2> QED BY <1>4, <1>5, <1>6, <1>8, <1>9, <2>1 DEF Pieces
<1> QED BY <1>7, <1>10

LEMMA SingleIn ==
  ASSUME NEW C, NEW x \in C
  PROVE  <<x>> \in Seq(C) /\ Len(<<x>>) = 1 /\ <<x>>[1] = x
  OBVIOUS

LEMMA Prefixed ==
  ASSUME NEW C, NEW x \in C, NEW w \in Seq(C)
  PROVE  /\ <<x>> \o w \in Seq(C) /\ Len(<<x>> \o w) = Len(w) + 1
         /\ (<<x>> \o w)[1] = x /\ \A k \in 1..Len(w) : (<<x>> \o w)[k + 1] = w[k]
<1>1. PICK u \in Seq(C) : u = <<x>>
  BY SingleIn, Zenon
<1>2. Len(u) = 1 /\ u[1] = x
  BY <1>1, SingleIn, Zenon
<1>3. /\ u \o w \in Seq(C) /\ Len(u \o w) = Len(u) + Len(w)
      /\ \A i \in 1..(Len(u) + Len(w)) : (u \o w)[i] = IF i <= Len(u) THEN u[i] ELSE w[i - Len(u)]
  BY ConcatProperties
<1>4. PICK n \in Nat : n = Len(w)
  OBVIOUS
<1>5. PICK v : v = u \o w
  OBVIOUS
<1>6. v[1] = x
  <2>1. 1 \in 1..(1 + n) /\ 1 <= 1
    BY <1>4
  <2> QED BY <1>2, <1>3, <1>4, <1>5, <2>1
<1>7. ASSUME NEW k \in 1..n PROVE v[k + 1] = w[k]
  <2>1. k + 1 \in 1..(1 + n) /\ ~(k + 1 <= 1) /\ (k + 1) - 1 = k
    BY <1>7
  <2> QED BY <1>2, <1>3, <1>4, <1>5, <2>1
<1>8. v \in Seq(C) /\ Len(v) = n + 1
  BY <1>2, <1>3, <1>4, <1>5
<1> QED BY <1>1, <1>4, <1>5, <1>6, <1>7, <1>8, Zenon

LEMMA PieceAdded ==
  ASSUME NEW C, NEW s \in Seq(C), NEW seps, NEW tokens \in Seq(Seq(C)), NEW from,
         Pieces(s, seps, tokens, from),
         NEW x \in C, x \in seps, NEW w \in Seq(C), WordOf(w, seps)
  PROVE  \E next : Pieces(s \o (<<x>> \o w), seps, Append(tokens, w), next)
<1>1. PICK n \in Nat, l \in Nat, m \in Nat : n = Len(tokens) /\ l = Len(s) /\ m = Len(w) /\ m >= 1
  BY EmptySeq DEF WordOf
<1>2. PICK v \in Seq(C) : v = <<x>> \o w
  BY Prefixed, Zenon
<1>3. Len(v) = m + 1 /\ v[1] = x /\ \A k \in 1..m : v[k + 1] = w[k]
  <2>1. /\ Len(<<x>> \o w) = Len(w) + 1 /\ (<<x>> \o w)[1] = x
        /\ \A k \in 1..Len(w) : (<<x>> \o w)[k + 1] = w[k]
    <3>1. \A b \in Seq(C) :
            /\ Len(<<x>> \o b) = Len(b) + 1 /\ (<<x>> \o b)[1] = x
            /\ \A k \in 1..Len(b) : (<<x>> \o b)[k + 1] = b[k]
      BY Prefixed
    <3> QED BY <3>1, Zenon
  <2>2. Len(v) = Len(w) + 1 /\ v[1] = x /\ \A k \in 1..Len(w) : v[k + 1] = w[k]
    BY <1>2, <2>1, Zenon
  <2> QED BY <1>1, <2>2, Zenon
<1>4. PICK z \in Seq(C) : z = s \o v
  BY ConcatProperties, Zenon
<1>5. /\ Len(z) = l + 1 + m /\ \A i \in 1..l : z[i] = s[i]
      /\ z[l + 1] = x /\ \A k \in 1..m : z[l + 1 + k] = w[k]
  <2>1. /\ Len(z) = l + (m + 1)
        /\ \A i \in 1..(l + (m + 1)) : z[i] = IF i <= l THEN s[i] ELSE v[i - l]
    <3>1. /\ Len(s \o v) = Len(s) + Len(v)
          /\ \A i \in 1..(Len(s) + Len(v)) :
               (s \o v)[i] = IF i <= Len(s) THEN s[i] ELSE v[i - Len(s)]
      BY ConcatProperties
    <3> QED BY <1>1, <1>3, <1>4, <3>1, Zenon
  <2>2. \A i \in 1..l : i \in 1..(l + (m + 1)) /\ i <= l
    OBVIOUS
  <2>3. l + 1 \in 1..(l + (m + 1)) /\ ~(l + 1 <= l) /\ (l + 1) - l = 1
    OBVIOUS
  <2>4. \A k \in 1..m : /\ l + 1 + k \in 1..(l + (m + 1)) /\ ~(l + 1 + k <= l)
                        /\ (l + 1 + k) - l = k + 1
    OBVIOUS
  <2>5. z[l + 1] = v[1]
    BY <2>1, <2>3
  <2>6. \A k \in 1..m : z[l + 1 + k] = v[k + 1]
    BY <2>1, <2>4
  <2> QED BY <1>3, <2>1, <2>2, <2>5, <2>6
<1>6. DOMAIN s = 1..l /\ DOMAIN z = 1..(l + 1 + m) /\ DOMAIN w = 1..m
  BY <1>1, <1>5
<1>7. \A i \in Int : i <= l => (Inside(z, seps, i) <=> Inside(s, seps, i))
  <2>1. \A i \in Int : i <= l => (i \in 1..(l + 1 + m) <=> i \in 1..l)
    OBVIOUS
  <2> QED BY <1>5, <1>6, <2>1 DEF Inside
<1>8. ~Inside(z, seps, l + 1) /\ ~Inside(z, seps, l + 1 + m + 1)
  BY <1>5, <1>6 DEF Inside
<1>9. ASSUME NEW k \in 1..m PROVE Inside(z, seps, l + 1 + k)
  <2>1. l + 1 + k \in 1..(l + 1 + m)
    BY <1>9
  <2>2. w[k] \notin seps
    BY <1>6 DEF WordOf
  <2> QED BY <1>5, <1>6, <2>1, <2>2 DEF Inside
<1>10. PICK S : S = StartsIn(s, seps)
  OBVIOUS
<1>11. S \in SUBSET (1..(l + 1))
  BY <1>6, <1>10 DEF StartsIn
<1>12. StartsIn(z, seps) = S \cup {(l + 1) + 1}
  <2>1. ASSUME NEW i \in 1..(l + 1 + m) PROVE i \in StartsIn(z, seps) <=> i \in S \cup {(l + 1) + 1}
    <3>1. CASE i <= l
      <4>1. i \in 1..l /\ i - 1 \in Int /\ i - 1 <= l /\ i \in Int /\ i # (l + 1) + 1
        BY <3>1
      <4> QED BY <1>6, <1>7, <1>10, <3>1, <4>1 DEF StartsIn
    <3>2. CASE i = l + 1
      <4>1. i \notin StartsIn(z, seps)
        BY <1>8, <3>2 DEF StartsIn
      <4>2. i \notin S
        BY <1>6, <1>10, <3>2 DEF StartsIn
      <4>3. i # (l + 1) + 1
        BY <3>2
      <4> QED BY <4>1, <4>2, <4>3
    <3>3. CASE i = l + 2
      <4>1. i - 1 = l + 1 /\ i = l + 1 + 1 /\ 1 \in 1..m /\ i = (l + 1) + 1
        BY <1>1, <3>3
      <4>2. Inside(z, seps, i)
        BY <1>9, <4>1
      <4> QED BY <1>6, <1>8, <4>1, <4>2 DEF StartsIn
    <3>4. CASE i > l + 2
      <4>1. PICK k \in 1..m : i - 1 = l + 1 + k
        <5>1. i - 1 - (l + 1) \in 1..m /\ i - 1 = l + 1 + (i - 1 - (l + 1))
          BY <3>4
        <5> QED BY <5>1
      <4>2. Inside(z, seps, i - 1)
        BY <1>9, <4>1
      <4>3. i \notin S /\ i # (l + 1) + 1
        BY <1>11, <3>4
      <4> QED BY <4>2, <4>3 DEF StartsIn
    <3> QED BY <3>1, <3>2, <3>3, <3>4
  <2>2. StartsIn(z, seps) \subseteq 1..(l + 1 + m)
    BY <1>6 DEF StartsIn
  <2>3. S \cup {(l + 1) + 1} \subseteq 1..(l + 1 + m)
    BY <1>1, <1>6, <1>10 DEF StartsIn
  <2> QED BY <2>1, <2>2, <2>3
<1>13. PICK next : next = [i \in 1..(n + 1) |-> IF i = n + 1 THEN (l + 1) + 1 ELSE from[i]]
  OBVIOUS
<1>14. PICK all \in Seq(Seq(C)) : all = Append(tokens, w)
  BY Appended, Zenon
<1>15. Len(all) = n + 1 /\ all[n + 1] = w /\ \A i \in 1..n : all[i] = tokens[i]
  BY <1>1, <1>14, Appended
<1>16. next[n + 1] = (l + 1) + 1 /\ \A i \in 1..n : next[i] = from[i]
  BY <1>13
<1>17. \A i : i \in 1..(n + 1) <=> i \in 1..n \/ i = n + 1
  OBVIOUS
<1>18. S = {from[i] : i \in 1..n} /\ Cardinality(S) = n
  BY <1>1, <1>10 DEF Pieces
<1>19. StartsIn(z, seps) = {next[i] : i \in 1..(n + 1)}
  BY <1>12, <1>16, <1>17, <1>18
<1>20. /\ Cardinality(S \cup {(l + 1) + 1}) = Cardinality(S) + 1
       /\ Place(S \cup {(l + 1) + 1}, (l + 1) + 1) = Cardinality(S) + 1
       /\ \A i \in S : Place(S \cup {(l + 1) + 1}, i) = Place(S, i)
  <2>1. l + 1 \in Nat
    OBVIOUS
  <2> QED BY <1>11, <2>1, Places
<1>21. PieceAt(z, seps, w, (l + 1) + 1)
  <2>1. /\ (l + 1) + 1 \in Nat /\ (l + 1) + 1 >= 1 /\ (l + 1) + 1 + m - 1 <= Len(z)
        /\ (l + 1) + 1 + m = l + 1 + m + 1 /\ ((l + 1) + 1) - 1 = l + 1
    BY <1>5
  <2>2. \A k \in 1..m : (l + 1) + 1 + k - 1 = l + 1 + k
    OBVIOUS
  <2>3. w # <<>> /\ \A k \in 1..m : w[k] \notin seps
    BY <1>6 DEF WordOf
  <2> QED BY <1>1, <1>5, <1>8, <2>1, <2>2, <2>3 DEF PieceAt
<1>22. ASSUME NEW i \in 1..n PROVE PieceAt(z, seps, tokens[i], from[i])
  <2>1. PICK t \in Seq(C), a \in {from[i]} : t = tokens[i] /\ a = from[i]
    BY <1>1
  <2>2. PieceAt(s, seps, t, a)
    BY <1>1, <2>1 DEF Pieces
  <2>3. a \in Nat /\ a >= 1 /\ Len(t) \in Nat /\ Len(t) >= 1 /\ a + Len(t) - 1 <= l
    BY <1>1, <2>2, EmptySeq DEF PieceAt
  <2>4. ASSUME NEW k \in 1..Len(t) PROVE z[a + k - 1] = t[k] /\ t[k] \notin seps
    <3>1. a + k - 1 \in 1..l
      BY <2>3
    <3> QED BY <1>5, <2>2, <3>1 DEF PieceAt
  <2>8. PICK b \in Nat : b = Len(t)
    BY <2>3
  <2>9. a + b <= l \/ a + b = l + 1
    <3>1. a \in Nat /\ a + b - 1 <= l
      BY <2>3, <2>8
    <3> QED BY <3>1
  <2>5. ~Inside(z, seps, a + Len(t))
    <3>1. CASE a + Len(t) <= l
      BY <1>7, <2>2, <2>3, <3>1 DEF PieceAt
    <3>2. CASE a + Len(t) = l + 1
      BY <1>8, <3>2
    <3> QED BY <2>8, <2>9, <3>1, <3>2
  <2>6. ~Inside(z, seps, a - 1)
    <3>1. a - 1 \in Int /\ a - 1 <= l
      BY <2>3
    <3> QED BY <1>7, <2>2, <3>1 DEF PieceAt
  <2>7. a + Len(t) - 1 <= Len(z)
    BY <1>5, <2>3
  <2> QED BY <2>1, <2>2, <2>3, <2>4, <2>5, <2>6, <2>7 DEF PieceAt
<1>23. ASSUME NEW i \in 1..(n + 1)
       PROVE  PieceAt(z, seps, all[i], next[i]) /\ Place(S \cup {(l + 1) + 1}, next[i]) = i
  <2>1. CASE i = n + 1
    BY <1>15, <1>16, <1>18, <1>20, <1>21, <2>1
  <2>2. CASE i \in 1..n
    <3>1. Place(S, from[i]) = i /\ from[i] \in S
      BY <1>1, <1>10, <1>18, <2>2 DEF Pieces
    <3> QED BY <1>15, <1>16, <1>20, <1>22, <2>2, <3>1
  <2> QED BY <2>1, <2>2
<1>24. Pieces(z, seps, all, next)
  BY <1>12, <1>15, <1>18, <1>19, <1>20, <1>23 DEF Pieces
<1> QED BY <1>2, <1>4, <1>14, <1>24

\* assemble_tokens, token by token.
FlatTo(f, seqs, n) ==
  /\ f[1] = seqs[1] /\ \A i \in 1..n : i # 1 => f[i] = f[i - 1] \o seqs[i]
  /\ FlattenSeq(seqs) = f[n]

LEMMA Flattened ==
  ASSUME NEW C, NEW seqs \in Seq(Seq(C)), NEW n \in Nat, n = Len(seqs), n >= 1
  PROVE  \E f \in [1..n -> Seq(C)] : FlatTo(f, seqs, n)
<1>1. PICK V : V = Seq(C)
  OBVIOUS
<1>2. seqs \in Seq(V) /\ \A i \in 1..n : seqs[i] \in V
  BY <1>1
<1>3. \A a \in V, b \in V : a \o b \in V
  BY <1>1, ConcatProperties
<1>4. PICK base \in V : base = <<>>
  BY <1>1, EmptySeq, Zenon
<1>5. PICK F : F = [p \in (1..n) \X V |-> IF p[1] = 1 THEN seqs[p[1]] ELSE p[2] \o seqs[p[1]]]
  OBVIOUS
<1>6. /\ F \in [(1..n) \X V -> V]
      /\ \A i \in 1..n, a \in V : F[<<i, a>>] = IF i = 1 THEN seqs[i] ELSE a \o seqs[i]
  BY <1>2, <1>3, <1>5
<1>7. PICK r \in [0..n -> V] : Chained(r, n, base, F)
  BY <1>4, <1>6, Recurs
<1>8. \A i \in 1..n : r[i] = IF i = 1 THEN seqs[i] ELSE r[i - 1] \o seqs[i]
  <2>1. \A i \in 1..n : i - 1 \in 0..n
    OBVIOUS
  <2> QED BY <1>6, <1>7, <2>1 DEF Chained
<1> DEFINE Flat_(f) == f = [i \in 1..Len(seqs) |->
                              IF i = 1 THEN seqs[i] ELSE f[i - 1] \o seqs[i]]
<1>9. PICK g \in [1..n -> V] : g = [i \in 1..n |-> r[i]]
  OBVIOUS
<1>10. Flat_(g)
  <2>1. \A i \in 1..n : g[i] = IF i = 1 THEN seqs[i] ELSE g[i - 1] \o seqs[i]
    <3>1. \A i \in 1..n : i # 1 => i - 1 \in 1..n
      OBVIOUS
    <3> QED BY <1>8, <1>9, <3>1
  <2> QED BY <2>1
<1>11. PICK f : Flat_(f) /\ f = (CHOOSE h : Flat_(h))
  <2> HIDE DEF Flat_
  <2> QED BY <1>10
<1>12. FlattenSeq(seqs) = f[n]
  <2>1. Len(seqs) # 0 /\ Len(seqs) = n
    OBVIOUS
  <2>2. FlattenSeq(seqs) = f[Len(seqs)]
    BY <1>11, <2>1, Zenon DEF FlattenSeq
  <2> QED BY <2>1, <2>2, Zenon
<1>13. /\ f = [i \in 1..n |-> f[i]] /\ f[1] = seqs[1]
       /\ \A i \in 1..n : i # 1 => f[i] = f[i - 1] \o seqs[i]
  <2>1. \A i \in 1..n : f[i] = IF i = 1 THEN seqs[i] ELSE f[i - 1] \o seqs[i]
    BY <1>11
  <2>2. f = [i \in 1..n |-> f[i]]
    BY <1>11
  <2>3. 1 \in 1..n
    OBVIOUS
  <2> QED BY <2>1, <2>2, <2>3, Zenon
<1>14. PICK T : T = {k \in 0..n : k >= 1 => f[k] \in V}
  OBVIOUS
<1>15. 0 \in T
  BY <1>14
<1>16. ASSUME NEW k \in T, k < n PROVE k + 1 \in T
  <2>1. k \in 0..n /\ k + 1 \in 0..n /\ k + 1 \in 1..n /\ (k + 1) - 1 = k
    BY <1>14, <1>16
  <2>2. CASE k = 0
    BY <1>2, <1>13, <1>14, <2>1, <2>2
  <2>3. CASE k # 0
    <3>1. k >= 1 /\ k + 1 # 1
      BY <2>1, <2>3
    <3>2. f[k] \in V /\ seqs[k + 1] \in V /\ f[k + 1] = f[k] \o seqs[k + 1]
      <4>1. f[k] \in V /\ seqs[k + 1] \in V
        BY <1>2, <1>14, <2>1, <3>1
      <4>2. f[k + 1] = f[(k + 1) - 1] \o seqs[k + 1]
        BY <1>13, <2>1, <3>1, Zenon
      <4> QED BY <2>1, <4>1, <4>2
    <3>3. f[k + 1] \in V
      BY <1>3, <3>2, Zenon
    <3> QED BY <1>14, <2>1, <3>3, Zenon
  <2> QED BY <2>2, <2>3
<1>17. T = 0..n
  BY <1>14, <1>15, <1>16, Along
<1>18. \A i \in 1..n : f[i] \in V
  <2>1. \A i \in 1..n : i \in 0..n /\ i >= 1
    OBVIOUS
  <2> QED BY <1>14, <1>17, <2>1
<1>19. f \in [1..n -> V]
  BY <1>13, <1>18
<1> QED BY <1>1, <1>12, <1>13, <1>19 DEF FlatTo

LEMMA JoinedWord ==
  ASSUME NEW C, NEW a \in Seq(C), NEW b \in Seq(C), NEW seps, WordOf(a, seps), WordOf(b, seps)
  PROVE  a \o b \in Seq(C) /\ WordOf(a \o b, seps)
<1>1. PICK v \in Seq(C) : v = a \o b
  BY ConcatProperties, Zenon
<1>2. PICK m \in Nat, n \in Nat : m = Len(a) /\ n = Len(b) /\ m >= 1
  BY EmptySeq DEF WordOf
<1>3. DOMAIN a = 1..m /\ DOMAIN b = 1..n
  BY <1>2
<1>4. Len(v) = m + n /\ \A i \in 1..(m + n) : v[i] = IF i <= m THEN a[i] ELSE b[i - m]
  <2>1. /\ Len(a \o b) = Len(a) + Len(b)
        /\ \A i \in 1..(Len(a) + Len(b)) :
             (a \o b)[i] = IF i <= Len(a) THEN a[i] ELSE b[i - Len(a)]
    BY ConcatProperties
  <2> QED BY <1>1, <1>2, <2>1, Zenon
<1>5. ASSUME NEW i \in 1..(m + n) PROVE v[i] \notin seps
  <2>1. CASE i <= m
    <3>1. i \in 1..m
      BY <2>1
    <3> QED BY <1>3, <1>4, <2>1, <3>1 DEF WordOf
  <2>2. CASE ~(i <= m)
    <3>1. i - m \in 1..n
      BY <2>2
    <3> QED BY <1>3, <1>4, <2>2, <3>1 DEF WordOf
  <2> QED BY <2>1, <2>2
<1>6. v # <<>> /\ DOMAIN v = 1..(m + n)
  BY <1>2, <1>4
<1> QED BY <1>1, <1>5, <1>6 DEF WordOf

Regrouped(a, b, c) == (a \o b) \o c = a \o (b \o c)

LEMMA Regroups ==
  ASSUME NEW C, NEW a \in Seq(C), NEW b \in Seq(C), NEW c \in Seq(C)
  PROVE  Regrouped(a, b, c)
BY ConcatAssociative DEF Regrouped

\* The tokens that a reader sees in a line: the first one has the leader in it.
SeenTokens(head, tokens, k) == [i \in 1..k |-> IF i = 1 THEN head ELSE tokens[i]]

LEMMA LineSeen ==
  ASSUME NEW C, NEW lead \in Seq(C), NEW tokens \in Seq(Seq(C)), NEW n \in Nat,
         n = Len(tokens), n >= 1, Blank \in C, WordOf(lead, {Blank}),
         \A i \in 1..n : WordOf(tokens[i], {Blank})
  PROVE  SeparateTokens(lead \o AssembleTokens(tokens, <<Blank>>), {Blank})
           = SeenTokens(lead \o tokens[1], tokens, n)
<1>1. PICK V : V = Seq(C)
  OBVIOUS
<1>2. /\ tokens \in Seq(V) /\ DOMAIN tokens = 1..n /\ 1 \in 1..n
      /\ \A i \in 1..n : tokens[i] \in V
  BY <1>1
<1>3. PICK seqs : seqs = [i \in DOMAIN tokens |->
                            IF i = 1 THEN tokens[i] ELSE <<Blank>> \o tokens[i]]
  OBVIOUS
<1>4. \A i \in 1..n : <<Blank>> \o tokens[i] \in V
  BY <1>1, <1>2, Prefixed
<1>5. seqs \in Seq(V) /\ Len(seqs) = n
  <2>1. seqs \in [1..n -> V]
    BY <1>2, <1>3, <1>4
  <2> QED BY <2>1
<1>6. PICK f \in [1..n -> V] : FlatTo(f, seqs, n)
  BY <1>1, <1>5, Flattened
<1>7. AssembleTokens(tokens, <<Blank>>) = f[n]
  BY <1>3, <1>6 DEF AssembleTokens, FlatTo
<1>8. PICK head \in V : head = lead \o tokens[1]
  BY <1>1, <1>2, ConcatProperties
<1>9. WordOf(head, {Blank})
  BY <1>1, <1>2, <1>8, JoinedWord
<1> DEFINE Text_(k) == lead \o f[k]
           Seen_(k) == SeenTokens(head, tokens, k)
<1>10. PICK T : T = {k \in 0..n : k >= 1 => \E from : Pieces(Text_(k), {Blank}, Seen_(k), from)}
  OBVIOUS
<1>11. \A k \in 1..n : Text_(k) \in Seq(C) /\ Seen_(k) \in Seq(V) /\ Len(Seen_(k)) = k
  <2>1. ASSUME NEW k \in 1..n PROVE Text_(k) \in Seq(C)
    BY <1>1, ConcatProperties
  <2>2. ASSUME NEW k \in 1..n PROVE Seen_(k) \in Seq(V) /\ Len(Seen_(k)) = k
    <3>1. k \in Nat /\ \A i \in 1..k : i \in 1..n
      OBVIOUS
    <3>2. Seen_(k) \in [1..k -> V]
      BY <1>2, <3>1 DEF SeenTokens
    <3> QED BY <3>1, <3>2
  <2> QED BY <2>1, <2>2
<1>12. 0 \in T
  BY <1>10
<1>13. ASSUME NEW k \in T, k < n PROVE k + 1 \in T
  <2>1. k \in 0..n /\ k + 1 \in 0..n /\ k + 1 \in 1..n /\ (k + 1) - 1 = k
    BY <1>10, <1>13
  <2>2. CASE k = 0
    <3>1. Text_(1) = head
      BY <1>2, <1>3, <1>6, <1>8 DEF FlatTo
    <3>2. Seen_(1) = <<head>>
      <4>1. Seen_(1) = [i \in 1..1 |-> head]
        BY DEF SeenTokens
      <4> QED BY <4>1
    <3>3. Pieces(Text_(1), {Blank}, Seen_(1), <<1>>)
      BY <1>1, <1>9, <3>1, <3>2, OnePiece
    <3> QED BY <1>10, <2>1, <2>2, <3>3
  <2>3. CASE k # 0
    <3>1. k \in 1..n /\ k >= 1 /\ k + 1 # 1
      BY <2>1, <2>3
    <3>2. PICK from : Pieces(Text_(k), {Blank}, Seen_(k), from)
      BY <1>10, <3>1
    <3>3. PICK w \in V : w = tokens[k + 1] /\ WordOf(w, {Blank})
      BY <1>2, <2>1
    <3>4. f[k + 1] = f[k] \o (<<Blank>> \o w)
      BY <1>2, <1>3, <1>6, <2>1, <3>1, <3>3 DEF FlatTo
    <3>5. Text_(k + 1) = Text_(k) \o (<<Blank>> \o w)
      <4>1. f[k] \in Seq(C) /\ <<Blank>> \o w \in Seq(C)
        <5>1. f[k] \in V
          BY <3>1
        <5>2. <<Blank>> \o w \in V
          BY <1>4, <2>1, <3>3, Zenon
        <5> QED BY <1>1, <5>1, <5>2
      <4>2. PICK a \in Seq(C), b \in Seq(C) : a = f[k] /\ b = <<Blank>> \o w
        BY <4>1, Zenon
      <4>3. Regrouped(lead, a, b)
        BY Regroups
      <4> QED BY <3>4, <4>2, <4>3, Zenon DEF Regrouped
    <3>6. Seen_(k + 1) = Append(Seen_(k), w)
      <4>1. Append(Seen_(k), w) \in Seq(V) /\ Len(Append(Seen_(k), w)) = k + 1
        BY <1>11, <3>1, Appended
      <4>2. Seen_(k + 1) \in Seq(V) /\ Len(Seen_(k + 1)) = k + 1
        BY <1>11, <2>1
      <4>3. ASSUME NEW i \in 1..(k + 1) PROVE Append(Seen_(k), w)[i] = Seen_(k + 1)[i]
        <5>1. CASE i = k + 1
          <6>1. Append(Seen_(k), w)[k + 1] = w
            BY <1>11, <3>1, Appended
          <6>2. Seen_(k + 1)[k + 1] = tokens[k + 1]
            BY <2>1, <3>1 DEF SeenTokens
          <6> QED BY <3>3, <5>1, <6>1, <6>2
        <5>2. CASE i # k + 1
          <6>1. i \in 1..k
            BY <2>1, <5>2
          <6>2. Append(Seen_(k), w)[i] = Seen_(k)[i]
            BY <1>11, <3>1, <6>1, Appended
          <6> QED BY <6>1, <6>2 DEF SeenTokens
        <5> QED BY <5>1, <5>2
      <4> QED BY <4>1, <4>2, <4>3, SeqEqual
    <3>7. \E next : Pieces(Text_(k) \o (<<Blank>> \o w), {Blank}, Append(Seen_(k), w), next)
      <4>1. PICK s \in Seq(C), toks \in Seq(Seq(C)) : s = Text_(k) /\ toks = Seen_(k)
        BY <1>1, <1>11, <3>1
      <4>2. Pieces(s, {Blank}, toks, from) /\ w \in Seq(C) /\ Blank \in {Blank}
        BY <1>1, <3>2, <4>1
      <4>3. \E next : Pieces(s \o (<<Blank>> \o w), {Blank}, Append(toks, w), next)
        BY <3>3, <4>2, PieceAdded
      <4> QED BY <4>1, <4>3
    <3> QED BY <1>10, <2>1, <3>5, <3>6, <3>7
  <2> QED BY <2>2, <2>3
<1>14. T = 0..n
  BY <1>10, <1>12, <1>13, Along
<1>15. PICK from : Pieces(Text_(n), {Blank}, Seen_(n), from)
  <2>1. n \in T /\ n >= 1
    BY <1>14
  <2> QED BY <1>10, <2>1, Zenon
<1>16. SeparateTokens(Text_(n), {Blank}) = Seen_(n)
  <2>0. n \in 1..n
    OBVIOUS
  <2>1. PICK s \in Seq(C), toks \in Seq(Seq(C)) : s = Text_(n) /\ toks = Seen_(n)
    BY <1>1, <1>11, <2>0
  <2> QED BY <1>15, <2>1, PiecesAreTokens
<1> QED BY <1>7, <1>8, <1>16

\* assemble_configstring, parse_configstring: every line that can be read back is.
THEOREM AllReadBack ==
  ASSUME NEW C, Blank \in C, Equals \in C, NEW leader \in Seq(C), NEW tokens \in Seq(Seq(C))
  PROVE  ConfigRoundTrip(leader, tokens)
<1> DEFINE Word_(s) == s # <<>> /\ \A i \in DOMAIN s : s[i] # Blank
           Plain_(s) == Word_(s) /\ \A i \in DOMAIN s : s[i] # Equals
<1>1. SUFFICES ASSUME tokens # <<>>, Plain_(leader), Plain_(tokens[1]),
                      \A i \in DOMAIN tokens : Word_(tokens[i]) /\ tokens[i][1] # Hash
               PROVE  ParseConfigstring(AssembleConfigstring(leader, tokens))
                        = [parsed |-> TRUE, leader |-> leader, tokens |-> tokens]
  BY DEF ConfigRoundTrip
<1>2. PICK n \in Nat : n = Len(tokens) /\ n >= 1 /\ DOMAIN tokens = 1..n /\ 1 \in 1..n
  BY <1>1, EmptySeq
<1>3. PICK V : V = Seq(C)
  OBVIOUS
<1>4. tokens \in Seq(V) /\ \A i \in 1..n : tokens[i] \in V
  BY <1>2, <1>3
<1>5. PICK first \in Seq(C) : first = tokens[1]
  BY <1>2, <1>3, <1>4
<1>6. /\ WordOf(leader, {Blank}) /\ WordOf(leader, {Equals})
      /\ WordOf(first, {Equals}) /\ \A i \in 1..n : WordOf(tokens[i], {Blank})
  BY <1>1, <1>2, <1>5 DEF WordOf
<1>7. PICK eq \in Seq(C) : eq = <<Equals>> /\ Len(eq) = 1 /\ eq[1] = Equals
  BY SingleIn, Zenon
<1>8. WordOf(eq, {Blank})
  <2>1. DOMAIN eq = 1..1 /\ \A i \in 1..1 : i = 1
    BY <1>7
  <2>2. eq # <<>>
    BY <1>7
  <2> QED BY <1>7, <2>1, <2>2, TokensAssumption DEF TokensAssumption, WordOf
<1>9. PICK lead \in Seq(C) : lead = leader \o eq /\ WordOf(lead, {Blank})
  <2>1. leader \o eq \in Seq(C) /\ WordOf(leader \o eq, {Blank})
    BY <1>6, <1>8, JoinedWord
  <2> QED BY <2>1, Zenon
<1>10. PICK head \in Seq(C) : head = lead \o first
  BY ConcatProperties, Zenon
<1>11. PICK seen : seen = SeenTokens(head, tokens, n)
  OBVIOUS
<1>12. SeparateTokens(AssembleConfigstring(leader, tokens), {Blank}) = seen
  <2>1. SeparateTokens(lead \o AssembleTokens(tokens, <<Blank>>), {Blank}) = seen
    BY <1>2, <1>5, <1>6, <1>9, <1>10, <1>11, LineSeen
  <2> QED BY <1>7, <1>9, <2>1 DEF AssembleConfigstring
<1>13. seen \in Seq(V) /\ Len(seen) = n /\ seen[1] = head /\ seen # <<>>
  <2>1. seen \in [1..n -> V] /\ seen[1] = head
    BY <1>2, <1>3, <1>4, <1>11 DEF SeenTokens
  <2>2. seen \in Seq(V) /\ Len(seen) = n
    BY <2>1
  <2> QED BY <1>2, <2>1, <2>2
<1>14. [seen EXCEPT ![1] = first] = tokens
  <2>1. [seen EXCEPT ![1] = first] = [i \in 1..n |-> tokens[i]]
    BY <1>2, <1>5, <1>11 DEF SeenTokens
  <2>2. tokens = [i \in 1..n |-> tokens[i]]
    BY <1>2
  <2> QED BY <2>1, <2>2
<1>15. PICK TK : TK = SeparateTokens(head, {Equals}) /\ Len(TK) = 2 /\ TK[1] = leader /\ TK[2] = first
  <2>1. Pieces(leader, {Equals}, <<leader>>, <<1>>)
    BY <1>6, OnePiece
  <2>2. PICK one \in Seq(Seq(C)) : one = <<leader>> /\ Len(one) = 1 /\ one[1] = leader
    BY SingleIn, Zenon
  <2>3. Equals \in {Equals}
    OBVIOUS
  <2>4. PICK from : Pieces(leader \o (<<Equals>> \o first), {Equals}, Append(one, first), from)
    BY <1>6, <2>1, <2>2, <2>3, PieceAdded
  <2>5. head = leader \o (eq \o first)
    BY <1>9, <1>10, ConcatAssociative
  <2>6. PICK two \in Seq(Seq(C)) :
          two = Append(one, first) /\ Len(two) = 2 /\ two[1] = leader /\ two[2] = first
    <3>1. /\ Append(one, first) \in Seq(Seq(C)) /\ Len(Append(one, first)) = Len(one) + 1
          /\ Append(one, first)[Len(one) + 1] = first
          /\ \A i \in 1..Len(one) : Append(one, first)[i] = one[i]
      BY Appended
    <3>2. 1 \in 1..1 /\ 1 + 1 = 2
      OBVIOUS
    <3> QED BY <2>2, <3>1, <3>2
  <2>7. SeparateTokens(head, {Equals}) = two
    BY <1>7, <2>4, <2>5, <2>6, PiecesAreTokens
  <2> QED BY <2>6, <2>7
<1>16. UntilComment(tokens) = tokens
  <2>1. {i \in DOMAIN tokens : tokens[i][1] = Hash} = {}
    BY <1>1
  <2> QED BY <2>1 DEF UntilComment
<1> QED BY <1>12, <1>13, <1>14, <1>15, <1>16 DEF ParseConfigstring

LEMMA BoundedIsSeq ==
  ASSUME NEW S, NEW n \in Nat, NEW s \in BoundedSeq(S, n)
  PROVE  s \in Seq(S)
<1>1. s \in UNION {[1..m -> S] : m \in 0..n}
  BY DEF BoundedSeq, SeqOf
<1>2. PICK m \in 0..n : s \in [1..m -> S]
  BY <1>1
<1> QED BY <1>2

LEMMA TokensInput ==
  ASSUME input \in Inputs, input.of = "tokens"
  PROVE  input.leader \in Seq(Chars) /\ input.tokens \in Seq(Seq(Chars))
<1>1. input.leader \in Words /\ input.tokens \in BoundedSeq(Words, 2)
  <2>1. input \in [of : {"tokens"}, leader : Words, tokens : BoundedSeq(Words, 2)]
    BY InputOfKind DEF InputsOf
  <2> QED BY <2>1
<1>2. \A w \in Words : w \in Seq(Chars)
  <2>1. 2 \in Nat
    OBVIOUS
  <2> QED BY <2>1, BoundedIsSeq, Zenon DEF Words
<1>3. PICK W, V, tokens : W = Words /\ V = Seq(Chars) /\ tokens = input.tokens
  OBVIOUS
<1>4. tokens \in Seq(W)
  <2>1. 2 \in Nat /\ tokens \in BoundedSeq(W, 2)
    BY <1>1, <1>3
  <2> QED BY <2>1, BoundedIsSeq, Zenon
<1>5. tokens \in Seq(V)
  <2>1. \A w \in W : w \in V
    BY <1>2, <1>3
  <2> QED BY <1>4, <2>1
<1> QED BY <1>1, <1>2, <1>3, <1>5, Zenon

LEMMA LogInput ==
  ASSUME input \in Inputs, input.of = "log"
  PROVE  \E Paths, Messages, Known : input.calls \in Seq(CallsOf(Paths, Messages, Known))
<1>1. input.calls \in BoundedSeq(LogCalls, 3)
  <2>1. input \in [of : {"log"}, calls : BoundedSeq(LogCalls, 3)]
    BY InputOfKind DEF InputsOf
  <2> QED BY <2>1
<1>2. PICK Paths, Messages, Known :
        Paths = {"log", "full"} /\ Messages = {"m", "n"} /\ Known = {"ERR", "DBG", "unknown"}
  OBVIOUS
<1>3. PICK X : X = CallsOf(Paths, Messages, Known)
  OBVIOUS
<1>4. ASSUME NEW call \in LogCalls PROVE call \in X
  <2>1. CASE call \in [of : {"reset"}, path : {"log", "full"}, level : {-1, LOG_DEBUG}, location : {TRUE}]
    <3>1. {-1, LOG_DEBUG} \subseteq Int /\ {TRUE} \subseteq BOOLEAN
      BY DEF LOG_DEBUG
    <3>2. call \in [of : {"reset"}, path : Paths, level : Int, location : BOOLEAN]
      BY <1>2, <2>1, <3>1
    <3> QED BY <1>3, <3>2, Zenon DEF CallsOf
  <2>2. CASE call \in [of : {"reset_logpath"}, path : {"log"}]
    BY <1>2, <1>3, <2>2 DEF CallsOf
  <2>3. CASE call \in [of : {"reset_maxloglevel"}, level : {0, LOG_WARNING, 8}]
    BY <1>2, <1>3, <2>3 DEF CallsOf, LOG_WARNING
  <2>4. CASE call \in [of : {"reset_loglocation"}, location : BOOLEAN]
    BY <1>2, <1>3, <2>4 DEF CallsOf
  <2>5. CASE call \in [of : {"macro"}, level : {0, LOG_WARNING, LOG_WARNING + 1, LOG_DEBUG}, message : {"m"}]
    BY <1>2, <1>3, <2>5 DEF CallsOf, LOG_WARNING, LOG_DEBUG
  <2>6. CASE call \in [of : {"dolog"}, name : {"ERR", "DBG", "unknown"}, message : {"n"}]
    BY <1>2, <1>3, <2>6 DEF CallsOf
  <2> QED BY <2>1, <2>2, <2>3, <2>4, <2>5, <2>6 DEF LogCalls
<1>5. PICK calls, L : calls = input.calls /\ L = LogCalls
  OBVIOUS
<1>6. calls \in Seq(L)
  <2>1. 3 \in Nat /\ calls \in BoundedSeq(L, 3)
    BY <1>1, <1>5
  <2> QED BY <2>1, BoundedIsSeq, Zenon
<1>7. calls \in Seq(X)
  <2>1. \A call \in L : call \in X
    BY <1>4, <1>5
  <2> QED BY <1>6, <2>1
<1> QED BY <1>3, <1>5, <1>7

LEMMA PathInput ==
  ASSUME input \in Inputs, input.of = "path"
  PROVE  input.name \in Seq({Slash, Dot, "a"}) /\ input.workdir \in Seq({Slash, Dot, "a"})
<1>1. input \in [of : {"path"}, name : BoundedSeq({Slash, Dot, "a"}, 3),
                 workdir : BoundedSeq({Slash, "a"}, 2), elsewhere : {<<>>, <<Slash>>, <<"a">>}]
  BY InputOfKind DEF InputsOf
<1>2. PICK name, workdir, C, D :
        /\ name = input.name /\ workdir = input.workdir
        /\ C = {Slash, Dot, "a"} /\ D = {Slash, "a"}
  OBVIOUS
<1>3. name \in BoundedSeq(C, 3) /\ workdir \in BoundedSeq(D, 2)
  BY <1>1, <1>2
<1>4. name \in Seq(C) /\ workdir \in Seq(D)
  <2>1. 3 \in Nat /\ 2 \in Nat
    OBVIOUS
  <2> QED BY <1>3, <2>1, BoundedIsSeq, Zenon
<1>5. workdir \in Seq(C)
  <2>1. \A c \in D : c \in C
    BY <1>2
  <2> QED BY <1>4, <2>1
<1> QED BY <1>2, <1>4, <1>5

\* xtokens.h, xpath.h, watch.cpp: what is written is read back, a path is made absolute
\* once, and the log has the lines that its settings let through.
THEOREM TextsRoundTrip == HelpersSpec => []TextRoundTrip
<1> DEFINE Given_ == input.of \in {"tokens", "log", "path"} => input \in Inputs
<1>1. HelpersInit => Given_
  BY DEF HelpersInit
<1>2. Given_ /\ [HelpersNext]_<<lockVars, input>> => Given_'
  BY DEF HelpersNext
<1>3. Given_ => TextRoundTrip
  <2>1. ASSUME input \in Inputs, input.of = "tokens"
        PROVE  ConfigRoundTrip(input.leader, input.tokens)
    <3>1. PICK C : C = Chars
      OBVIOUS
    <3>2. Blank \in C /\ Equals \in C
      BY <3>1 DEF Chars
    <3>3. PICK leader \in Seq(C), tokens \in Seq(Seq(C)) :
            leader = input.leader /\ tokens = input.tokens
      BY <2>1, <3>1, TokensInput
    <3>4. ConfigRoundTrip(leader, tokens)
      BY <3>2, AllReadBack
    <3> QED BY <3>3, <3>4
  <2>2. ASSUME input \in Inputs, input.of = "log" PROVE LoggedAsSet(input.calls)
    BY <2>2, LogInput, AllLoggedAsSet
  <2>3. ASSUME input \in Inputs, input.of = "path"
        PROVE  PathsSettle(input.name, input.workdir, input.elsewhere)
    <3>1. PICK C : C = {Slash, Dot, "a"}
      OBVIOUS
    <3>2. Slash \in C
      BY <3>1
    <3> QED BY <2>3, <3>1, <3>2, PathInput, AllPathsSettle
  <2> QED BY <2>1, <2>2, <2>3 DEF TextRoundTrip
<1> QED BY <1>1, <1>2, <1>3, PTL DEF HelpersSpec
=============================================================================
