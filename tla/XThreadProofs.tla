----------------------------- MODULE XThreadProofs -----------------------------
(***************************************************************************)
(* The levels of xthread.cpp do their work, for any threads, mutexes and   *)
(* levels: the stack of a thread is what it holds, wait() can always take  *)
(* its mutex again, the levels rise along a chain of waiting threads, and  *)
(* no threads wait for each other.                                         *)
(***************************************************************************)
EXTENDS XThread, FiniteSetTheorems, WellFoundedInduction, TLAPS

\* The levels of a set of mutexes, in order.
Ascends(stack) == \A i, j \in DOMAIN stack : i < j => stack[i] < stack[j]

Represents(stack, H) ==
  /\ \A m \in H : \E i \in DOMAIN stack : stack[i] = pri_level[m]
  /\ \A i \in DOMAIN stack : \E m \in H : stack[i] = pri_level[m]

Held(t) == {m \in Mutexes : Holds(t, m) /\ Leveled(m)}

\* The leveled mutexes were taken in the order of their levels,
Orderly(s) ==
  \A i, j \in DOMAIN s :
    i < j /\ Leveled(s[i]) /\ Leveled(s[j]) => pri_level[s[i]] < pri_level[s[j]]

\* and the one that a thread waits with is above those that it keeps.
WaitIsTop(t) ==
  \A m \in Mutexes : Waits(t, m) /\ Leveled(m) =>
    \A n \in Held(t) : pri_level[n] < pri_level[m]

StackSound(t) ==
  /\ Ascends(pri_levels[t]) /\ Represents(pri_levels[t], Held(t))
  /\ Orderly(scopes[t]) /\ WaitIsTop(t)

LockInv == TypeOK /\ CountsAgree /\ \A t \in Threads : StackSound(t)
-----------------------------------------------------------------------------
LEMMA Levels == \A m \in Mutexes : pri_level[m] \in Int
BY LockAssumption DEF LockAssumption

\* Sequences, at their ends: functions on 1..L.
LEMMA AtEnd ==
  ASSUME NEW S, NEW s \in Seq(S), NEW e \in S
  PROVE  \E L \in Nat :
           /\ DOMAIN s = 1..L /\ Len(s) = L /\ (s = <<>> <=> L = 0)
           /\ \A i \in 1..L : s[i] \in S
           /\ Append(s, e) \in Seq(S) /\ DOMAIN Append(s, e) = 1..(L + 1)
           /\ \A i \in 1..L : Append(s, e)[i] = s[i]
           /\ Append(s, e)[L + 1] = e
<1> WITNESS Len(s) \in Nat
<1> QED OBVIOUS

LEMMA ButEnd ==
  ASSUME NEW S, NEW s \in Seq(S), s # <<>>
  PROVE  \E L \in Nat :
           /\ L > 0 /\ DOMAIN s = 1..L /\ Len(s) = L /\ Top(s) = s[L]
           /\ \A i \in 1..L : s[i] \in S
           /\ Butlast(s) \in Seq(S) /\ DOMAIN Butlast(s) = 1..(L - 1)
           /\ \A i \in 1..(L - 1) : Butlast(s)[i] = s[i]
<1> WITNESS Len(s) \in Nat
<1> QED BY DEF Butlast, Top

LEMMA Rising ==
  ASSUME NEW s, NEW L \in Nat, DOMAIN s = 1..L, \A i \in 1..L : s[i] \in Int,
         Ascends(s), NEW i \in 1..L
  PROVE  s[i] <= s[L] /\ (s[i] = s[L] => i = L) /\ (i # L => i \in 1..(L - 1))
<1>1. L \in DOMAIN s /\ i \in DOMAIN s
  OBVIOUS
<1>2. i < L => s[i] < s[L]
  BY <1>1 DEF Ascends
<1>3. s[i] \in Int /\ s[L] \in Int
  BY <1>1
<1> QED BY <1>2, <1>3

\* A lock that the check allows goes above all that is held.
LEMMA Pushing ==
  ASSUME NEW s \in Seq(Int), NEW H \in SUBSET Mutexes, NEW m \in Mutexes,
         Ascends(s), Represents(s, H), Leveled(m), ~WrongOrder(s, m)
  PROVE  /\ Append(s, pri_level[m]) \in Seq(Int) /\ Ascends(Append(s, pri_level[m]))
         /\ Represents(Append(s, pri_level[m]), H \cup {m})
         /\ \A n \in H : pri_level[n] < pri_level[m]
<1> DEFINE l == pri_level[m]
           a == Append(s, l)
<1>1. l \in Int
  BY Levels
<1>2. PICK L \in Nat :
           /\ DOMAIN s = 1..L /\ Len(s) = L /\ (s = <<>> <=> L = 0)
           /\ \A i \in 1..L : s[i] \in Int
           /\ a \in Seq(Int) /\ DOMAIN a = 1..(L + 1)
           /\ \A i \in 1..L : a[i] = s[i]
           /\ a[L + 1] = l
  BY <1>1, AtEnd
<1>w. L > 0 => ~(s[L] >= l)
  BY <1>2 DEF WrongOrder, Top
<1> HIDE DEF a
<1>3. ASSUME NEW i \in 1..L PROVE s[i] < l
  <2>1. s[i] <= s[L]
    BY <1>2, Rising
  <2>2. s[i] \in Int /\ s[L] \in Int /\ L > 0
    BY <1>2
  <2> QED BY <1>1, <1>w, <2>1, <2>2
<1>4. Ascends(a)
  <2> SUFFICES ASSUME NEW i \in 1..(L + 1), NEW j \in 1..(L + 1), i < j PROVE a[i] < a[j]
    BY <1>2 DEF Ascends
  <2>1. i \in 1..L
    OBVIOUS
  <2>2. CASE j = L + 1
    BY <1>2, <1>3, <2>1, <2>2
  <2>3. CASE j \in 1..L
    BY <1>2, <2>1, <2>3 DEF Ascends
  <2> QED BY <2>2, <2>3
<1>5. Represents(a, H \cup {m})
  <2>1. ASSUME NEW n \in H PROVE \E i \in DOMAIN a : a[i] = pri_level[n]
    <3>1. PICK i \in 1..L : s[i] = pri_level[n]
      BY <1>2 DEF Represents
    <3>2. i \in DOMAIN a
      BY <1>2
    <3> QED BY <1>2, <3>1, <3>2
  <2>2. a[L + 1] = pri_level[m] /\ L + 1 \in DOMAIN a
    BY <1>2
  <2>3. ASSUME NEW i \in DOMAIN a PROVE \E n \in H \cup {m} : a[i] = pri_level[n]
    <3>1. CASE i = L + 1
      BY <2>2, <3>1
    <3>2. CASE i \in 1..L
      BY <1>2, <3>2 DEF Represents
    <3> QED BY <1>2, <3>1, <3>2
  <2> QED BY <2>1, <2>2, <2>3 DEF Represents
<1>6. ASSUME NEW n \in H PROVE pri_level[n] < l
  <2>1. PICK i \in 1..L : s[i] = pri_level[n]
    BY <1>2 DEF Represents
  <2> QED BY <1>3, <2>1
<1> QED BY <1>2, <1>4, <1>5, <1>6 DEF a

\* The mutex with the highest level held is on top.
LEMMA OnTop ==
  ASSUME NEW s \in Seq(Int), NEW H \in SUBSET Mutexes, NEW m \in H,
         Ascends(s), Represents(s, H), \A n \in H : pri_level[n] <= pri_level[m]
  PROVE  s # <<>> /\ Top(s) = pri_level[m]
<1>1. PICK k \in DOMAIN s : s[k] = pri_level[m]
  BY DEF Represents
<1>2. s # <<>>
  BY <1>1
<1>3. PICK L \in Nat :
           /\ L > 0 /\ DOMAIN s = 1..L /\ Top(s) = s[L]
           /\ \A i \in 1..L : s[i] \in Int
  BY <1>2, ButEnd
<1>4. L \in DOMAIN s
  BY <1>3
<1>5. PICK n \in H : s[L] = pri_level[n]
  BY <1>4 DEF Represents
<1>6. s[k] <= s[L] /\ s[k] \in Int /\ s[L] \in Int
  BY <1>3, <1>4, Rising
<1>7. s[L] <= s[k]
  BY <1>1, <1>5
<1> QED BY <1>1, <1>2, <1>3, <1>6, <1>7

\* Giving it up leaves the others.
LEMMA Popping ==
  ASSUME NEW s \in Seq(Int), NEW H \in SUBSET Mutexes, NEW m \in H,
         Ascends(s), Represents(s, H), s # <<>>, Top(s) = pri_level[m],
         \A n \in H : n # m => pri_level[n] # pri_level[m]
  PROVE  /\ Butlast(s) \in Seq(Int) /\ Ascends(Butlast(s))
         /\ Represents(Butlast(s), H \ {m})
         /\ \A n \in H \ {m} : pri_level[n] < pri_level[m]
<1> DEFINE b == Butlast(s)
<1>1. PICK L \in Nat :
           /\ L > 0 /\ DOMAIN s = 1..L /\ Top(s) = s[L]
           /\ \A i \in 1..L : s[i] \in Int
           /\ b \in Seq(Int) /\ DOMAIN b = 1..(L - 1)
           /\ \A i \in 1..(L - 1) : b[i] = s[i]
  BY ButEnd
<1> HIDE DEF b
<1>2. Ascends(b)
  BY <1>1 DEF Ascends
<1>3. ASSUME NEW n \in H \ {m}
      PROVE  \E i \in 1..(L - 1) : s[i] = pri_level[n] /\ s[i] < pri_level[m]
  <2>1. PICK i \in 1..L : s[i] = pri_level[n]
    BY <1>1 DEF Represents
  <2>2. i # L
    BY <1>1, <2>1
  <2>3. s[i] <= s[L] /\ s[i] # s[L] /\ i \in 1..(L - 1)
    BY <1>1, <2>2, Rising
  <2>4. s[i] \in Int /\ s[L] \in Int
    BY <1>1
  <2> QED BY <1>1, <2>1, <2>3, <2>4
<1>4. ASSUME NEW i \in 1..(L - 1) PROVE \E n \in H \ {m} : s[i] = pri_level[n]
  <2>1. i \in 1..L /\ i # L
    OBVIOUS
  <2>2. PICK n \in H : s[i] = pri_level[n]
    BY <1>1, <2>1 DEF Represents
  <2>3. s[i] # s[L]
    BY <1>1, <2>1, Rising
  <2> QED BY <1>1, <2>2, <2>3
<1>5. Represents(b, H \ {m})
  <2>1. ASSUME NEW n \in H \ {m} PROVE \E i \in DOMAIN b : b[i] = pri_level[n]
    <3>1. PICK i \in 1..(L - 1) : s[i] = pri_level[n]
      BY <1>3
    <3>2. i \in DOMAIN b /\ b[i] = s[i]
      BY <1>1
    <3> QED BY <3>1, <3>2
  <2>2. ASSUME NEW i \in DOMAIN b PROVE \E n \in H \ {m} : b[i] = pri_level[n]
    <3>1. i \in 1..(L - 1) /\ b[i] = s[i]
      BY <1>1
    <3> QED BY <1>4, <3>1
  <2> QED BY <2>1, <2>2 DEF Represents
<1>6. ASSUME NEW n \in H \ {m} PROVE pri_level[n] < pri_level[m]
  BY <1>3
<1> QED BY <1>1, <1>2, <1>5, <1>6 DEF b

-----------------------------------------------------------------------------
\* What the threads are at.
LEMMA AtKinds ==
  ASSUME NEW a \in Activities
  PROVE  /\ a.op \in {"run", "lock", "wait", "relock"}
         /\ a.op # "run" => a.mtx \in Mutexes
         /\ a.op \in {"wait", "relock"} =>
              /\ a.extra_lock \in Nat
              /\ a = [op |-> a.op, mtx |-> a.mtx, extra_lock |-> a.extra_lock]
BY DEF Activities, Running

LEMMA Waking ==
  ASSUME NEW a \in Activities, a.op = "wait"
  PROVE  LET b == [a EXCEPT !.op = "relock"] IN
           b \in Activities /\ b.op = "relock" /\ b.mtx = a.mtx /\ b.extra_lock = a.extra_lock
<1>1. a.mtx \in Mutexes /\ a.extra_lock \in Nat
      /\ a = [op |-> "wait", mtx |-> a.mtx, extra_lock |-> a.extra_lock]
  BY AtKinds
<1>2. [a EXCEPT !.op = "relock"] = [op |-> "relock", mtx |-> a.mtx, extra_lock |-> a.extra_lock]
  BY <1>1
<1> QED BY <1>1, <1>2 DEF Activities

\* Two levels that a thread holds are different.
LEMMA Distinct ==
  ASSUME NEW t \in Threads, scopes[t] \in Seq(Mutexes), Orderly(scopes[t]),
         NEW m \in Held(t), NEW n \in Held(t), pri_level[m] = pri_level[n]
  PROVE  m = n
<1>1. PICK i \in DOMAIN scopes[t] : scopes[t][i] = m
  BY DEF Held, Holds, Has
<1>2. PICK j \in DOMAIN scopes[t] : scopes[t][j] = n
  BY DEF Held, Holds, Has
<1>3. Leveled(m) /\ Leveled(n) /\ pri_level[m] \in Int /\ m \in Mutexes
  BY Levels DEF Held
<1>4. ~(pri_level[m] < pri_level[n]) /\ ~(pri_level[n] < pri_level[m])
  BY <1>3
<1>5. ~(i < j) /\ ~(j < i)
  BY <1>1, <1>2, <1>3, <1>4 DEF Orderly
<1>6. i \in Nat /\ j \in Nat
  BY <1>1, <1>2
<1> QED BY <1>1, <1>2, <1>5, <1>6

\* A step of another thread, or one that changes counts only.
LEMMA Untouched ==
  ASSUME NEW u \in Threads, StackSound(u),
         pri_levels'[u] = pri_levels[u], scopes'[u] = scopes[u],
         \A m \in Mutexes : Waits(u, m)' <=> Waits(u, m)
  PROVE  StackSound(u)'
<1>1. \A m \in Mutexes : Has(u, m)' <=> Has(u, m)
  BY DEF Has
<1>2. Held(u)' = Held(u)
  BY <1>1 DEF Held, Holds, Leveled
<1> QED BY <1>2 DEF StackSound, Ascends, Represents, Orderly, WaitIsTop, Leveled

\* The conjuncts of CountsAgree, for a mutex, and for a thread and a mutex.
OwnerHolds(m) ==
  /\ holder[m] = None <=> recursion_count[m] = 0
  /\ holder[m] # None => Holds(holder[m], m)

Counted(t, m) ==
  /\ depth[t][m] > 0 <=> Has(t, m)
  /\ Holds(t, m) => holder[m] = t /\ recursion_count[m] = depth[t][m]
  /\ Waits(t, m) => Has(t, m) /\ at[t].extra_lock + 1 = depth[t][m]

Once(stack) == \A i, j \in DOMAIN stack : stack[i] = stack[j] => i = j

LEMMA Typed ==
  ASSUME TypeOK
  PROVE  /\ \A t \in Threads :
              /\ pri_levels[t] \in Seq(Int) /\ scopes[t] \in Seq(Mutexes) /\ Once(scopes[t])
              /\ at[t] \in Activities /\ t # None
              /\ \A m \in Mutexes : depth[t][m] \in Nat
         /\ \A m \in Mutexes : holder[m] \in Threads \cup {None} /\ recursion_count[m] \in Nat
BY LockAssumption DEF TypeOK, LockAssumption, Once

LEMMA Split ==
  CountsAgree <=> /\ \A m \in Mutexes : OwnerHolds(m)
                  /\ \A t \in Threads, m \in Mutexes : Counted(t, m)
BY DEF CountsAgree, OwnerHolds, Counted

\* A step that changes none of what a thread has.
LEMMA SameLocks ==
  ASSUME CountsAgree,
         UNCHANGED <<holder, recursion_count, depth, scopes>>,
         \A t \in Threads, m \in Mutexes : Waits(t, m)' <=> Waits(t, m),
         \A t \in Threads : at'[t].op \in {"wait", "relock"}
                              => at'[t].extra_lock = at[t].extra_lock,
         TypeOK
  PROVE  CountsAgree'
<1>1. \A t \in Threads, m \in Mutexes :
        (Has(t, m)' <=> Has(t, m)) /\ (Holds(t, m)' <=> Holds(t, m))
  BY DEF Has, Holds
<1>2. \A m \in Mutexes : OwnerHolds(m)'
  BY <1>1, Split, Typed DEF OwnerHolds
<1>3. \A t \in Threads, m \in Mutexes : Counted(t, m)'
  BY <1>1, Split DEF Counted, Waits
<1> QED BY <1>2, <1>3 DEF CountsAgree, OwnerHolds, Counted

\* Lock(t, m) and LockFails(t).
LEMMA KeepsAsking ==
  ASSUME LockInv, NEW t \in Threads, NEW a \in Activities,
         at[t].op \in {"run", "lock"}, a.op \in {"run", "lock"}, at' = [at EXCEPT ![t] = a],
         UNCHANGED <<holder, recursion_count, pri_levels, scopes, depth>>
  PROVE  LockInv'
<1>1. at \in [Threads -> Activities] /\ TypeOK'
  BY DEF LockInv, TypeOK
<1>2. \A u \in Threads, m \in Mutexes : Waits(u, m)' <=> Waits(u, m)
  BY <1>1 DEF Waits
<1>3. \A u \in Threads : at'[u].op \in {"wait", "relock"}
                              => at'[u].extra_lock = at[u].extra_lock
  BY <1>1
<1>4. CountsAgree'
  BY <1>2, <1>3, SameLocks DEF LockInv
<1>5. \A u \in Threads : StackSound(u)'
  BY <1>2, Untouched DEF LockInv
<1> QED BY <1>1, <1>4, <1>5 DEF LockInv

\* WakeOne(t) and NotifyAll(m): threads of W stop waiting for a notification.
LEMMA KeepsWaking ==
  ASSUME LockInv, NEW W \in SUBSET Threads, \A t \in W : at[t].op = "wait",
         at' = [t \in Threads |-> IF t \in W THEN [at[t] EXCEPT !.op = "relock"] ELSE at[t]],
         UNCHANGED <<holder, recursion_count, pri_levels, scopes, depth>>
  PROVE  LockInv'
<1>1. ASSUME NEW t \in W
      PROVE  /\ at'[t] \in Activities /\ at'[t].op = "relock" /\ at[t].op = "wait"
             /\ at'[t].mtx = at[t].mtx /\ at'[t].extra_lock = at[t].extra_lock
  <2>1. at[t] \in Activities /\ at'[t] = [at[t] EXCEPT !.op = "relock"]
    BY DEF LockInv, TypeOK
  <2> QED BY <2>1, Waking
<1>2. \A t \in Threads \ W : at'[t] = at[t]
  OBVIOUS
<1>3. TypeOK'
  <2>1. \A t \in Threads : at'[t] \in Activities
    BY <1>1, <1>2 DEF LockInv, TypeOK
  <2>2. at' \in [Threads -> Activities]
    BY <2>1
  <2> QED BY <2>2 DEF LockInv, TypeOK
<1>4. \A u \in Threads, m \in Mutexes : Waits(u, m)' <=> Waits(u, m)
  BY <1>1, <1>2 DEF Waits
<1>5. CountsAgree'
  BY <1>1, <1>2, <1>4, SameLocks DEF LockInv
<1>6. \A u \in Threads : StackSound(u)'
  BY <1>4, Untouched DEF LockInv
<1> QED BY <1>3, <1>5, <1>6 DEF LockInv

\* A step of t that leaves the others alone.
LEMMA OthersKeep ==
  ASSUME LockInv, NEW t \in Threads, NEW u \in Threads, u # t,
         pri_levels'[u] = pri_levels[u], scopes'[u] = scopes[u], at'[u] = at[u]
  PROVE  StackSound(u)' /\ \A m \in Mutexes : /\ Waits(u, m)' <=> Waits(u, m)
                                              /\ Has(u, m)' <=> Has(u, m)
                                              /\ Holds(u, m)' <=> Holds(u, m)
<1>1. \A m \in Mutexes : (Waits(u, m)' <=> Waits(u, m)) /\ (Has(u, m)' <=> Has(u, m))
  BY DEF Waits, Has
<1>2. StackSound(u)'
  BY <1>1, Untouched DEF LockInv
<1> QED BY <1>1, <1>2 DEF Holds

LEMMA RunningIs == Running \in Activities /\ Running.op = "run"
BY DEF Running, Activities

\* A thread that does not wait holds what it has.
LEMMA Free ==
  ASSUME NEW t \in Threads, at[t].op \in {"run", "lock"}, NEW m \in Mutexes
  PROVE  ~Waits(t, m) /\ (Holds(t, m) <=> Has(t, m))
BY DEF Waits, Holds

\* UnlockInner(t, m), and Acquire(t) of a mutex that t holds.
LEMMA KeepsCounting ==
  ASSUME LockInv, NEW t \in Threads, NEW m \in Mutexes, NEW k \in Nat,
         at[t].op \in {"run", "lock"}, Has(t, m), k > 0,
         recursion_count' = [recursion_count EXCEPT ![m] = k],
         depth' = [depth EXCEPT ![t][m] = k],
         at' = [at EXCEPT ![t] = Running],
         UNCHANGED <<holder, pri_levels, scopes>>
  PROVE  LockInv'
<1>1. TypeOK'
  BY RunningIs DEF LockInv, TypeOK
<1>2. /\ at'[t].op = "run" /\ \A u \in Threads : u # t => at'[u] = at[u]
      /\ \A u \in Threads, n \in Mutexes :
           depth'[u][n] = IF u = t /\ n = m THEN k ELSE depth[u][n]
      /\ \A n \in Mutexes : recursion_count'[n] = IF n = m THEN k ELSE recursion_count[n]
  BY RunningIs DEF LockInv, TypeOK
<1>3. \A u \in Threads, n \in Mutexes : Waits(u, n)' <=> Waits(u, n)
  BY <1>2 DEF Waits
<1>4. \A u \in Threads, n \in Mutexes :
        (Has(u, n)' <=> Has(u, n)) /\ (Holds(u, n)' <=> Holds(u, n))
  BY <1>3 DEF Has, Holds
<1>5. Holds(t, m)
  BY Free
<1>6. \A n \in Mutexes : OwnerHolds(n)'
  <2> SUFFICES ASSUME NEW n \in Mutexes PROVE OwnerHolds(n)'
    OBVIOUS
  <2>1. OwnerHolds(n) /\ Counted(t, m) /\ holder[n] \in Threads \cup {None} /\ t # None
    BY Split, Typed DEF LockInv
  <2> QED BY <1>2, <1>4, <1>5, <2>1 DEF OwnerHolds, Counted
<1>7. \A u \in Threads, n \in Mutexes : Counted(u, n)'
  <2> SUFFICES ASSUME NEW u \in Threads, NEW n \in Mutexes PROVE Counted(u, n)'
    OBVIOUS
  <2>1. Counted(u, n) /\ Counted(t, m) /\ depth[u][n] \in Nat
    BY Split, Typed DEF LockInv
  <2>2. Waits(u, n) => at'[u] = at[u] /\ (u # t)
    BY <1>2, Free
  <2>3. Holds(u, n) /\ n = m => u = t
    BY <1>5, <2>1 DEF Counted
  <2> QED BY <1>2, <1>3, <1>4, <2>1, <2>2, <2>3 DEF Counted
<1>8. \A u \in Threads : StackSound(u)'
  BY <1>3, Untouched DEF LockInv
<1> QED BY <1>1, <1>6, <1>7, <1>8 DEF LockInv, CountsAgree, OwnerHolds, Counted

\* The scopes, when one begins and when one ends.
LEMMA ScopeBegins ==
  ASSUME NEW s \in Seq(Mutexes), Once(s), Orderly(s), NEW m \in Mutexes,
         ~\E i \in DOMAIN s : s[i] = m,
         Leveled(m) => \A i \in DOMAIN s : Leveled(s[i]) => pri_level[s[i]] < pri_level[m]
  PROVE  LET a == Append(s, m) IN
           /\ a \in Seq(Mutexes) /\ Once(a) /\ Orderly(a)
           /\ \A n \in Mutexes :
                (\E i \in DOMAIN a : a[i] = n) <=> (\E i \in DOMAIN s : s[i] = n) \/ n = m
<1> DEFINE a == Append(s, m)
<1>1. PICK L \in Nat :
           /\ DOMAIN s = 1..L
           /\ \A i \in 1..L : s[i] \in Mutexes
           /\ a \in Seq(Mutexes) /\ DOMAIN a = 1..(L + 1)
           /\ \A i \in 1..L : a[i] = s[i]
           /\ a[L + 1] = m
  BY AtEnd
<1> HIDE DEF a
<1>2. L + 1 \in DOMAIN a /\ \A i \in DOMAIN a : i = L + 1 \/ i \in 1..L
  BY <1>1
<1>3. Once(a)
  BY <1>1, <1>2 DEF Once
<1>4. Orderly(a)
  <2> SUFFICES ASSUME NEW i \in DOMAIN a, NEW j \in DOMAIN a, i < j,
                      Leveled(a[i]), Leveled(a[j])
               PROVE  pri_level[a[i]] < pri_level[a[j]]
    BY DEF Orderly
  <2>1. i \in 1..L
    BY <1>1
  <2>2. CASE j = L + 1
    BY <1>1, <2>1, <2>2
  <2>3. CASE j \in 1..L
    BY <1>1, <2>1, <2>3 DEF Orderly
  <2> QED BY <1>2, <2>2, <2>3
<1>5. \A n \in Mutexes :
        (\E i \in DOMAIN a : a[i] = n) <=> (\E i \in DOMAIN s : s[i] = n) \/ n = m
  BY <1>1, <1>2
<1> QED BY <1>1, <1>3, <1>4, <1>5 DEF a

LEMMA ScopeEnds ==
  ASSUME NEW s \in Seq(Mutexes), Once(s), Orderly(s), s # <<>>
  PROVE  LET b == Butlast(s) IN
           /\ b \in Seq(Mutexes) /\ Once(b) /\ Orderly(b) /\ Top(s) \in Mutexes
           /\ \E i \in DOMAIN s : s[i] = Top(s)
           /\ \A n \in Mutexes :
                (\E i \in DOMAIN b : b[i] = n) <=> (\E i \in DOMAIN s : s[i] = n) /\ n # Top(s)
           /\ Leveled(Top(s)) =>
                \A i \in DOMAIN s : Leveled(s[i]) => pri_level[s[i]] <= pri_level[Top(s)]
<1> DEFINE b == Butlast(s)
<1>1. PICK L \in Nat :
           /\ L > 0 /\ DOMAIN s = 1..L /\ Top(s) = s[L]
           /\ \A i \in 1..L : s[i] \in Mutexes
           /\ b \in Seq(Mutexes) /\ DOMAIN b = 1..(L - 1)
           /\ \A i \in 1..(L - 1) : b[i] = s[i]
  BY ButEnd
<1> HIDE DEF b
<1>2. /\ L \in 1..L /\ \A i \in 1..L : i = L \/ (i \in 1..(L - 1) /\ i < L)
      /\ \A i \in 1..(L - 1) : i \in 1..L /\ i # L
  BY <1>1
<1>3. Once(b)
  BY <1>1, <1>2 DEF Once
<1>4. Orderly(b)
  BY <1>1, <1>2 DEF Orderly
<1>5. \A n \in Mutexes :
        (\E i \in DOMAIN b : b[i] = n) <=> (\E i \in DOMAIN s : s[i] = n) /\ n # Top(s)
  BY <1>1, <1>2 DEF Once
<1>6. ASSUME Leveled(Top(s)), NEW i \in DOMAIN s, Leveled(s[i])
      PROVE  pri_level[s[i]] <= pri_level[Top(s)]
  <2>1. pri_level[s[i]] \in Int /\ pri_level[Top(s)] \in Int
    BY <1>1, <1>2, Levels
  <2>2. i # L => pri_level[s[i]] < pri_level[Top(s)]
    BY <1>1, <1>2, <1>6 DEF Orderly
  <2> QED BY <1>1, <2>1, <2>2
<1> QED BY <1>1, <1>2, <1>3, <1>4, <1>5, <1>6 DEF b

\* The four steps that change what t holds: the others are not disturbed.
LEMMA HeldChanges ==
  ASSUME LockInv, TypeOK', NEW t \in Threads, NEW m \in Mutexes,
         \A u \in Threads : u # t =>
           pri_levels'[u] = pri_levels[u] /\ scopes'[u] = scopes[u] /\ at'[u] = at[u],
         \A n \in Mutexes : n # m => /\ holder'[n] = holder[n]
                                     /\ recursion_count'[n] = recursion_count[n]
                                     /\ Has(t, n)' <=> Has(t, n)
                                     /\ ~Waits(t, n) /\ ~Waits(t, n)',
         \A u \in Threads, n \in Mutexes : u # t \/ n # m => depth'[u][n] = depth[u][n],
         \A u \in Threads : u # t => ~Holds(u, m),
         OwnerHolds(m)', Counted(t, m)', StackSound(t)'
  PROVE  LockInv'
<1>1. \A u \in Threads : u # t =>
        StackSound(u)' /\ \A n \in Mutexes : /\ Waits(u, n)' <=> Waits(u, n)
                                             /\ Has(u, n)' <=> Has(u, n)
                                             /\ Holds(u, n)' <=> Holds(u, n)
  BY OthersKeep
<1>2. \A n \in Mutexes : n # m => (Holds(t, n)' <=> Holds(t, n))
  BY DEF Holds
<1>3. ASSUME NEW n \in Mutexes PROVE OwnerHolds(n)'
  <2>1. OwnerHolds(n) /\ holder[n] \in Threads \cup {None}
    BY Split, Typed DEF LockInv
  <2>2. CASE n # m
    BY <1>1, <1>2, <2>1, <2>2 DEF OwnerHolds
  <2> QED BY <2>2
<1>4. ASSUME NEW u \in Threads, NEW n \in Mutexes PROVE Counted(u, n)'
  <2>1. Counted(u, n)
    BY Split DEF LockInv
  <2>2. CASE u = t /\ n # m
    BY <1>2, <2>1, <2>2 DEF Counted
  <2>3. CASE u # t /\ n # m
    BY <1>1, <2>1, <2>3 DEF Counted
  <2>4. CASE u # t /\ n = m
    BY <1>1, <2>1, <2>4 DEF Counted
  <2> QED BY <2>2, <2>3, <2>4
<1> QED BY <1>1, <1>3, <1>4 DEF LockInv, CountsAgree, OwnerHolds, Counted

\* Acquire(t) of a free mutex.
LEMMA KeepsTaking ==
  ASSUME LockInv, NEW t \in Threads, NEW m \in Mutexes,
         at[t].op = "lock", holder[m] = None, ~WrongOrder(pri_levels[t], m),
         holder' = [holder EXCEPT ![m] = t],
         recursion_count' = [recursion_count EXCEPT ![m] = 1],
         pri_levels' = [pri_levels EXCEPT ![t] = Pushed(@, m)],
         scopes' = [scopes EXCEPT ![t] = Append(@, m)],
         depth' = [depth EXCEPT ![t][m] = 1],
         at' = [at EXCEPT ![t] = Running]
  PROVE  LockInv'
<1>1. /\ pri_levels[t] \in Seq(Int) /\ scopes[t] \in Seq(Mutexes) /\ Once(scopes[t])
      /\ StackSound(t) /\ t # None /\ \A n \in Mutexes : ~Waits(t, n)
      /\ \A n \in Mutexes : Holds(t, n) <=> Has(t, n)
  BY Typed, Free DEF LockInv
<1>2. \A u \in Threads : ~Holds(u, m)
  BY Split, Typed DEF LockInv, Counted
<1>3. ~Has(t, m)
  BY <1>1, <1>2
<1>4. /\ pri_levels'[t] = Pushed(pri_levels[t], m) /\ scopes'[t] = Append(scopes[t], m)
      /\ at'[t] = Running /\ holder'[m] = t /\ recursion_count'[m] = 1 /\ depth'[t][m] = 1
      /\ \A u \in Threads : u # t =>
           pri_levels'[u] = pri_levels[u] /\ scopes'[u] = scopes[u] /\ at'[u] = at[u]
      /\ \A n \in Mutexes : n # m => /\ holder'[n] = holder[n]
                                     /\ recursion_count'[n] = recursion_count[n]
      /\ \A u \in Threads, n \in Mutexes : u # t \/ n # m => depth'[u][n] = depth[u][n]
  BY DEF LockInv, TypeOK
<1>5. \A n \in Mutexes : ~Waits(t, n)'
  BY <1>4, RunningIs DEF Waits
<1>6. Leveled(m) => /\ pri_levels'[t] \in Seq(Int) /\ Ascends(pri_levels'[t])
                    /\ Represents(pri_levels'[t], Held(t) \cup {m})
                    /\ \A n \in Held(t) : pri_level[n] < pri_level[m]
  <2> SUFFICES ASSUME Leveled(m)
               PROVE  /\ pri_levels'[t] \in Seq(Int) /\ Ascends(pri_levels'[t])
                      /\ Represents(pri_levels'[t], Held(t) \cup {m})
                      /\ \A n \in Held(t) : pri_level[n] < pri_level[m]
    OBVIOUS
  <2>1. Held(t) \in SUBSET Mutexes
    BY DEF Held
  <2>2. Ascends(pri_levels[t]) /\ Represents(pri_levels[t], Held(t))
    BY <1>1 DEF StackSound
  <2>3. pri_levels'[t] = Append(pri_levels[t], pri_level[m])
    BY <1>4 DEF Pushed
  <2> QED BY <1>1, <2>1, <2>2, <2>3, Pushing
<1>7. /\ scopes'[t] \in Seq(Mutexes) /\ Once(scopes'[t]) /\ Orderly(scopes'[t])
      /\ \A n \in Mutexes : Has(t, n)' <=> Has(t, n) \/ n = m
  <2>1. Leveled(m) => \A i \in DOMAIN scopes[t] :
          Leveled(scopes[t][i]) => pri_level[scopes[t][i]] < pri_level[m]
    <3>1. \A i \in DOMAIN scopes[t] : scopes[t][i] \in Mutexes /\ Has(t, scopes[t][i])
      BY <1>1 DEF Has
    <3> QED BY <1>1, <1>6, <3>1 DEF Held
  <2>2. Orderly(scopes[t]) /\ ~\E i \in DOMAIN scopes[t] : scopes[t][i] = m
    BY <1>1, <1>3 DEF StackSound, Has
  <2>3. LET a == Append(scopes[t], m) IN
           /\ a \in Seq(Mutexes) /\ Once(a) /\ Orderly(a)
           /\ \A n \in Mutexes : (\E i \in DOMAIN a : a[i] = n)
                                   <=> (\E i \in DOMAIN scopes[t] : scopes[t][i] = n) \/ n = m
    BY <1>1, <2>1, <2>2, ScopeBegins
  <2> QED BY <1>4, <2>3 DEF Has
<1>8. TypeOK'
  <2>1. pri_levels'[t] \in Seq(Int)
    BY <1>1, <1>4, <1>6 DEF Pushed
  <2>2. /\ holder' \in [Mutexes -> Threads \cup {None}] /\ recursion_count' \in [Mutexes -> Nat]
        /\ at' \in [Threads -> Activities] /\ depth' \in [Threads -> [Mutexes -> Nat]]
    BY RunningIs DEF LockInv, TypeOK
  <2>3. pri_levels' \in [Threads -> Seq(Int)] /\ scopes' \in [Threads -> Seq(Mutexes)]
    BY <2>1, <1>4, <1>7 DEF LockInv, TypeOK
  <2>4. \A u \in Threads : Once(scopes'[u])
    BY <1>4, <1>7, Typed DEF LockInv
  <2> QED BY <2>2, <2>3, <2>4 DEF TypeOK, Once
<1>9. StackSound(t)'
  <2>1. Held(t)' = IF Leveled(m) THEN Held(t) \cup {m} ELSE Held(t)
    BY <1>1, <1>5, <1>7 DEF Held, Holds, Leveled
  <2>2. WaitIsTop(t)'
    BY <1>5 DEF WaitIsTop
  <2>3. CASE Leveled(m)
    BY <1>6, <1>7, <2>1, <2>2, <2>3 DEF StackSound, Ascends, Represents, Orderly, Leveled
  <2>4. CASE ~Leveled(m)
    <3>1. pri_levels'[t] = pri_levels[t] /\ Held(t)' = Held(t)
      BY <1>4, <2>1, <2>4 DEF Pushed
    <3>2. Ascends(pri_levels[t])'
      BY <1>1, <3>1 DEF StackSound, Ascends
    <3>3. Represents(pri_levels[t], Held(t))'
      BY <1>1, <3>1 DEF StackSound, Represents
    <3>4. Orderly(scopes[t])'
      BY <1>7 DEF Orderly, Leveled
    <3> QED BY <2>2, <3>2, <3>3, <3>4 DEF StackSound
  <2> QED BY <2>3, <2>4
<1>10. Holds(t, m)' /\ OwnerHolds(m)' /\ Counted(t, m)'
  BY <1>1, <1>4, <1>5, <1>7 DEF OwnerHolds, Counted, Holds
<1> HIDE DEF LockInv
<1> QED BY <1>1, <1>2, <1>4, <1>5, <1>7, <1>8, <1>9, <1>10, HeldChanges

\* Unlock(t) of the last scoped_lock of a mutex.
LEMMA KeepsGivingUp ==
  ASSUME LockInv, NEW t \in Threads, at[t].op = "run", scopes[t] # <<>>,
         NEW m, m = Top(scopes[t]), depth[t][m] = 1,
         pri_levels' = [pri_levels EXCEPT ![t] = Popped(@, m)],
         recursion_count' = [recursion_count EXCEPT ![m] = @ - 1],
         holder' = [holder EXCEPT ![m] = IF recursion_count[m] = 1 THEN None ELSE @],
         scopes' = [scopes EXCEPT ![t] = Butlast(@)],
         depth' = [depth EXCEPT ![t][m] = 0],
         UNCHANGED at
  PROVE  LockInv'
<1>1. /\ pri_levels[t] \in Seq(Int) /\ scopes[t] \in Seq(Mutexes) /\ Once(scopes[t])
      /\ StackSound(t) /\ t # None /\ \A n \in Mutexes : ~Waits(t, n)
      /\ \A n \in Mutexes : Holds(t, n) <=> Has(t, n)
  BY Typed, Free DEF LockInv
<1>2. LET b == Butlast(scopes[t]) IN
           /\ b \in Seq(Mutexes) /\ Once(b) /\ Orderly(b) /\ m \in Mutexes
           /\ \E i \in DOMAIN scopes[t] : scopes[t][i] = m
           /\ \A n \in Mutexes : (\E i \in DOMAIN b : b[i] = n)
                                   <=> (\E i \in DOMAIN scopes[t] : scopes[t][i] = n) /\ n # m
           /\ Leveled(m) => \A i \in DOMAIN scopes[t] :
                Leveled(scopes[t][i]) => pri_level[scopes[t][i]] <= pri_level[m]
  BY <1>1, ScopeEnds DEF StackSound
<1>3. m \in Mutexes /\ Has(t, m) /\ Holds(t, m)
  BY <1>1, <1>2 DEF Has
<1>4. /\ holder[m] = t /\ recursion_count[m] = 1
      /\ \A u \in Threads : u # t => ~Holds(u, m)
  BY <1>3, Split DEF LockInv, Counted
<1>5. /\ pri_levels'[t] = Popped(pri_levels[t], m) /\ scopes'[t] = Butlast(scopes[t])
      /\ holder'[m] = None /\ recursion_count'[m] = 0 /\ depth'[t][m] = 0
      /\ \A u \in Threads : at'[u] = at[u]
      /\ \A u \in Threads : u # t => pri_levels'[u] = pri_levels[u] /\ scopes'[u] = scopes[u]
      /\ \A n \in Mutexes : n # m => /\ holder'[n] = holder[n]
                                     /\ recursion_count'[n] = recursion_count[n]
      /\ \A u \in Threads, n \in Mutexes : u # t \/ n # m => depth'[u][n] = depth[u][n]
  BY <1>3, <1>4 DEF LockInv, TypeOK
<1>6. \A n \in Mutexes : ~Waits(t, n)'
  BY <1>1, <1>5 DEF Waits
<1>7. /\ scopes'[t] \in Seq(Mutexes) /\ Once(scopes'[t]) /\ Orderly(scopes'[t])
      /\ \A n \in Mutexes : Has(t, n)' <=> Has(t, n) /\ n # m
  BY <1>2, <1>5 DEF Has
<1>8. Leveled(m) =>
        /\ pri_levels'[t] \in Seq(Int) /\ Ascends(pri_levels'[t])
        /\ Represents(pri_levels'[t], Held(t) \ {m})
  <2> SUFFICES ASSUME Leveled(m)
               PROVE  /\ pri_levels'[t] \in Seq(Int) /\ Ascends(pri_levels'[t])
                      /\ Represents(pri_levels'[t], Held(t) \ {m})
    OBVIOUS
  <2>1. m \in Held(t) /\ Held(t) \in SUBSET Mutexes
    BY <1>3 DEF Held
  <2>2. \A n \in Held(t) : pri_level[n] <= pri_level[m]
    BY <1>2 DEF Held, Holds, Has
  <2>3. \A n \in Held(t) : n # m => pri_level[n] # pri_level[m]
    BY <1>1, <2>1, Distinct DEF StackSound
  <2>4. Ascends(pri_levels[t]) /\ Represents(pri_levels[t], Held(t))
    BY <1>1 DEF StackSound
  <2>5. pri_levels[t] # <<>> /\ Top(pri_levels[t]) = pri_level[m]
    BY <1>1, <2>1, <2>2, <2>4, OnTop
  <2>6. pri_levels'[t] = Butlast(pri_levels[t])
    BY <1>5, <2>5 DEF Popped
  <2> QED BY <1>1, <2>1, <2>3, <2>4, <2>5, <2>6, Popping
<1>9. TypeOK'
  <2>1. pri_levels'[t] \in Seq(Int)
    BY <1>1, <1>5, <1>8 DEF Popped
  <2>2. /\ holder' \in [Mutexes -> Threads \cup {None}] /\ recursion_count' \in [Mutexes -> Nat]
        /\ at' \in [Threads -> Activities] /\ depth' \in [Threads -> [Mutexes -> Nat]]
    BY <1>3, <1>4 DEF LockInv, TypeOK
  <2>3. pri_levels' \in [Threads -> Seq(Int)] /\ scopes' \in [Threads -> Seq(Mutexes)]
    BY <2>1, <1>5, <1>7 DEF LockInv, TypeOK
  <2>4. \A u \in Threads : Once(scopes'[u])
    BY <1>5, <1>7, Typed DEF LockInv
  <2> QED BY <2>2, <2>3, <2>4 DEF TypeOK, Once
<1>10. StackSound(t)'
  <2>1. Held(t)' = Held(t) \ {m}
    BY <1>1, <1>6, <1>7 DEF Held, Holds, Leveled
  <2>2. WaitIsTop(t)'
    BY <1>6 DEF WaitIsTop
  <2>3. CASE Leveled(m)
    BY <1>7, <1>8, <2>1, <2>2, <2>3 DEF StackSound, Ascends, Represents, Orderly, Leveled
  <2>4. CASE ~Leveled(m)
    <3>1. pri_levels'[t] = pri_levels[t] /\ Held(t)' = Held(t)
      BY <1>5, <2>1, <2>4 DEF Popped, Held
    <3>2. Ascends(pri_levels[t])'
      BY <1>1, <3>1 DEF StackSound, Ascends
    <3>3. Represents(pri_levels[t], Held(t))'
      BY <1>1, <3>1 DEF StackSound, Represents
    <3>4. Orderly(scopes[t])'
      BY <1>7 DEF Orderly, Leveled
    <3> QED BY <2>2, <3>2, <3>3, <3>4 DEF StackSound
  <2> QED BY <2>3, <2>4
<1>11. OwnerHolds(m)' /\ Counted(t, m)'
  BY <1>3, <1>5, <1>6, <1>7 DEF OwnerHolds, Counted, Holds
<1> QED BY <1>1, <1>3, <1>4, <1>5, <1>6, <1>7, <1>9, <1>10, <1>11, HeldChanges

\* Wait(t, m).
LEMMA KeepsWaiting ==
  ASSUME LockInv, NEW t \in Threads, NEW m \in Mutexes,
         at[t].op = "run", Has(t, m), Check(pri_levels[t], m),
         at' = [at EXCEPT ![t] = [op |-> "wait", mtx |-> m, extra_lock |-> ExtraLock(m)]],
         pri_levels' = [pri_levels EXCEPT ![t] = Popped(@, m)],
         holder' = [holder EXCEPT ![m] = None],
         recursion_count' = [recursion_count EXCEPT ![m] = 0],
         UNCHANGED <<scopes, depth>>
  PROVE  LockInv'
<1> DEFINE a == [op |-> "wait", mtx |-> m, extra_lock |-> ExtraLock(m)]
<1>1. /\ pri_levels[t] \in Seq(Int) /\ scopes[t] \in Seq(Mutexes)
      /\ StackSound(t) /\ t # None /\ \A n \in Mutexes : ~Waits(t, n)
      /\ \A n \in Mutexes : Holds(t, n) <=> Has(t, n)
  BY Typed, Free DEF LockInv
<1>2. /\ holder[m] = t /\ recursion_count[m] = depth[t][m] /\ depth[t][m] > 0
      /\ depth[t][m] \in Nat /\ \A u \in Threads : u # t => ~Holds(u, m)
  BY <1>1, Split, Typed DEF LockInv, Counted
<1>3. a \in Activities /\ a.extra_lock + 1 = depth[t][m]
  BY <1>2 DEF ExtraLock, Activities
<1>4. a.op = "wait" /\ a.mtx = m
  OBVIOUS
<1> HIDE DEF a
<1>5. /\ pri_levels'[t] = Popped(pri_levels[t], m) /\ at'[t] = a
      /\ holder'[m] = None /\ recursion_count'[m] = 0
      /\ \A u \in Threads : u # t => pri_levels'[u] = pri_levels[u] /\ at'[u] = at[u]
      /\ \A n \in Mutexes : n # m => /\ holder'[n] = holder[n]
                                     /\ recursion_count'[n] = recursion_count[n]
  BY DEF LockInv, TypeOK, a
<1>6. \A n \in Mutexes : Waits(t, n)' <=> n = m
  BY <1>4, <1>5 DEF Waits
<1>7. \A n \in Mutexes : Has(t, n)' <=> Has(t, n)
  BY DEF Has
<1>8. Held(t)' = Held(t) \ {m}
  BY <1>1, <1>6, <1>7 DEF Held, Holds, Leveled
<1>9. Leveled(m) =>
        /\ pri_levels'[t] \in Seq(Int) /\ Ascends(pri_levels'[t])
        /\ Represents(pri_levels'[t], Held(t) \ {m})
        /\ \A n \in Held(t) \ {m} : pri_level[n] < pri_level[m]
  <2> SUFFICES ASSUME Leveled(m)
               PROVE  /\ pri_levels'[t] \in Seq(Int) /\ Ascends(pri_levels'[t])
                      /\ Represents(pri_levels'[t], Held(t) \ {m})
                      /\ \A n \in Held(t) \ {m} : pri_level[n] < pri_level[m]
    OBVIOUS
  <2>1. m \in Held(t) /\ Held(t) \in SUBSET Mutexes
    BY <1>1 DEF Held
  <2>2. \A n \in Held(t) : n # m => pri_level[n] # pri_level[m]
    BY <1>1, <2>1, Distinct DEF StackSound
  <2>3. Ascends(pri_levels[t]) /\ Represents(pri_levels[t], Held(t))
    BY <1>1 DEF StackSound
  <2>4. pri_levels[t] # <<>> /\ Top(pri_levels[t]) = pri_level[m]
    BY DEF Check
  <2>5. pri_levels'[t] = Butlast(pri_levels[t])
    BY <1>5, <2>4 DEF Popped
  <2> QED BY <1>1, <2>1, <2>2, <2>3, <2>4, <2>5, Popping
<1>10. TypeOK'
  <2>1. pri_levels'[t] \in Seq(Int)
    BY <1>1, <1>5, <1>9 DEF Popped
  <2>2. /\ holder' \in [Mutexes -> Threads \cup {None}] /\ recursion_count' \in [Mutexes -> Nat]
        /\ at' \in [Threads -> Activities]
    BY <1>3, <1>5 DEF LockInv, TypeOK, a
  <2>3. pri_levels' \in [Threads -> Seq(Int)]
    BY <2>1, <1>5 DEF LockInv, TypeOK
  <2> QED BY <2>2, <2>3 DEF LockInv, TypeOK
<1>11. StackSound(t)'
  <2>1. WaitIsTop(t)'
    BY <1>6, <1>8, <1>9 DEF WaitIsTop, Leveled
  <2>2. Orderly(scopes[t])'
    BY <1>1 DEF StackSound, Orderly, Leveled
  <2>3. Ascends(pri_levels[t])' /\ Represents(pri_levels[t], Held(t))'
    <3>1. CASE Leveled(m)
      BY <1>8, <1>9, <3>1 DEF Ascends, Represents
    <3>2. CASE ~Leveled(m)
      <4>1. pri_levels'[t] = pri_levels[t] /\ Held(t)' = Held(t)
        BY <1>5, <1>8, <3>2 DEF Popped, Held
      <4> QED BY <1>1, <4>1 DEF StackSound, Ascends, Represents
    <3> QED BY <3>1, <3>2
  <2> QED BY <2>1, <2>2, <2>3 DEF StackSound
<1>12. OwnerHolds(m)' /\ Counted(t, m)'
  BY <1>2, <1>3, <1>5, <1>6, <1>7 DEF OwnerHolds, Counted, Holds
<1> HIDE DEF LockInv
<1> QED BY <1>1, <1>2, <1>5, <1>6, <1>7, <1>10, <1>11, <1>12, HeldChanges

\* Relock(t).
LEMMA KeepsRelocking ==
  ASSUME LockInv, NEW t \in Threads, NEW m \in Mutexes,
         at[t].op = "relock", at[t].mtx = m, holder[m] = None, ~WrongOrder(pri_levels[t], m),
         holder' = [holder EXCEPT ![m] = t],
         recursion_count' = [recursion_count EXCEPT ![m] = 1 + at[t].extra_lock],
         pri_levels' = [pri_levels EXCEPT ![t] = Pushed(@, m)],
         at' = [at EXCEPT ![t] = Running],
         UNCHANGED <<scopes, depth>>
  PROVE  LockInv'
<1>1. /\ pri_levels[t] \in Seq(Int) /\ scopes[t] \in Seq(Mutexes)
      /\ StackSound(t) /\ t # None /\ \A n \in Mutexes : Waits(t, n) <=> n = m
  BY Typed DEF LockInv, Waits
<1>2. /\ \A u \in Threads : ~Holds(u, m)
      /\ Has(t, m) /\ at[t].extra_lock + 1 = depth[t][m] /\ depth[t][m] > 0
      /\ depth[t][m] \in Nat /\ at[t].extra_lock \in Nat
  <2>1. Counted(t, m) /\ Waits(t, m) /\ depth[t][m] \in Nat /\ at[t] \in Activities
    BY <1>1, Split, Typed DEF LockInv
  <2>2. at[t].extra_lock \in Nat
    BY <2>1, AtKinds
  <2>3. \A u \in Threads : ~Holds(u, m)
    BY Split, Typed DEF LockInv, Counted
  <2> QED BY <2>1, <2>2, <2>3 DEF Counted
<1>3. /\ pri_levels'[t] = Pushed(pri_levels[t], m) /\ at'[t] = Running
      /\ holder'[m] = t /\ recursion_count'[m] = depth[t][m]
      /\ \A u \in Threads : u # t => pri_levels'[u] = pri_levels[u] /\ at'[u] = at[u]
      /\ \A n \in Mutexes : n # m => /\ holder'[n] = holder[n]
                                     /\ recursion_count'[n] = recursion_count[n]
  BY <1>2 DEF LockInv, TypeOK
<1>4. \A n \in Mutexes : ~Waits(t, n)'
  BY <1>3, RunningIs DEF Waits
<1>5. \A n \in Mutexes : Has(t, n)' <=> Has(t, n)
  BY DEF Has
<1>6. Held(t)' = IF Leveled(m) THEN Held(t) \cup {m} ELSE Held(t)
  BY <1>1, <1>2, <1>4, <1>5 DEF Held, Holds, Leveled
<1>7. Leveled(m) => /\ pri_levels'[t] \in Seq(Int) /\ Ascends(pri_levels'[t])
                    /\ Represents(pri_levels'[t], Held(t) \cup {m})
  <2> SUFFICES ASSUME Leveled(m)
               PROVE  /\ pri_levels'[t] \in Seq(Int) /\ Ascends(pri_levels'[t])
                      /\ Represents(pri_levels'[t], Held(t) \cup {m})
    OBVIOUS
  <2>1. Held(t) \in SUBSET Mutexes
    BY DEF Held
  <2>2. Ascends(pri_levels[t]) /\ Represents(pri_levels[t], Held(t))
    BY <1>1 DEF StackSound
  <2>3. pri_levels'[t] = Append(pri_levels[t], pri_level[m])
    BY <1>3 DEF Pushed
  <2> QED BY <1>1, <2>1, <2>2, <2>3, Pushing
<1>8. TypeOK'
  <2>1. pri_levels'[t] \in Seq(Int)
    BY <1>1, <1>3, <1>7 DEF Pushed
  <2>2. /\ holder' \in [Mutexes -> Threads \cup {None}] /\ recursion_count' \in [Mutexes -> Nat]
        /\ at' \in [Threads -> Activities]
    BY <1>2, RunningIs DEF LockInv, TypeOK
  <2>3. pri_levels' \in [Threads -> Seq(Int)]
    BY <2>1, <1>3 DEF LockInv, TypeOK
  <2> QED BY <2>2, <2>3 DEF LockInv, TypeOK
<1>9. StackSound(t)'
  <2>1. WaitIsTop(t)'
    BY <1>4 DEF WaitIsTop
  <2>2. Orderly(scopes[t])'
    BY <1>1 DEF StackSound, Orderly, Leveled
  <2>3. Ascends(pri_levels[t])' /\ Represents(pri_levels[t], Held(t))'
    <3>1. CASE Leveled(m)
      BY <1>6, <1>7, <3>1 DEF Ascends, Represents
    <3>2. CASE ~Leveled(m)
      <4>1. pri_levels'[t] = pri_levels[t] /\ Held(t)' = Held(t)
        BY <1>3, <1>6, <3>2 DEF Pushed
      <4> QED BY <1>1, <4>1 DEF StackSound, Ascends, Represents
    <3> QED BY <3>1, <3>2
  <2> QED BY <2>1, <2>2, <2>3 DEF StackSound
<1>10. OwnerHolds(m)' /\ Counted(t, m)'
  BY <1>1, <1>2, <1>3, <1>4, <1>5 DEF OwnerHolds, Counted, Holds
<1> HIDE DEF LockInv
<1> QED BY <1>1, <1>2, <1>3, <1>4, <1>5, <1>8, <1>9, <1>10, HeldChanges
-----------------------------------------------------------------------------
LEMMA EmptyStack == <<>> \in Seq(Int) /\ <<>> \in Seq(Mutexes) /\ \A i : i \notin DOMAIN <<>>
OBVIOUS

LEMMA LockInitially == Init => LockInv
<1> SUFFICES ASSUME Init PROVE LockInv
  OBVIOUS
<1>1. TypeOK
  <2>1. \A t \in Threads : \A i : i \notin DOMAIN scopes[t]
    BY EmptyStack DEF Init
  <2>2. /\ holder \in [Mutexes -> Threads \cup {None}] /\ recursion_count \in [Mutexes -> Nat]
        /\ depth \in [Threads -> [Mutexes -> Nat]] /\ at \in [Threads -> Activities]
    BY RunningIs DEF Init
  <2>3. pri_levels \in [Threads -> Seq(Int)] /\ scopes \in [Threads -> Seq(Mutexes)]
    BY EmptyStack DEF Init
  <2> QED BY <2>1, <2>2, <2>3 DEF TypeOK
<1>2. \A t \in Threads, m \in Mutexes : ~Has(t, m) /\ ~Waits(t, m)
  BY RunningIs, EmptyStack DEF Init, Has, Waits
<1>3. CountsAgree
  BY <1>2 DEF Init, CountsAgree, Holds
<1>4. ASSUME NEW t \in Threads PROVE StackSound(t)
  <2>1. Held(t) = {} /\ WaitIsTop(t)
    BY <1>2 DEF Held, Holds, WaitIsTop
  <2>2. pri_levels[t] = <<>> /\ scopes[t] = <<>>
    BY DEF Init
  <2>3. Ascends(<<>>) /\ Orderly(<<>>) /\ Represents(<<>>, {})
    BY EmptyStack DEF Ascends, Orderly, Represents
  <2> QED BY <2>1, <2>2, <2>3 DEF StackSound
<1> QED BY <1>1, <1>3, <1>4 DEF LockInv

LEMMA LockStep == LockInv /\ [Next]_lockVars => LockInv'
<1> SUFFICES ASSUME LockInv, [Next]_lockVars PROVE LockInv'
  OBVIOUS
<1> USE DEF Asks
<1>1. ASSUME NEW t \in Threads, NEW m \in Mutexes, Lock(t, m) PROVE LockInv'
  <2>1. LET a == [op |-> "lock", mtx |-> m] IN a \in Activities /\ a.op = "lock"
    BY DEF Activities
  <2> QED BY <1>1, <2>1, KeepsAsking DEF Lock
<1>2. ASSUME NEW t \in Threads, LockFails(t) PROVE LockInv'
  BY <1>2, RunningIs, KeepsAsking DEF LockFails
<1>3. ASSUME NEW t \in Threads, Acquire(t) PROVE LockInv'
  <2> DEFINE m == at[t].mtx
  <2>1. m \in Mutexes /\ at[t].op = "lock"
    BY <1>3, AtKinds, Typed DEF Acquire, LockInv
  <2>2. CASE holder[m] = None
    <3>1. t # None
      BY Typed DEF LockInv
    <3> QED BY <1>3, <2>1, <2>2, <3>1, KeepsTaking DEF Acquire
  <2>3. CASE holder[m] = t
    <3>1. Has(t, m) /\ recursion_count[m] = depth[t][m] /\ depth[t][m] \in Nat /\ t # None
      BY <2>1, <2>3, Split, Typed DEF LockInv, OwnerHolds, Counted, Holds
    <3>2. depth' = [depth EXCEPT ![t][m] = depth[t][m] + 1]
          /\ recursion_count' = [recursion_count EXCEPT ![m] = depth[t][m] + 1]
          /\ at' = [at EXCEPT ![t] = Running] /\ UNCHANGED <<holder, pri_levels, scopes>>
      BY <1>3, <2>3, <3>1 DEF Acquire
    <3>3. depth[t][m] + 1 \in Nat /\ depth[t][m] + 1 > 0
      BY <3>1
    <3> QED BY <2>1, <3>1, <3>2, <3>3, KeepsCounting
  <2> QED BY <1>3, <2>2, <2>3 DEF Acquire
<1>4. ASSUME NEW t \in Threads, NEW m \in Mutexes, UnlockInner(t, m) PROVE LockInv'
  <2>1. Has(t, m) /\ recursion_count[m] = depth[t][m] /\ depth[t][m] \in Nat /\ at[t].op = "run"
    BY <1>4, Split, Typed, Free DEF LockInv, UnlockInner, Counted
  <2>2. at[t] = Running
    BY <2>1, Typed DEF LockInv, Activities
  <2>3. at' = [at EXCEPT ![t] = Running]
    BY <1>4, <2>2 DEF UnlockInner, LockInv, TypeOK
  <2>4. depth' = [depth EXCEPT ![t][m] = depth[t][m] - 1]
        /\ recursion_count' = [recursion_count EXCEPT ![m] = depth[t][m] - 1]
        /\ UNCHANGED <<holder, pri_levels, scopes>>
    BY <1>4, <2>1 DEF UnlockInner
  <2>5. depth[t][m] - 1 \in Nat /\ depth[t][m] - 1 > 0
    BY <1>4, <2>1 DEF UnlockInner
  <2> QED BY <2>1, <2>3, <2>4, <2>5, KeepsCounting
<1>5. ASSUME NEW t \in Threads, Unlock(t) PROVE LockInv'
  BY <1>5, KeepsGivingUp DEF Unlock
<1>6. ASSUME NEW t \in Threads, NEW m \in Mutexes, Wait(t, m) PROVE LockInv'
  BY <1>6, KeepsWaiting DEF Wait
<1>7. ASSUME NEW t \in Threads, WakeOne(t) PROVE LockInv'
  <2>1. at' = [u \in Threads |-> IF u \in {t} THEN [at[u] EXCEPT !.op = "relock"] ELSE at[u]]
    BY <1>7 DEF WakeOne, LockInv, TypeOK
  <2> QED BY <1>7, <2>1, KeepsWaking DEF WakeOne
<1>8. ASSUME NEW m \in Mutexes, NotifyAll(m) PROVE LockInv'
  <2> DEFINE W == {t \in Threads : at[t].op = "wait" /\ at[t].mtx = m}
  <2>1. at' = [t \in Threads |-> IF t \in W THEN [at[t] EXCEPT !.op = "relock"] ELSE at[t]]
    BY <1>8 DEF NotifyAll
  <2> QED BY <1>8, <2>1, KeepsWaking DEF NotifyAll
<1>9. ASSUME NEW t \in Threads, Relock(t) PROVE LockInv'
  <2>1. at[t].mtx \in Mutexes
    BY <1>9, AtKinds, Typed DEF Relock, LockInv
  <2> QED BY <1>9, <2>1, KeepsRelocking DEF Relock
<1>10. CASE UNCHANGED lockVars
  BY <1>10 DEF lockVars, LockInv, TypeOK, CountsAgree, StackSound, Ascends, Represents, Orderly,
     WaitIsTop, Held, Holds, Has, Waits, Leveled
<1> QED BY <1>1, <1>2, <1>3, <1>4, <1>5, <1>6, <1>7, <1>8, <1>9, <1>10 DEF Next

\* LockInv is inductive: every lock(), unlock() and wait() of every thread keeps it.
THEOREM LocksInductive == Spec => []LockInv
BY LockInitially, LockStep, PTL DEF Spec

\* The variables keep their types, and a thread lists a mutex once.
THEOREM LockTypes == Spec => []TypeOK
<1>1. LockInv => TypeOK
  BY DEF LockInv
<1> QED BY <1>1, LocksInductive, PTL

\* lock(), unlock(), wait(): recursion_count is the number of scoped_locks of the
\* owner, also after a wait that gave all of them up and took them again.
THEOREM CountsMatch == Spec => []CountsAgree
<1>1. LockInv => CountsAgree
  BY DEF LockInv
<1> QED BY <1>1, LocksInductive, PTL

\* lock() and unlock() keep the stack of a thread to the levels of the mutexes that it
\* holds, in ascending order: looking at the top alone is enough.
THEOREM StackMatches == Spec => []StackIsHeld
<1>1. LockInv => StackIsHeld
  BY DEF LockInv, StackSound, StackIsHeld, Ascends, Represents, Held
<1> QED BY <1>1, LocksInductive, PTL

\* wait(): the lock() that ends it is never out of order, so the scoped_locks
\* of a thread that returns from wait() are locks that it has.
THEOREM RelockAlways == Spec => []RelockSucceeds
<1>1. LockInv => RelockSucceeds
  <2> SUFFICES ASSUME LockInv, NEW t \in Threads, at[t].op = "relock",
                      Leveled(at[t].mtx), pri_levels[t] # <<>>
               PROVE  ~(Top(pri_levels[t]) >= pri_level[at[t].mtx])
    BY DEF RelockSucceeds, Asks, WrongOrder
  <2> DEFINE s == pri_levels[t]
             m == at[t].mtx
  <2>1. s \in Seq(Int) /\ StackSound(t) /\ m \in Mutexes /\ Waits(t, m)
    <3>1. at[t] \in Activities
      BY Typed DEF LockInv
    <3>2. m \in Mutexes
      BY <3>1, AtKinds
    <3>3. Waits(t, m)
      BY DEF Waits
    <3> QED BY <3>2, <3>3, Typed DEF LockInv
  <2>2. PICK L \in Nat :
           /\ L > 0 /\ DOMAIN s = 1..L /\ Len(s) = L /\ Top(s) = s[L]
           /\ \A i \in 1..L : s[i] \in Int
           /\ Butlast(s) \in Seq(Int) /\ DOMAIN Butlast(s) = 1..(L - 1)
           /\ \A i \in 1..(L - 1) : Butlast(s)[i] = s[i]
    BY <2>1, ButEnd
  <2>3. PICK n \in Held(t) : s[L] = pri_level[n]
    <3>1. Represents(s, Held(t)) /\ L \in DOMAIN s
      BY <2>1, <2>2 DEF StackSound
    <3> QED BY <3>1 DEF Represents
  <2>4. pri_level[n] < pri_level[m] /\ n \in Mutexes
    BY <2>1, <2>3 DEF StackSound, WaitIsTop, Held
  <2> QED BY <2>1, <2>2, <2>3, <2>4, Levels
<1> QED BY <1>1, LocksInductive, PTL

\* lock(): the levels rise along a chain of threads that wait for each other and that
\* the check allows, so a finite chain never comes back to where it began.
THEOREM ChainsClimb == Spec => []ChainsRise
<1>1. LockInv => ChainsRise
  <2> SUFFICES ASSUME LockInv, NEW t \in Threads, NEW u \in Threads, Blocked(t),
                      Leveled(at[t].mtx), holder[at[t].mtx] = u, Blocked(u), Allowed(u)
               PROVE  pri_level[at[t].mtx] < pri_level[at[u].mtx]
    BY DEF ChainsRise
  <2> DEFINE m == at[t].mtx
             n == at[u].mtx
  <2>1. /\ pri_levels[u] \in Seq(Int) /\ StackSound(u) /\ u # None
        /\ m \in Mutexes /\ n \in Mutexes
    <3>1. at[t].op # "run" /\ at[u].op # "run" /\ at[t] \in Activities /\ at[u] \in Activities
      BY Typed DEF LockInv, Blocked
    <3> QED BY <3>1, Typed, AtKinds DEF LockInv
  <2>2. m \in Held(u) /\ Held(u) \in SUBSET Mutexes
    BY <2>1, Split DEF LockInv, OwnerHolds, Held
  <2>3. Leveled(n) /\ ~WrongOrder(pri_levels[u], n)
    BY DEF Allowed
  <2>4. Ascends(pri_levels[u]) /\ Represents(pri_levels[u], Held(u))
    BY <2>1 DEF StackSound
  <2> HIDE DEF m, n
  <2>5. \A k \in Held(u) : pri_level[k] < pri_level[n]
    BY <2>1, <2>2, <2>3, <2>4, Pushing
  <2> QED BY <2>2, <2>5 DEF m, n
<1> QED BY <1>1, LocksInductive, PTL

\* In a finite set that is not empty something is highest: a smallest part of it that
\* had nothing highest would have one element more than a part that has.
LEMMA Highest ==
  ASSUME NEW S, IsFiniteSet(S), S # {}, NEW f \in [S -> Int]
  PROVE  \E x \in S : \A y \in S : f[y] <= f[x]
<1> DEFINE Flat == {X \in FiniteSubsetsOf(S) :
                      X # {} /\ \A x \in X : \E y \in X : ~(f[y] <= f[x])}
<1>1. S \notin Flat => \E x \in S : \A y \in S : f[y] <= f[x]
  BY DEF FiniteSubsetsOf
<1>2. SUFFICES ASSUME Flat # {} PROVE FALSE
  BY <1>1
<1>3. PICK X \in Flat : \A Y \in Flat : ~(<<Y, X>> \in StrictSubsetOrdering(S))
  BY <1>2, FS_StrictSubsetOrderingWellFounded, WFMin
<1>4. X \in SUBSET S /\ IsFiniteSet(X) /\ X # {}
      /\ \A x \in X : \E y \in X : ~(f[y] <= f[x])
  BY DEF FiniteSubsetsOf
<1>5. PICK x \in X : TRUE
  BY <1>4
<1> DEFINE Y == X \ {x}
<1>6. Y \in FiniteSubsetsOf(S)
  BY <1>4, FS_Subset DEF FiniteSubsetsOf
<1>7. <<Y, X>> \in StrictSubsetOrdering(S)
  BY <1>4, <1>5 DEF StrictSubsetOrdering
<1>8. Y = {} \/ \E y \in Y : \A z \in Y : f[z] <= f[y]
  BY <1>3, <1>6, <1>7
<1>9. \A z \in S : f[z] \in Int
  OBVIOUS
<1>10. CASE Y = {}
  <2>1. \A y \in X : y = x
    BY <1>10
  <2> QED BY <2>1, <1>4, <1>5, <1>9
<1>11. CASE \E y \in Y : \A z \in Y : f[z] <= f[y]
  <2>1. PICK y \in Y : \A z \in Y : f[z] <= f[y]
    BY <1>11
  <2>2. y \in S /\ y \in X /\ x \in S
    BY <1>4, <1>5, <2>1
  <2>3. \A z \in X : z = x \/ f[z] <= f[y]
    BY <2>1
  <2>4. CASE f[x] <= f[y]
    BY <2>2, <2>3, <2>4, <1>4
  <2>5. CASE ~(f[x] <= f[y])
    <3>1. f[y] <= f[x] /\ f[x] <= f[x] /\ f[x] \in Int /\ f[y] \in Int
      BY <2>2, <2>5, <1>9
    <3>2. \A z \in X : f[z] \in Int
      BY <1>4, <1>9
    <3>3. \A z \in X : f[z] <= f[x]
      BY <2>3, <3>1, <3>2
    <3> QED BY <3>3, <1>4, <1>5
  <2> QED BY <2>4, <2>5
<1> QED BY <1>8, <1>10, <1>11

\* lock(), and the purpose of the levels: threads that the check allows never wait for
\* each other in a circle.  The one that waits for the highest level would
\* wait for a thread that waits for a higher one.
THEOREM NoDeadlock == Spec => []NoCircle
<1>1. LockInv /\ ChainsRise => NoCircle
  <2> SUFFICES ASSUME LockInv, ChainsRise, NEW S \in SUBSET Threads, S # {},
                      \A t \in S : Blocked(t) /\ Allowed(t) /\ holder[at[t].mtx] \in S
               PROVE  FALSE
    BY DEF NoCircle
  <2> DEFINE level == [t \in S |-> pri_level[at[t].mtx]]
  <2>1. IsFiniteSet(S)
    BY LockAssumption, FS_Subset DEF LockAssumption
  <2>2. ASSUME NEW t \in S PROVE at[t].mtx \in Mutexes /\ Leveled(at[t].mtx)
    <3>1. at[t] \in Activities /\ at[t].op # "run"
      BY Typed DEF LockInv, Blocked
    <3> QED BY <3>1, AtKinds DEF Allowed
  <2>3. level \in [S -> Int]
    BY <2>2, Levels
  <2>4. PICK t \in S : \A u \in S : level[u] <= level[t]
    <3> HIDE DEF level
    <3> QED BY <2>1, <2>3, Highest
  <2>5. PICK u \in S : holder[at[t].mtx] = u
    OBVIOUS
  <2>6. pri_level[at[t].mtx] < pri_level[at[u].mtx]
    BY <2>2, <2>5 DEF ChainsRise
  <2>7. pri_level[at[t].mtx] \in Int /\ pri_level[at[u].mtx] \in Int
    BY <2>2, Levels
  <2> QED BY <2>4, <2>6, <2>7
<1> QED BY <1>1, LocksInductive, ChainsClimb, PTL
==============================================================================
