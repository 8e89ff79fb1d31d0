-------------------------------- MODULE XThread --------------------------------
(***************************************************************************)
(* xrecursive_mutex and condition_variable_recursive_mutex of xthread.cpp. *)
(*                                                                         *)
(* A mutex may have a level.  Each thread keeps a stack of the levels that *)
(* it holds, and a lock that is not above the top of that stack fails: so  *)
(* threads cannot wait for each other in a circle, if each asks in order.  *)
(* lock() first takes the mutex and then compares: one out of order fails  *)
(* if the mutex is free, and waits like any other if it is not.            *)
(*                                                                         *)
(* Locks are taken with scoped_lock only, so they nest: scopes[t] is the   *)
(* order in which t first took the mutexes it has, depth[t][m] how many    *)
(* scoped_locks of m it has.  They stay while t waits on a condition.      *)
(***************************************************************************)
EXTENDS Integers, Sequences, FiniteSets

CONSTANTS Threads, Mutexes,
          None,          \* no thread
          pri_level,     \* the level of each mutex
          MaxScopes,     \* bound: mutexes that a thread has at a time
          MaxDepth       \* bound: scoped_locks of one mutex

NOCARE_PRIMARY_LEVEL == -1

ASSUME LockAssumption ==
  /\ None \notin Threads /\ IsFiniteSet(Threads)
  /\ \A m \in Mutexes : pri_level[m] \in Int /\ pri_level[m] >= NOCARE_PRIMARY_LEVEL
  /\ MaxScopes \in Nat /\ MaxDepth \in Nat

VARIABLES
  holder,            \* the thread that owns the boost mutex, or None
  recursion_count,
  pri_levels,        \* the stack of each thread
  scopes, depth,
  at                 \* what a thread does: [op, mtx, extra_lock]

lockVars == <<holder, recursion_count, pri_levels, scopes, depth, at>>

Leveled(m) == pri_level[m] # NOCARE_PRIMARY_LEVEL
Top(stack) == stack[Len(stack)]
Butlast(s) == SubSeq(s, 1, Len(s) - 1)
Has(t, m)  == \E i \in DOMAIN scopes[t] : scopes[t][i] = m

Running == [op |-> "run"]
Asks(t, op) == at[t].op = op
-----------------------------------------------------------------------------
(* What lock() and unlock() do.  The variants defined just before some of  *)
(* them are the slips that the checks must notice.                         *)

\* lock(): a first lock that is not above every level held fails.
WrongOrderUnchecked(stack, m) == FALSE
WrongOrder(stack, m) == Leveled(m) /\ stack # <<>> /\ Top(stack) >= pri_level[m]

Pushed(stack, m) == IF Leveled(m) THEN Append(stack, pri_level[m]) ELSE stack

\* unlock(), the last one: a level that is not on top is only reported.
PoppedTwice(stack, m) ==
  IF Leveled(m) /\ stack # <<>> THEN SubSeq(stack, 1, Len(stack) - 2) ELSE stack
Popped(stack, m) ==
  IF Leveled(m) /\ stack # <<>> /\ Top(stack) = pri_level[m]
  THEN Butlast(stack) ELSE stack

\* check(): a wait is refused unless the mutex has the highest level held.
Check(stack, m) == Leveled(m) => stack # <<>> /\ Top(stack) = pri_level[m]

\* wait(): the locks to give up before cond.wait and to take again after it.
ExtraLockAll(m) == recursion_count[m]
ExtraLockLess(m) == recursion_count[m] - 2
ExtraLock(m) == recursion_count[m] - 1
-----------------------------------------------------------------------------
Init ==
  /\ holder = [m \in Mutexes |-> None]
  /\ recursion_count = [m \in Mutexes |-> 0]
  /\ pri_levels = [t \in Threads |-> <<>>]
  /\ scopes = [t \in Threads |-> <<>>]
  /\ depth = [t \in Threads |-> [m \in Mutexes |-> 0]]
  /\ at = [t \in Threads |-> Running]

\* A thread makes a scoped_lock of m: it enters lock().
Lock(t, m) ==
  /\ Asks(t, "run")
  /\ Has(t, m) \/ Len(scopes[t]) < MaxScopes
  /\ depth[t][m] < MaxDepth
  /\ at' = [at EXCEPT ![t] = [op |-> "lock", mtx |-> m]]
  /\ UNCHANGED <<holder, recursion_count, pri_levels, scopes, depth>>

\* The mutex is free, or held already, and the order is right.
Acquire(t) ==
  /\ Asks(t, "lock")
  /\ LET m == at[t].mtx IN
       \/ /\ holder[m] = None /\ ~WrongOrder(pri_levels[t], m)
          /\ holder' = [holder EXCEPT ![m] = t]
          /\ recursion_count' = [recursion_count EXCEPT ![m] = 1]
          /\ pri_levels' = [pri_levels EXCEPT ![t] = Pushed(@, m)]
          /\ scopes' = [scopes EXCEPT ![t] = Append(@, m)]
          /\ depth' = [depth EXCEPT ![t][m] = 1]
       \/ /\ holder[m] = t
          /\ recursion_count' = [recursion_count EXCEPT ![m] = @ + 1]
          /\ depth' = [depth EXCEPT ![t][m] = @ + 1]
          /\ UNCHANGED <<holder, pri_levels, scopes>>
  /\ at' = [at EXCEPT ![t] = Running]

\* "wrong order, lock failed": the mutex is given back and XASSERT throws.
LockFails(t) ==
  /\ Asks(t, "lock")
  /\ holder[at[t].mtx] = None /\ WrongOrder(pri_levels[t], at[t].mtx)
  /\ at' = [at EXCEPT ![t] = Running]
  /\ UNCHANGED <<holder, recursion_count, pri_levels, scopes, depth>>

\* The innermost scoped_lock ends, and another one of the same mutex remains.
UnlockInner(t, m) ==
  /\ Asks(t, "run") /\ depth[t][m] > 1
  /\ recursion_count' = [recursion_count EXCEPT ![m] = @ - 1]
  /\ depth' = [depth EXCEPT ![t][m] = @ - 1]
  /\ UNCHANGED <<holder, pri_levels, scopes, at>>

\* The last scoped_lock of the mutex that was taken last ends.
Unlock(t) ==
  /\ Asks(t, "run") /\ scopes[t] # <<>>
  /\ LET m == Top(scopes[t]) IN
       /\ depth[t][m] = 1
       /\ pri_levels' = [pri_levels EXCEPT ![t] = Popped(@, m)]
       /\ recursion_count' = [recursion_count EXCEPT ![m] = @ - 1]
       /\ holder' = [holder EXCEPT ![m] = IF recursion_count[m] = 1 THEN None ELSE @]
       /\ scopes' = [scopes EXCEPT ![t] = Butlast(@)]
       /\ depth' = [depth EXCEPT ![t][m] = 0]
  /\ UNCHANGED at

\* wait() and timed_wait(): check(), the extra unlocks, then cond.wait unlocks.
Wait(t, m) ==
  /\ Asks(t, "run") /\ Has(t, m) /\ Check(pri_levels[t], m)
  /\ at' = [at EXCEPT ![t] = [op |-> "wait", mtx |-> m, extra_lock |-> ExtraLock(m)]]
  /\ pri_levels' = [pri_levels EXCEPT ![t] = Popped(@, m)]
  /\ holder' = [holder EXCEPT ![m] = None]
  /\ recursion_count' = [recursion_count EXCEPT ![m] = 0]
  /\ UNCHANGED <<scopes, depth>>

\* One waiter is woken, by notify_one, by the end of timed_wait, or by nobody.
WakeOne(t) ==
  /\ Asks(t, "wait")
  /\ at' = [at EXCEPT ![t].op = "relock"]
  /\ UNCHANGED <<holder, recursion_count, pri_levels, scopes, depth>>

NotifyAll(m) ==
  /\ \E t \in Threads : Asks(t, "wait") /\ at[t].mtx = m
  /\ at' = [t \in Threads |-> IF Asks(t, "wait") /\ at[t].mtx = m
                              THEN [at[t] EXCEPT !.op = "relock"] ELSE at[t]]
  /\ UNCHANGED <<holder, recursion_count, pri_levels, scopes, depth>>

\* cond.wait takes the mutex again with lock(), then the extra locks are taken.
Relock(t) ==
  /\ Asks(t, "relock") /\ holder[at[t].mtx] = None
  /\ ~WrongOrder(pri_levels[t], at[t].mtx)
  /\ LET m == at[t].mtx IN
       /\ holder' = [holder EXCEPT ![m] = t]
       /\ recursion_count' = [recursion_count EXCEPT ![m] = 1 + at[t].extra_lock]
       /\ pri_levels' = [pri_levels EXCEPT ![t] = Pushed(@, m)]
  /\ at' = [at EXCEPT ![t] = Running]
  /\ UNCHANGED <<scopes, depth>>

Next ==
  \/ \E t \in Threads : Acquire(t) \/ LockFails(t) \/ Unlock(t) \/ WakeOne(t) \/ Relock(t)
  \/ \E t \in Threads, m \in Mutexes : Lock(t, m) \/ UnlockInner(t, m) \/ Wait(t, m)
  \/ \E m \in Mutexes : NotifyAll(m)

Spec == Init /\ [][Next]_lockVars
-----------------------------------------------------------------------------
Waits(t, m) == at[t].op \in {"wait", "relock"} /\ at[t].mtx = m

\* A thread has a lock that it does not give up meanwhile.
Holds(t, m) == Has(t, m) /\ ~Waits(t, m)

Activities ==
  {Running} \cup [op : {"lock"}, mtx : Mutexes]
            \cup [op : {"wait", "relock"}, mtx : Mutexes, extra_lock : Nat]

\* Type correctness; scopes lists each mutex once.
TypeOK ==
  /\ holder \in [Mutexes -> Threads \cup {None}]
  /\ recursion_count \in [Mutexes -> Nat]
  /\ pri_levels \in [Threads -> Seq(Int)]
  /\ scopes \in [Threads -> Seq(Mutexes)]
  /\ \A t \in Threads : \A i, j \in DOMAIN scopes[t] :
       scopes[t][i] = scopes[t][j] => i = j
  /\ depth \in [Threads -> [Mutexes -> Nat]]
  /\ at \in [Threads -> Activities]

\* lock(), unlock(), wait(): who has a scoped_lock owns the mutex, except while it
\* waits, and recursion_count is the number of its scoped_locks, also
\* after a wait in between that gave up all of them.
CountsAgree ==
  /\ \A m \in Mutexes :
       /\ holder[m] = None <=> recursion_count[m] = 0
       /\ holder[m] # None => Holds(holder[m], m)
  /\ \A t \in Threads, m \in Mutexes :
       /\ depth[t][m] > 0 <=> Has(t, m)
       /\ Holds(t, m) => holder[m] = t /\ recursion_count[m] = depth[t][m]
       /\ Waits(t, m) => Has(t, m) /\ at[t].extra_lock + 1 = depth[t][m]

\* lock(), unlock(): the stack of a thread is the levels it holds and no other, in
\* ascending order, so the check that looks at the top alone sees every
\* level, and unlock() never finds another level on top of its own.
StackIsHeld ==
  \A t \in Threads :
    /\ \A i, j \in DOMAIN pri_levels[t] : i < j => pri_levels[t][i] < pri_levels[t][j]
    /\ \A m \in Mutexes : Holds(t, m) /\ Leveled(m) =>
         \E i \in DOMAIN pri_levels[t] : pri_levels[t][i] = pri_level[m]
    /\ \A i \in DOMAIN pri_levels[t] :
         \E m \in Mutexes : Holds(t, m) /\ Leveled(m) /\ pri_levels[t][i] = pri_level[m]

\* wait(): the lock() inside cond.wait never fails, whatever other locks
\* the thread has: it would leave a scoped_lock of a mutex that is not held.
RelockSucceeds ==
  \A t \in Threads : Asks(t, "relock") => ~WrongOrder(pri_levels[t], at[t].mtx)

\* t waits for a mutex that another thread holds.
Blocked(t) == at[t].op \in {"lock", "relock"} /\ holder[at[t].mtx] \notin {t, None}

\* The check in lock() has nothing against it: it looks at the top of the stack only.
Allowed(t) == Leveled(at[t].mtx) /\ ~WrongOrder(pri_levels[t], at[t].mtx)

\* lock(), and the purpose of the levels: threads that the check allows never wait for
\* each other in a circle.  Others may, because lock() takes the mutex first
\* and compares then: an order that is wrong shows only while the mutex is free.
NoCircle ==
  ~\E S \in (SUBSET Threads) \ {{}} :
     \A t \in S : Blocked(t) /\ Allowed(t) /\ holder[at[t].mtx] \in S

\* The reason, which needs no finite set of threads: along a chain of threads that wait
\* for each other the levels rise.
ChainsRise ==
  \A t, u \in Threads :
    Blocked(t) /\ Leveled(at[t].mtx) /\ holder[at[t].mtx] = u /\ Blocked(u) /\ Allowed(u)
      => pri_level[at[t].mtx] < pri_level[at[u].mtx]
=============================================================================
