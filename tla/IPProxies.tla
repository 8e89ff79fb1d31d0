------------------------------ MODULE IPProxies ------------------------------
(***************************************************************************)
(* The bandwidth limit per client address: class IPProxies of ip_proxy.cpp *)
(* and its users, TcpConnection and UdpEndpointProxy, which take an entry  *)
(* in their constructor and give it back in their destructor.              *)
(*                                                                         *)
(* Users run on the io_service threads and the routine thread of the UDP   *)
(* relay, here Threads; the limiter's own thread sweeps the table.         *)
(* ++ref_cnt runs under the mutex of the table and --ref_cnt under that of *)
(* the entry, so each is a load and a store with other steps in between.   *)
(* What is done under both, or under one that all who do it hold, is one   *)
(* step.                                                                   *)
(***************************************************************************)
EXTENDS Integers, FiniteSets

CONSTANTS Users,         \* connections and endpoints, each may come again
          Threads,
          io_service,    \* the thread that a user runs on
          Addrs,
          bandwidth,     \* bytes per second, by direction
          Costs,         \* bytes of a packet, overhead included
          Intervals,     \* milliseconds between two sweeps
          MaxDrift       \* bound: an address whose ref_cnt is off by more gets no
                         \* new users

CONSTANTS None, Limiter

Pair == {0, 1}

ASSUME IPProxiesAssumption ==
  /\ IsFiniteSet(Users)
  /\ io_service \in [Users -> Threads]
  /\ bandwidth \in [Pair -> Nat] /\ \E i \in Pair : bandwidth[i] > 0
  /\ Costs \subseteq Nat \ {0} /\ Costs # {}
  /\ Intervals \subseteq Nat \ {0} /\ MaxDrift \in Nat
  /\ Limiter \notin Threads /\ None \notin Threads \cup {Limiter} \cup Addrs \cup Users

VARIABLES
  addrs,          \* the addresses in the table
  ref_cnt, avail_bytes,
  mtx,            \* the thread that holds the mutex of the table, or None
  entry_mtx,      \* the same of an entry
  client_ip,      \* the address of the entry that a user points at, or None
  loaded,         \* of a thread in the middle of ++ref_cnt or --ref_cnt:
                  \* whose, of which entry, and the value it has read
  todo, delete_proies,    \* of a sweep: entries to visit, entries to erase
  interval,
  lost,           \* an update of the ref_cnt of the entry was lost
  dangling        \* an entry was erased to which a user still points

table  == <<addrs, ref_cnt, avail_bytes>>
locks  == <<mtx, entry_mtx>>
sweep  == <<todo, delete_proies, interval>>
ipVars == <<table, locks, client_ip, loaded, sweep, lost, dangling>>

Idle == [step |-> "idle"]

Holders(a) == {u \in Users : client_ip[u] = a}

\* By how much lost updates have put the counter wrong.
Drift(a) == ref_cnt[a] - Cardinality(Holders(a))

\* Another thread has stored a ref_cnt since this one loaded it.
Stale(t) == ref_cnt[loaded[t].entry] # loaded[t].value

Init ==
  /\ addrs = {}
  /\ ref_cnt = [a \in Addrs |-> 0]
  /\ avail_bytes = [a \in Addrs |-> [i \in Pair |-> 0]]
  /\ mtx = None
  /\ entry_mtx = [a \in Addrs |-> None]
  /\ client_ip = [u \in Users |-> None]
  /\ loaded = [t \in Threads |-> Idle]
  /\ todo = {} /\ delete_proies = {} /\ interval = 0
  /\ lost = [a \in Addrs |-> FALSE]
  /\ dangling = FALSE

-----------------------------------------------------------------------------
(* Decisions, with the slips that the checks must notice.                  *)

\* The sweep erases what nobody points at, under the mutex that getIPProxy takes.
UnusedNever(a) == FALSE
UnusedEarly(a) == ref_cnt[a] <= 1
Unused(a) == ref_cnt[a] <= 0

\* A packet goes out when the balance is not negative.
MaySpendInDebt(a, i) == TRUE
MaySpend(a, i) == avail_bytes[a][i] >= 0

\* The mutex of the table is held throughout the sweep.
SweepUnlocked == None
SweepHolds == Limiter

\* An entry that was not in the table is created with a ref_cnt of 0.
Found(a) == IF a \in addrs THEN ref_cnt[a] ELSE 0
-----------------------------------------------------------------------------
\* getIPProxy: the table is locked, the entry found or created, ref_cnt loaded.
GetLoad(u, a) ==
  LET t == io_service[u]
  IN  /\ ~dangling /\ client_ip[u] = None
      /\ a \in addrs => Drift(a) \in -MaxDrift..MaxDrift
      /\ loaded[t] = Idle /\ mtx = None
      /\ mtx' = t
      /\ addrs' = addrs \cup {a}
      /\ ref_cnt' = [ref_cnt EXCEPT ![a] = Found(a)]
      /\ avail_bytes' = IF a \in addrs THEN avail_bytes
                        ELSE [avail_bytes EXCEPT ![a] = [i \in Pair |-> 0]]
      /\ lost' = IF a \in addrs THEN lost ELSE [lost EXCEPT ![a] = FALSE]
      /\ loaded' = [loaded EXCEPT ![t] =
                      [step |-> "get", user |-> u, entry |-> a, value |-> Found(a)]]
      /\ UNCHANGED <<entry_mtx, client_ip, sweep, dangling>>

\* getIPProxy: ref_cnt is stored, the table unlocked, the pointer returned.
GetStore(t) ==
  LET a == loaded[t].entry
  IN  /\ ~dangling /\ loaded[t].step = "get"
      /\ ref_cnt' = [ref_cnt EXCEPT ![a] = loaded[t].value + 1]
      /\ lost' = [lost EXCEPT ![a] = @ \/ Stale(t)]
      /\ client_ip' = [client_ip EXCEPT ![loaded[t].user] = a]
      /\ mtx' = None
      /\ loaded' = [loaded EXCEPT ![t] = Idle]
      /\ UNCHANGED <<addrs, avail_bytes, entry_mtx, sweep, dangling>>

\* The destructor of a user: the entry is locked and ref_cnt loaded.
PutLoad(u) ==
  LET t == io_service[u]
      a == client_ip[u]
  IN  /\ ~dangling /\ a # None /\ loaded[t] = Idle
      /\ entry_mtx[a] = None
      /\ entry_mtx' = [entry_mtx EXCEPT ![a] = t]
      /\ loaded' = [loaded EXCEPT ![t] =
                      [step |-> "put", user |-> u, entry |-> a, value |-> ref_cnt[a]]]
      /\ UNCHANGED <<table, mtx, client_ip, sweep, lost, dangling>>

\* The destructor: ref_cnt is stored, the entry unlocked.
PutStore(t) ==
  LET a == loaded[t].entry
  IN  /\ ~dangling /\ loaded[t].step = "put"
      /\ ref_cnt' = [ref_cnt EXCEPT ![a] = loaded[t].value - 1]
      /\ lost' = [lost EXCEPT ![a] = @ \/ Stale(t)]
      /\ client_ip' = [client_ip EXCEPT ![loaded[t].user] = None]
      /\ entry_mtx' = [entry_mtx EXCEPT ![a] = None]
      /\ loaded' = [loaded EXCEPT ![t] = Idle]
      /\ UNCHANGED <<addrs, avail_bytes, mtx, sweep, dangling>>

\* handleWrite of TcpConnection, the sends of the UDP relay: under the mutex of the
\* entry the balance is read and charged, or the packet waits.
Spend(u, i, cost) ==
  LET a == client_ip[u]
  IN  /\ ~dangling /\ a # None /\ loaded[io_service[u]] = Idle
      /\ bandwidth[i] > 0
      /\ entry_mtx[a] = None /\ MaySpend(a, i)
      /\ avail_bytes' = [avail_bytes EXCEPT ![a][i] = @ - cost]
      /\ UNCHANGED <<addrs, ref_cnt, locks, client_ip, loaded, sweep, lost, dangling>>

\* routineThreadHandler: d milliseconds have gone by, the table is locked.
SweepBegin(d) ==
  /\ ~dangling /\ todo = {} /\ interval = 0 /\ mtx = None
  /\ mtx' = SweepHolds
  /\ interval' = d
  /\ todo' = addrs
  /\ UNCHANGED <<table, entry_mtx, client_ip, loaded, delete_proies, lost, dangling>>

\* One entry, under its own mutex too.
SweepEntry(a) ==
  /\ ~dangling /\ a \in todo /\ entry_mtx[a] = None
  /\ todo' = todo \ {a}
  /\ \/ /\ Unused(a)
        /\ delete_proies' = delete_proies \cup {a}
        /\ UNCHANGED avail_bytes
     \/ /\ ~Unused(a)
        /\ avail_bytes' =
             [avail_bytes EXCEPT ![a] =
                [i \in Pair |-> IF @[i] < 0 THEN @[i] + (interval * bandwidth[i]) \div 1000
                                ELSE @[i]]]
        /\ UNCHANGED delete_proies
  /\ UNCHANGED <<addrs, ref_cnt, locks, client_ip, loaded, interval, lost, dangling>>

\* The entries found unused are erased, the table unlocked.
SweepEnd ==
  /\ ~dangling /\ interval > 0 /\ todo = {}
  /\ addrs' = addrs \ delete_proies
  /\ dangling' = \E a \in delete_proies : Holders(a) # {}
  /\ delete_proies' = {}
  /\ interval' = 0
  /\ mtx' = IF mtx = Limiter THEN None ELSE mtx
  /\ UNCHANGED <<ref_cnt, avail_bytes, entry_mtx, client_ip, loaded, todo, lost>>

\* What follows is not defined: the user will touch the entry in its destructor.
Dangles == dangling /\ UNCHANGED ipVars

SweepStep == SweepEnd \/ (\E a \in Addrs : SweepEntry(a)) \/ \E d \in Intervals : SweepBegin(d)

Next ==
  \/ \E u \in Users, a \in Addrs : GetLoad(u, a)
  \/ \E u \in Users : PutLoad(u)
  \/ \E t \in Threads : GetStore(t) \/ PutStore(t)
  \/ \E u \in Users, i \in Pair, cost \in Costs : Spend(u, i, cost)
  \/ SweepStep
  \/ Dangles

Spec == Init /\ [][Next]_ipVars
-----------------------------------------------------------------------------
States == {Idle} \cup [step : {"get", "put"}, user : Users, entry : Addrs, value : Int]

\* Type correctness; a sweep of routineThreadHandler, from its first entry to the
\* last erase, is one with the mutex of the table held.
TypeOK ==
  /\ addrs \subseteq Addrs
  /\ ref_cnt \in [Addrs -> Int]
  /\ avail_bytes \in [Addrs -> [Pair -> Int]]
  /\ mtx \in Threads \cup {None, Limiter}
  /\ entry_mtx \in [Addrs -> Threads \cup {None}]
  /\ client_ip \in [Users -> Addrs \cup {None}]
  /\ loaded \in [Threads -> States]
  /\ todo \subseteq addrs /\ delete_proies \subseteq Addrs
  /\ interval \in Nat /\ (mtx = Limiter <=> interval > 0)
  /\ lost \in [Addrs -> BOOLEAN] /\ dangling \in BOOLEAN

\* getIPProxy, the destructors, the sweep: an entry is not erased while somebody
\* points at it.
InUse(a) == Holders(a) # {} => a \in addrs

\* It holds as long as no update of the entry's ref_cnt was lost: in the sweep
\* itself, which looks at the counters one by one and erases at the end,
\* nothing goes wrong.
EntryInUse == \A a \in Addrs : lost[a] \/ InUse(a)

\* A balance is overdrawn by one packet at most, with several threads that read and
\* charge it.
DebtBound ==
  \A a \in addrs, i \in Pair : \E cost \in Costs : avail_bytes[a][i] >= -cost

\* The table does not grow for ever: an address that nobody uses is erased, or used
\* again.
Forgotten ==
  \A a \in Addrs : a \in addrs /\ Holders(a) = {} ~>
                     a \notin addrs \/ Holders(a) # {} \/ lost[a] \/ dangling

\* Every thread goes on with what it has begun, and the sweep keeps running.
FairSpec ==
  /\ Spec
  /\ \A t \in Threads : WF_ipVars(GetStore(t)) /\ WF_ipVars(PutStore(t))
  /\ WF_ipVars(SweepEnd) /\ WF_ipVars(\E a \in Addrs : SweepEntry(a))
  /\ SF_ipVars(\E d \in Intervals : SweepBegin(d))
-----------------------------------------------------------------------------
\* The comment on TcpProxy: it takes no locks, as one io_service drives all it does.
\* What it does with the entries of client addresses is driven by all of
\* them, and the locks it takes there do not exclude each other.
EntriesSafe == \A a \in Addrs : InUse(a)
=============================================================================
