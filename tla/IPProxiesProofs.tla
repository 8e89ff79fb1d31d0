--------------------------- MODULE IPProxiesProofs ---------------------------
(***************************************************************************)
(* The invariants of IPProxies, for any users, threads, addresses, limits  *)
(* and intervals.                                                          *)
(***************************************************************************)
EXTENDS IPProxies, FiniteSetTheorems, TLAPS

\* A thread between its load and its store works for a user of its own: one that
\* points at nothing yet, with the table locked and the entry in it, or one
\* that still points at the entry.
Working(t) ==
  /\ loaded[t].step = "get" => /\ mtx = t /\ loaded[t].entry \in addrs
                               /\ client_ip[loaded[t].user] = None
                               /\ io_service[loaded[t].user] = t
  /\ loaded[t].step = "put" => /\ client_ip[loaded[t].user] = loaded[t].entry
                               /\ io_service[loaded[t].user] = t

\* As long as no update was lost the counter is right.
Exact(a) == a \in addrs /\ ~lost[a] => ref_cnt[a] = Cardinality(Holders(a))

\* Nobody points at an address that is not in the table.
Absent(a) == a \notin addrs /\ ~dangling => Holders(a) = {}

\* What a sweep has found unused stays unused until it is erased, with the table locked
\* all the time.
Deleting(a) == a \in delete_proies => interval > 0 /\ (lost[a] \/ Holders(a) = {})

\* There are entries to visit only in a sweep.
Sweeping == todo # {} => interval > 0

IpInv ==
  /\ TypeOK
  /\ Sweeping
  /\ \A t \in Threads : Working(t)
  /\ \A a \in Addrs : Exact(a) /\ Absent(a) /\ Deleting(a)
  /\ EntryInUse
  /\ DebtBound

\* The users of an entry are finitely many.
LEMMA HoldersFinite == \A a : IsFiniteSet(Holders(a)) /\ Cardinality(Holders(a)) \in Nat
<1> TAKE a
<1>1. IsFiniteSet(Users) /\ Holders(a) \in SUBSET Users
  BY IPProxiesAssumption DEF IPProxiesAssumption, Holders
<1> QED BY <1>1, FS_Subset, FS_CardinalityType

\* No thread, no mutex holder and no address is None or the limiter.
LEMMA Apart ==
  /\ Limiter \notin Threads /\ None \notin Threads /\ None # Limiter
  /\ None \notin Addrs /\ None \notin Users
  /\ \A u \in Users : io_service[u] \in Threads
BY IPProxiesAssumption DEF IPProxiesAssumption

\* A thread is idle or has a whole record.
LEMMA Records ==
  ASSUME TypeOK, NEW t \in Threads
  PROVE  /\ loaded[t] \in States
         /\ loaded[t].step \in {"idle", "get", "put"}
         /\ loaded[t].step # "idle" => /\ loaded[t].user \in Users
                                       /\ loaded[t].entry \in Addrs
                                       /\ loaded[t].value \in Int
BY DEF TypeOK, States, Idle

\* The bytes that an interval is worth.
LEMMA CreditType == \A d, b \in Nat : (d * b) \div 1000 \in Nat
<1> TAKE d, b \in Nat
<1> DEFINE x == d * b
<1>1. x \in Nat
  OBVIOUS
<1> HIDE DEF x
<1>2. x \div 1000 \in Nat
  BY <1>1
<1> QED BY <1>2 DEF x

\* An empty table.
LEMMA IpInit == Init => IpInv
<1> SUFFICES ASSUME Init PROVE IpInv
  OBVIOUS
<1>1. TypeOK
  <2>1. /\ addrs = {} /\ ref_cnt \in [Addrs -> Int] /\ avail_bytes \in [Addrs -> [Pair -> Int]]
        /\ mtx = None /\ entry_mtx \in [Addrs -> Threads \cup {None}]
        /\ client_ip \in [Users -> Addrs \cup {None}] /\ lost \in [Addrs -> BOOLEAN]
        /\ todo = {} /\ delete_proies = {} /\ interval = 0 /\ dangling = FALSE
    BY DEF Init
  <2>2. loaded \in [Threads -> States]
    BY DEF Init, States
  <2>3. interval \in Nat /\ (mtx = Limiter <=> interval > 0)
    <3>1. interval = 0 /\ mtx # Limiter
      BY <2>1, Apart
    <3> QED BY <3>1
  <2>4. dangling \in BOOLEAN
    BY <2>1, Zenon
  <2> QED BY <2>1, <2>2, <2>3, <2>4 DEF TypeOK
<1>2. \A t \in Threads : Working(t)
  BY DEF Init, Working, Idle
<1>3. \A a \in Addrs : Holders(a) = {}
  BY Apart DEF Init, Holders
<1>4. \A a \in Addrs : Exact(a) /\ Absent(a) /\ Deleting(a)
  BY <1>3 DEF Exact, Absent, Deleting, Init
<1>5. EntryInUse
  BY <1>3 DEF EntryInUse, InUse
<1>6. DebtBound
  BY DEF DebtBound, Init
<1> QED BY <1>1, <1>2, <1>4, <1>5, <1>6 DEF IpInv, Sweeping, Init

\* getIPProxy, before the store.
LEMMA GetLoadKeeps ==
  ASSUME IpInv, NEW u \in Users, NEW a \in Addrs, GetLoad(u, a) PROVE IpInv'
<1> DEFINE t == io_service[u]
<1>0. t \in Threads /\ ~dangling /\ client_ip[u] = None /\ loaded[t] = Idle /\ mtx = None
      /\ mtx' = t /\ addrs' = addrs \cup {a}
  BY Apart DEF GetLoad
<1>1. /\ UNCHANGED <<entry_mtx, client_ip, dangling>>
      /\ todo' = todo /\ delete_proies' = delete_proies /\ interval' = interval
  BY DEF GetLoad, sweep
<1>2. TypeOK
  BY DEF IpInv
<1>3. interval = 0 /\ delete_proies = {}
  <2>1. interval = 0
    BY <1>0, <1>2, Apart DEF TypeOK
  <2> QED BY <2>1, <1>2 DEF IpInv, Deleting, TypeOK
<1>4. Found(a) \in Int /\ (a \in addrs => Found(a) = ref_cnt[a]) /\ (a \notin addrs => Found(a) = 0)
  BY <1>2 DEF Found, TypeOK
<1>5. /\ ref_cnt' = [ref_cnt EXCEPT ![a] = Found(a)]
      /\ a \in addrs => lost' = lost /\ avail_bytes' = avail_bytes
      /\ a \notin addrs => /\ lost' = [lost EXCEPT ![a] = FALSE]
                          /\ avail_bytes' = [avail_bytes EXCEPT ![a] = [i \in Pair |-> 0]]
  BY Zenon DEF GetLoad
<1>6. loaded' = [loaded EXCEPT ![t] =
                   [step |-> "get", user |-> u, entry |-> a, value |-> Found(a)]]
  BY DEF GetLoad
<1>7. TypeOK'
  <2>1. loaded' \in [Threads -> States]
    BY <1>2, <1>4, <1>6 DEF TypeOK, States
  <2>2. ref_cnt' \in [Addrs -> Int] /\ lost' \in [Addrs -> BOOLEAN]
    BY <1>2, <1>4, <1>5 DEF TypeOK
  <2>3. avail_bytes' \in [Addrs -> [Pair -> Int]]
    BY <1>2, <1>5 DEF TypeOK
  <2>4. addrs' \subseteq Addrs /\ todo' \subseteq addrs' /\ delete_proies' \subseteq Addrs
    BY <1>0, <1>1, <1>2 DEF TypeOK
  <2>5. mtx' \in Threads /\ mtx' # Limiter /\ interval' = 0
    BY <1>0, <1>1, <1>3, Apart
  <2> QED BY <1>1, <1>2, <2>1, <2>2, <2>3, <2>4, <2>5 DEF TypeOK
<1>8. \A s \in Threads : Working(s)'
  <2> TAKE s \in Threads
  <2>1. Working(s)
    BY DEF IpInv
  <2>2. CASE s = t
    <3>1. loaded'[s] = [step |-> "get", user |-> u, entry |-> a, value |-> Found(a)]
      BY <1>2, <1>6, <2>2 DEF TypeOK
    <3>2. loaded'[s].step = "get" /\ loaded'[s].user = u /\ loaded'[s].entry = a
      BY <3>1
    <3> QED BY <3>2, <1>0, <1>1, <2>2 DEF Working
  <2>3. CASE s # t
    <3>1. loaded'[s] = loaded[s]
      BY <1>2, <1>6, <2>3 DEF TypeOK
    <3>2. loaded[s].step # "get"
      BY <1>0, <2>1, Apart DEF Working
    <3> QED BY <3>1, <3>2, <1>1, <2>1 DEF Working
  <2> QED BY <2>2, <2>3
<1>9. \A b \in Addrs : Holders(b)' = Holders(b)
  BY <1>1 DEF Holders
<1>10. \A b \in Addrs : Exact(b)' /\ Absent(b)' /\ Deleting(b)'
  <2> TAKE b \in Addrs
  <2>1. Exact(b) /\ Absent(b) /\ Holders(b)' = Holders(b)
    BY <1>9 DEF IpInv
  <2>2. CASE b = a /\ a \notin addrs
    <3>1. Holders(b) = {} /\ ref_cnt'[b] = 0
      BY <1>0, <1>2, <1>4, <1>5, <2>1, <2>2 DEF Absent, TypeOK
    <3>2. ref_cnt'[b] = Cardinality(Holders(b)')
      BY <2>1, <3>1, FS_EmptySet
    <3> QED BY <3>1, <3>2, <2>1, <1>1, <1>3 DEF Exact, Absent, Deleting
  <2>3. CASE ~(b = a /\ a \notin addrs)
    <3>1. ref_cnt'[b] = ref_cnt[b] /\ lost'[b] = lost[b] /\ (b \in addrs' <=> b \in addrs)
      BY <1>0, <1>2, <1>4, <1>5, <2>3 DEF TypeOK
    <3>2. Exact(b)'
      BY <3>1, <2>1 DEF Exact
    <3>3. Absent(b)' /\ Deleting(b)'
      BY <3>1, <2>1, <1>1, <1>3 DEF Absent, Deleting
    <3> QED BY <3>2, <3>3
  <2> QED BY <2>2, <2>3
<1>11. EntryInUse'
  BY <1>0, <1>1, <1>10 DEF EntryInUse, InUse, Absent
<1>12. DebtBound'
  <2> SUFFICES ASSUME NEW b \in addrs', NEW i \in Pair
               PROVE  \E cost \in Costs : avail_bytes'[b][i] >= -cost
    BY DEF DebtBound
  <2>1. CASE b = a /\ a \notin addrs
    <3>1. PICK cost \in Costs : cost \in Nat
      BY IPProxiesAssumption DEF IPProxiesAssumption
    <3>2. avail_bytes'[b][i] = 0
      BY <1>2, <1>5, <2>1 DEF TypeOK
    <3> QED BY <3>1, <3>2
  <2>2. CASE ~(b = a /\ a \notin addrs)
    <3>1. b \in addrs /\ avail_bytes'[b] = avail_bytes[b]
      BY <1>0, <1>2, <1>5, <2>2 DEF TypeOK
    <3> QED BY <3>1 DEF IpInv, DebtBound
  <2> QED BY <2>1, <2>2
<1> QED BY <1>1, <1>7, <1>8, <1>10, <1>11, <1>12 DEF IpInv, Sweeping

\* getIPProxy, the store: one user more, and the counter one more unless another store
\* came in between.
LEMMA GetStoreKeeps ==
  ASSUME IpInv, NEW t \in Threads, GetStore(t) PROVE IpInv'
<1>a. TypeOK /\ loaded[t].step = "get"
  BY DEF IpInv, GetStore
<1>b. PICK a \in Addrs, u \in Users : a = loaded[t].entry /\ u = loaded[t].user
  BY <1>a, Records
<1>0. ~dangling /\ loaded[t].step = "get" /\ mtx' = None
      /\ ref_cnt' = [ref_cnt EXCEPT ![a] = loaded[t].value + 1]
      /\ client_ip' = [client_ip EXCEPT ![u] = a]
      /\ loaded' = [loaded EXCEPT ![t] = Idle]
  BY <1>b DEF GetStore
<1>1. /\ UNCHANGED <<addrs, avail_bytes, entry_mtx, dangling>>
      /\ todo' = todo /\ delete_proies' = delete_proies /\ interval' = interval
  BY DEF GetStore, sweep
<1>2. lost' = [lost EXCEPT ![a] = @ \/ Stale(t)]
  BY <1>b, Zenon DEF GetStore
<1>3. TypeOK
  BY DEF IpInv
<1>4. u \in Users /\ a \in addrs /\ a \in Addrs /\ loaded[t].value \in Int
      /\ client_ip[u] = None /\ io_service[u] = t /\ mtx = t
  BY <1>b, <1>0, <1>3, Records DEF IpInv, Working, TypeOK
<1>5. interval = 0 /\ delete_proies = {}
  <2>1. interval = 0
    BY <1>4, <1>3, Apart DEF TypeOK
  <2> QED BY <2>1, <1>3 DEF IpInv, Deleting, TypeOK
<1>6. lost' \in [Addrs -> BOOLEAN] /\ (\A b \in Addrs \ {a} : lost'[b] = lost[b])
      /\ (~lost'[a] => ~lost[a] /\ loaded[t].value = ref_cnt[a])
  <2>1. lost' = [lost EXCEPT ![a] = lost[a] \/ Stale(t)] /\ lost \in [Addrs -> BOOLEAN]
    BY <1>2, <1>3, Zenon DEF TypeOK
  <2>2. (lost[a] \/ Stale(t)) \in BOOLEAN
    OBVIOUS
  <2>3. lost' \in [Addrs -> BOOLEAN] /\ (\A b \in Addrs \ {a} : lost'[b] = lost[b])
        /\ lost'[a] = (lost[a] \/ Stale(t))
    BY <2>1, <2>2, <1>4, Zenon
  <2> QED BY <2>3, <1>b DEF Stale
<1>7. TypeOK'
  <2>1. loaded' \in [Threads -> States]
    BY <1>3, <1>0 DEF TypeOK, States
  <2>2. ref_cnt' \in [Addrs -> Int] /\ client_ip' \in [Users -> Addrs \cup {None}]
    BY <1>0, <1>3, <1>4 DEF TypeOK
  <2>3. mtx' = None /\ mtx' # Limiter /\ interval' = 0
    BY <1>0, <1>1, <1>5, Apart
  <2> QED BY <1>1, <1>3, <1>6, <2>1, <2>2, <2>3 DEF TypeOK
<1>8. \A s \in Threads : Working(s)'
  <2> TAKE s \in Threads
  <2>1. Working(s) /\ loaded[s].step \in {"idle", "get", "put"}
        /\ (loaded[s].step # "idle" => loaded[s].user \in Users)
    BY <1>3, Records DEF IpInv
  <2>2. CASE s = t
    <3>1. loaded'[s].step = "idle"
      BY <1>0, <1>3, <2>2 DEF TypeOK, Idle
    <3> QED BY <3>1 DEF Working
  <2>3. CASE s # t
    <3>1. loaded'[s] = loaded[s]
      BY <1>0, <1>3, <2>3 DEF TypeOK
    <3>2. loaded[s].step # "get"
      BY <1>4, <2>1, <2>3 DEF Working
    <3>3. loaded[s].step = "put" => loaded[s].user # u
      BY <1>4, <2>1, <2>3 DEF Working
    <3>4. loaded[s].step = "put" => client_ip'[loaded[s].user] = client_ip[loaded[s].user]
      BY <1>0, <1>3, <2>1, <3>3 DEF TypeOK
    <3> QED BY <3>1, <3>2, <3>4, <2>1 DEF Working
  <2> QED BY <2>2, <2>3
<1>9. Holders(a)' = Holders(a) \cup {u} /\ u \notin Holders(a)
      /\ \A b \in Addrs \ {a} : Holders(b)' = Holders(b)
  BY <1>0, <1>3, <1>4, Apart DEF Holders, TypeOK
<1>10. \A b \in Addrs : Exact(b)' /\ Absent(b)' /\ Deleting(b)'
  <2> TAKE b \in Addrs
  <2>1. Exact(b) /\ Absent(b)
    BY DEF IpInv
  <2>2. CASE b = a
    <3>1. Cardinality(Holders(a)') = Cardinality(Holders(a)) + 1
      BY <1>9, HoldersFinite, FS_AddElement
    <3>2. ref_cnt'[a] = loaded[t].value + 1
      BY <1>0, <1>3, <1>4 DEF TypeOK
    <3>3. Exact(b)'
      BY <1>1, <1>4, <1>6, <2>1, <2>2, <3>1, <3>2 DEF Exact
    <3> QED BY <3>3, <2>2, <1>1, <1>4, <1>5 DEF Absent, Deleting
  <2>3. CASE b # a
    <3>1. ref_cnt'[b] = ref_cnt[b] /\ lost'[b] = lost[b] /\ Holders(b)' = Holders(b)
      BY <1>0, <1>3, <1>4, <1>6, <1>9, <2>3 DEF TypeOK
    <3> QED BY <3>1, <2>1, <1>1, <1>5 DEF Exact, Absent, Deleting
  <2> QED BY <2>2, <2>3
<1>11. EntryInUse'
  BY <1>0, <1>1, <1>10 DEF EntryInUse, InUse, Absent
<1>12. DebtBound'
  BY <1>1 DEF IpInv, DebtBound
<1> QED BY <1>1, <1>7, <1>8, <1>10, <1>11, <1>12 DEF IpInv, Sweeping

\* A destructor, before the store.
LEMMA PutLoadKeeps ==
  ASSUME IpInv, NEW u \in Users, PutLoad(u) PROVE IpInv'
<1> DEFINE t == io_service[u]
           a == client_ip[u]
           r == [step |-> "put", user |-> u, entry |-> a, value |-> ref_cnt[a]]
<1>0. t \in Threads /\ ~dangling /\ a # None /\ loaded[t] = Idle
      /\ entry_mtx' = [entry_mtx EXCEPT ![a] = t]
      /\ loaded' = [loaded EXCEPT ![t] = r]
  BY Apart DEF PutLoad
<1>1. /\ UNCHANGED <<addrs, ref_cnt, avail_bytes, mtx, client_ip, lost, dangling>>
      /\ todo' = todo /\ delete_proies' = delete_proies /\ interval' = interval
  BY DEF PutLoad, sweep, table
<1>2. TypeOK /\ a \in Addrs
  BY <1>0 DEF IpInv, TypeOK
<1>3. TypeOK'
  <2>1. r \in States
    BY <1>2 DEF TypeOK, States
  <2>2. loaded' \in [Threads -> States] /\ entry_mtx' \in [Addrs -> Threads \cup {None}]
    <3> HIDE DEF r, a, t
    <3> QED BY <1>0, <1>2, <2>1 DEF TypeOK
  <2> QED BY <1>1, <1>2, <2>2 DEF TypeOK
<1>4. \A s \in Threads : Working(s)'
  <2> TAKE s \in Threads
  <2>1. CASE s = t
    <3>1. loaded'[s] = r
      BY <1>0, <1>2, <2>1 DEF TypeOK
    <3>2. loaded'[s].step = "put" /\ loaded'[s].user = u /\ loaded'[s].entry = a
      BY <3>1
    <3> QED BY <3>2, <1>1, <2>1 DEF Working
  <2>2. CASE s # t
    <3>1. loaded'[s] = loaded[s]
      BY <1>0, <1>2, <2>2 DEF TypeOK
    <3> QED BY <3>1, <1>1 DEF Working, IpInv
  <2> QED BY <2>1, <2>2
<1>5. \A b \in Addrs : Exact(b)' /\ Absent(b)' /\ Deleting(b)'
  BY <1>1 DEF IpInv, Exact, Absent, Deleting, Holders
<1>6. EntryInUse' /\ DebtBound'
  BY <1>1 DEF IpInv, EntryInUse, InUse, Holders, DebtBound
<1> QED BY <1>1, <1>3, <1>4, <1>5, <1>6 DEF IpInv, Sweeping

\* A destructor, the store: one user less, and the counter one less unless another store
\* came in between.
LEMMA PutStoreKeeps ==
  ASSUME IpInv, NEW t \in Threads, PutStore(t) PROVE IpInv'
<1>a. TypeOK /\ loaded[t].step = "put"
  BY DEF IpInv, PutStore
<1>b. PICK a \in Addrs, u \in Users : a = loaded[t].entry /\ u = loaded[t].user
  BY <1>a, Records
<1>0. ~dangling /\ loaded[t].step = "put"
      /\ ref_cnt' = [ref_cnt EXCEPT ![a] = loaded[t].value - 1]
      /\ client_ip' = [client_ip EXCEPT ![u] = None]
      /\ entry_mtx' = [entry_mtx EXCEPT ![a] = None]
      /\ loaded' = [loaded EXCEPT ![t] = Idle]
  BY <1>b DEF PutStore
<1>1. /\ UNCHANGED <<addrs, avail_bytes, mtx, dangling>>
      /\ todo' = todo /\ delete_proies' = delete_proies /\ interval' = interval
  BY DEF PutStore, sweep
<1>2. lost' = [lost EXCEPT ![a] = @ \/ Stale(t)]
  BY <1>b, Zenon DEF PutStore
<1>3. TypeOK
  BY DEF IpInv
<1>4. u \in Users /\ a \in Addrs /\ loaded[t].value \in Int
      /\ client_ip[u] = a /\ io_service[u] = t
  BY <1>b, <1>0, <1>3, Records DEF IpInv, Working
<1>5. lost' \in [Addrs -> BOOLEAN] /\ (\A b \in Addrs \ {a} : lost'[b] = lost[b])
      /\ (~lost'[a] => ~lost[a] /\ loaded[t].value = ref_cnt[a])
  <2>1. lost' = [lost EXCEPT ![a] = lost[a] \/ Stale(t)] /\ lost \in [Addrs -> BOOLEAN]
    BY <1>2, <1>3, Zenon DEF TypeOK
  <2>2. (lost[a] \/ Stale(t)) \in BOOLEAN
    OBVIOUS
  <2>3. lost' \in [Addrs -> BOOLEAN] /\ (\A b \in Addrs \ {a} : lost'[b] = lost[b])
        /\ lost'[a] = (lost[a] \/ Stale(t))
    BY <2>1, <2>2, <1>4, Zenon
  <2> QED BY <2>3, <1>b DEF Stale
<1>6. TypeOK'
  <2>1. loaded' \in [Threads -> States]
    BY <1>3, <1>0 DEF TypeOK, States
  <2>2. ref_cnt' \in [Addrs -> Int] /\ client_ip' \in [Users -> Addrs \cup {None}]
        /\ entry_mtx' \in [Addrs -> Threads \cup {None}]
    BY <1>0, <1>3, <1>4 DEF TypeOK
  <2> QED BY <1>1, <1>3, <1>5, <2>1, <2>2 DEF TypeOK
<1>7. \A s \in Threads : Working(s)'
  <2> TAKE s \in Threads
  <2>1. Working(s) /\ loaded[s].step \in {"idle", "get", "put"}
        /\ (loaded[s].step # "idle" => loaded[s].user \in Users)
    BY <1>3, Records DEF IpInv
  <2>2. CASE s = t
    <3>1. loaded'[s].step = "idle"
      BY <1>0, <1>3, <2>2 DEF TypeOK, Idle
    <3> QED BY <3>1 DEF Working
  <2>3. CASE s # t
    <3>1. loaded'[s] = loaded[s]
      BY <1>0, <1>3, <2>3 DEF TypeOK
    <3>2. loaded[s].step # "idle" => loaded[s].user # u
      BY <1>4, <2>1, <2>3 DEF Working
    <3>3. loaded[s].step # "idle" => client_ip'[loaded[s].user] = client_ip[loaded[s].user]
      BY <1>0, <1>3, <2>1, <3>2 DEF TypeOK
    <3> QED BY <3>1, <3>3, <2>1, <1>1 DEF Working
  <2> QED BY <2>2, <2>3
<1>8. Holders(a)' = Holders(a) \ {u} /\ u \in Holders(a)
      /\ \A b \in Addrs \ {a} : Holders(b)' = Holders(b)
  BY <1>0, <1>3, <1>4, Apart DEF Holders, TypeOK
<1>9. \A b \in Addrs : Exact(b)' /\ Absent(b)' /\ Deleting(b)'
  <2> TAKE b \in Addrs
  <2>1. Exact(b) /\ Absent(b) /\ Deleting(b)
    BY DEF IpInv
  <2>2. CASE b = a
    <3>1. Cardinality(Holders(a)') = Cardinality(Holders(a)) - 1
      BY <1>8, HoldersFinite, FS_RemoveElement
    <3>2. ref_cnt'[a] = loaded[t].value - 1
      BY <1>0, <1>3, <1>4 DEF TypeOK
    <3>3. Exact(b)'
      BY <1>1, <1>4, <1>5, <2>1, <2>2, <3>1, <3>2 DEF Exact
    <3>4. a \in addrs
      BY <1>0, <1>8, <2>1, <2>2 DEF Absent
    <3>5. Deleting(b)'
      <4>1. lost[a] => lost'[a]
        BY <1>2, <1>3, <1>4, Zenon DEF TypeOK
      <4> QED BY <4>1, <1>1, <1>8, <2>1, <2>2 DEF Deleting
    <3> QED BY <3>3, <3>4, <3>5, <2>2, <1>1 DEF Absent
  <2>3. CASE b # a
    <3>1. ref_cnt'[b] = ref_cnt[b] /\ lost'[b] = lost[b] /\ Holders(b)' = Holders(b)
      BY <1>0, <1>3, <1>4, <1>5, <1>8, <2>3 DEF TypeOK
    <3> QED BY <3>1, <2>1, <1>1 DEF Exact, Absent, Deleting
  <2> QED BY <2>2, <2>3
<1>10. EntryInUse'
  BY <1>0, <1>1, <1>9 DEF EntryInUse, InUse, Absent
<1>11. DebtBound'
  BY <1>1 DEF IpInv, DebtBound
<1> QED BY <1>1, <1>6, <1>7, <1>9, <1>10, <1>11 DEF IpInv, Sweeping

\* What an action keeps that touches no user and no counter.
LEMMA UsersKept ==
  ASSUME IpInv, UNCHANGED <<addrs, ref_cnt, client_ip, loaded, lost, dangling>>
  PROVE  /\ \A b \in Addrs : Holders(b)' = Holders(b)
         /\ \A b \in Addrs : Exact(b)' /\ Absent(b)'
         /\ EntryInUse'
<1>1. \A b \in Addrs : Holders(b)' = Holders(b)
  BY DEF Holders
<1> QED BY <1>1 DEF IpInv, Exact, Absent, EntryInUse, InUse

\* A packet is charged to a balance that is not negative.
LEMMA SpendKeeps ==
  ASSUME IpInv, NEW u \in Users, NEW i \in Pair, NEW cost \in Costs, Spend(u, i, cost)
  PROVE  IpInv'
<1>0. PICK a : a = client_ip[u] /\ a \in Addrs
  BY DEF Spend, IpInv, TypeOK
<1>1. avail_bytes' = [avail_bytes EXCEPT ![a][i] = @ - cost] /\ avail_bytes[a][i] >= 0
  BY <1>0 DEF Spend, MaySpend
<1>2. /\ UNCHANGED <<addrs, ref_cnt, mtx, entry_mtx, client_ip, loaded, lost, dangling>>
      /\ todo' = todo /\ delete_proies' = delete_proies /\ interval' = interval
  BY DEF Spend, locks, sweep
<1>3. TypeOK /\ cost \in Nat
  BY IPProxiesAssumption DEF IpInv, IPProxiesAssumption
<1>4. TypeOK'
  <2>1. avail_bytes' \in [Addrs -> [Pair -> Int]]
    BY <1>0, <1>1, <1>3 DEF TypeOK
  <2> QED BY <2>1, <1>2, <1>3 DEF TypeOK
<1>5. \A s \in Threads : Working(s)'
  BY <1>2 DEF IpInv, Working
<1>6. \A b \in Addrs : Deleting(b)'
  BY <1>2, UsersKept DEF IpInv, Deleting
<1>7. DebtBound'
  <2> SUFFICES ASSUME NEW b \in addrs, NEW j \in Pair
               PROVE  \E c \in Costs : avail_bytes'[b][j] >= -c
    BY <1>2 DEF DebtBound
  <2>1. CASE b = a /\ j = i
    <3>1. avail_bytes'[b][j] = avail_bytes[a][i] - cost /\ avail_bytes[a][i] \in Int
      BY <1>0, <1>1, <1>3, <2>1 DEF TypeOK
    <3>2. avail_bytes'[b][j] >= -cost
      BY <1>1, <1>3, <3>1
    <3> QED BY <3>2
  <2>2. CASE ~(b = a /\ j = i)
    <3>1. b \in Addrs
      BY <1>3 DEF TypeOK
    <3>2. avail_bytes'[b][j] = avail_bytes[b][j]
      BY <1>0, <1>1, <1>3, <2>2, <3>1 DEF TypeOK
    <3> QED BY <3>2 DEF IpInv, DebtBound
  <2> QED BY <2>1, <2>2
<1> QED BY <1>2, <1>4, <1>5, <1>6, <1>7, UsersKept DEF IpInv, Sweeping

\* A sweep takes the mutex of the table, which no load of getIPProxy then holds.
LEMMA SweepBeginKeeps ==
  ASSUME IpInv, NEW d \in Intervals, SweepBegin(d) PROVE IpInv'
<1>1. mtx = None /\ mtx' = Limiter /\ interval = 0 /\ interval' = d /\ todo' = addrs
  BY DEF SweepBegin, SweepHolds
<1>2. UNCHANGED <<addrs, ref_cnt, avail_bytes, entry_mtx, client_ip, loaded, delete_proies,
                  lost, dangling>>
  BY DEF SweepBegin, table
<1>3. TypeOK /\ d \in Nat /\ d > 0
  BY IPProxiesAssumption DEF IpInv, IPProxiesAssumption
<1>4. TypeOK'
  BY <1>1, <1>2, <1>3 DEF TypeOK
<1>5. \A s \in Threads : Working(s)'
  BY <1>1, <1>2, Apart DEF IpInv, Working
<1>6. \A b \in Addrs : Deleting(b)'
  BY <1>1, <1>2, <1>3, UsersKept DEF IpInv, Deleting
<1>7. DebtBound'
  BY <1>2 DEF IpInv, DebtBound
<1> QED BY <1>1, <1>2, <1>3, <1>4, <1>5, <1>6, <1>7, UsersKept DEF IpInv, Sweeping

\* An entry is credited, or found unused: then nobody points at it, or its counter is
\* wrong.
LEMMA SweepEntryKeeps ==
  ASSUME IpInv, NEW a \in Addrs, SweepEntry(a) PROVE IpInv'
<1>0. ~dangling /\ a \in todo /\ todo' = todo \ {a}
  BY DEF SweepEntry
<1>1. UNCHANGED <<addrs, ref_cnt, mtx, entry_mtx, client_ip, loaded, interval, lost, dangling>>
  BY DEF SweepEntry, locks
<1>2. TypeOK /\ a \in addrs
  BY <1>0 DEF IpInv, TypeOK
<1>3. \A s \in Threads : Working(s)'
  BY <1>1 DEF IpInv, Working
<1>4. interval > 0
  BY <1>0, <1>2 DEF IpInv, Sweeping
<1>5. CASE /\ ref_cnt[a] <= 0 /\ delete_proies' = delete_proies \cup {a}
           /\ avail_bytes' = avail_bytes
  <2>1. lost[a] \/ Holders(a) = {}
    <3>1. ~lost[a] => Cardinality(Holders(a)) = ref_cnt[a]
      BY <1>2 DEF IpInv, Exact
    <3> QED BY <3>1, <1>5, HoldersFinite, FS_EmptySet
  <2>2. TypeOK'
    BY <1>0, <1>1, <1>2, <1>5 DEF TypeOK
  <2>3. \A b \in Addrs : Deleting(b)'
    BY <2>1, <1>4, <1>1, <1>5, UsersKept DEF IpInv, Deleting
  <2>4. DebtBound'
    BY <1>1, <1>5 DEF IpInv, DebtBound
  <2> QED BY <1>0, <1>1, <1>3, <1>4, <2>2, <2>3, <2>4, UsersKept DEF IpInv, Sweeping
<1>6. CASE /\ delete_proies' = delete_proies
           /\ avail_bytes' =
                [avail_bytes EXCEPT ![a] =
                   [i \in Pair |-> IF avail_bytes[a][i] < 0
                                   THEN avail_bytes[a][i] + (interval * bandwidth[i]) \div 1000
                                   ELSE avail_bytes[a][i]]]
  <2> DEFINE g == [i \in Pair |-> IF avail_bytes[a][i] < 0
                                 THEN avail_bytes[a][i] + (interval * bandwidth[i]) \div 1000
                                 ELSE avail_bytes[a][i]]
  <2>1. \A i \in Pair : g[i] \in Int /\ g[i] >= avail_bytes[a][i]
    <3> TAKE i \in Pair
    <3> DEFINE c == (interval * bandwidth[i]) \div 1000
    <3>1. bandwidth[i] \in Nat /\ interval \in Nat /\ avail_bytes[a][i] \in Int
      BY <1>2, IPProxiesAssumption DEF TypeOK, IPProxiesAssumption
    <3>2. c \in Nat
      BY <3>1, CreditType
    <3>3. g[i] = IF avail_bytes[a][i] < 0 THEN avail_bytes[a][i] + c ELSE avail_bytes[a][i]
      OBVIOUS
    <3> HIDE DEF c, g
    <3> QED BY <3>1, <3>2, <3>3
  <2>2. /\ avail_bytes' \in [Addrs -> [Pair -> Int]]
        /\ \A b \in Addrs, i \in Pair : avail_bytes'[b][i] >= avail_bytes[b][i]
    <3>1. g \in [Pair -> Int]
      BY <2>1
    <3>2. avail_bytes' = [avail_bytes EXCEPT ![a] = g]
      BY <1>6
    <3> HIDE DEF g
    <3>3. avail_bytes \in [Addrs -> [Pair -> Int]]
      BY <1>2 DEF TypeOK
    <3> QED BY <2>1, <3>1, <3>2, <3>3
  <2>3. TypeOK'
    BY <1>0, <1>1, <1>2, <1>6, <2>2 DEF TypeOK
  <2>4. \A b \in Addrs : Deleting(b)'
    BY <1>1, <1>6, UsersKept DEF IpInv, Deleting
  <2>5. DebtBound'
    <3> SUFFICES ASSUME NEW b \in addrs, NEW j \in Pair
                 PROVE  \E c \in Costs : avail_bytes'[b][j] >= -c
      BY <1>1 DEF DebtBound
    <3>1. PICK c \in Costs : avail_bytes[b][j] >= -c
      BY DEF IpInv, DebtBound
    <3>2. c \in Nat /\ b \in Addrs /\ avail_bytes[b][j] \in Int /\ avail_bytes'[b][j] \in Int
      BY <1>2, <2>2, IPProxiesAssumption DEF TypeOK, IPProxiesAssumption
    <3>3. avail_bytes'[b][j] >= -c
      BY <2>2, <3>1, <3>2
    <3> QED BY <3>3
  <2> QED BY <1>0, <1>1, <1>3, <1>4, <2>3, <2>4, <2>5, UsersKept DEF IpInv, Sweeping
<1> QED BY <1>5, <1>6 DEF SweepEntry, Unused

\* The entries found unused are erased; one that is in use then had lost an update.
LEMMA SweepEndKeeps == ASSUME IpInv, SweepEnd PROVE IpInv'
<1>1. /\ interval > 0 /\ interval' = 0 /\ todo = {} /\ delete_proies' = {} /\ ~dangling
      /\ addrs' = addrs \ delete_proies
      /\ mtx' = IF mtx = Limiter THEN None ELSE mtx
  BY DEF SweepEnd
<1>2. UNCHANGED <<ref_cnt, avail_bytes, entry_mtx, client_ip, loaded, todo, lost>>
  BY DEF SweepEnd
<1>3. dangling' = \E a \in delete_proies : Holders(a) # {}
  BY Zenon DEF SweepEnd
<1>4. TypeOK
  BY DEF IpInv
<1>5. mtx = Limiter /\ mtx' = None
  BY <1>1, <1>4 DEF TypeOK
<1>6. TypeOK'
  <2>1. dangling' \in BOOLEAN
    BY <1>3, Zenon
  <2>2. mtx' # Limiter /\ ~(interval' > 0) /\ interval' \in Nat
    BY <1>1, <1>5, Apart
  <2> QED BY <1>1, <1>2, <1>4, <1>5, <2>1, <2>2 DEF TypeOK
<1>7. \A s \in Threads : Working(s)'
  <2> TAKE s \in Threads
  <2>1. Working(s) /\ mtx # s
    BY <1>5, Apart DEF IpInv
  <2> QED BY <2>1, <1>2 DEF Working
<1>8. \A b \in Addrs : Holders(b)' = Holders(b)
  BY <1>2 DEF Holders
<1>9. \A b \in Addrs : Exact(b)' /\ Absent(b)' /\ Deleting(b)'
  <2> TAKE b \in Addrs
  <2>1. Exact(b) /\ Absent(b) /\ Holders(b)' = Holders(b)
    BY <1>8 DEF IpInv
  <2>2. ~dangling' /\ b \in delete_proies => Holders(b) = {}
    BY <1>3, Zenon
  <2> QED BY <2>1, <2>2, <1>1, <1>2 DEF Exact, Absent, Deleting
<1>10. EntryInUse'
  <2> SUFFICES ASSUME NEW b \in Addrs, Holders(b) # {}, ~lost[b] PROVE b \in addrs'
    BY <1>2, <1>8 DEF EntryInUse, InUse
  <2>1. b \in addrs /\ Deleting(b)
    BY <1>1 DEF IpInv, Absent
  <2> QED BY <2>1, <1>1 DEF Deleting
<1>11. DebtBound'
  BY <1>1, <1>2 DEF IpInv, DebtBound
<1> QED BY <1>1, <1>2, <1>6, <1>7, <1>9, <1>10, <1>11 DEF IpInv, Sweeping

\* Every step keeps the invariant.
LEMMA IpStep == ASSUME IpInv, [Next]_ipVars PROVE IpInv'
<1>1. CASE UNCHANGED ipVars
  <2>1. UNCHANGED <<addrs, ref_cnt, avail_bytes, mtx, entry_mtx, client_ip, loaded, todo,
                    delete_proies, interval, lost, dangling>>
    BY <1>1 DEF ipVars, table, locks, sweep
  <2>2. TypeOK'
    BY <2>1 DEF IpInv, TypeOK
  <2>3. \A t \in Threads : Working(t)'
    BY <2>1 DEF IpInv, Working
  <2>4. \A a \in Addrs : Deleting(a)'
    BY <2>1, UsersKept DEF IpInv, Deleting
  <2>5. DebtBound'
    BY <2>1 DEF IpInv, DebtBound
  <2> QED BY <2>1, <2>2, <2>3, <2>4, <2>5, UsersKept DEF IpInv, Sweeping
<1>2. CASE \E u \in Users, a \in Addrs : GetLoad(u, a)
  BY <1>2, GetLoadKeeps
<1>3. CASE \E u \in Users : PutLoad(u)
  BY <1>3, PutLoadKeeps
<1>4. CASE \E t \in Threads : GetStore(t) \/ PutStore(t)
  BY <1>4, GetStoreKeeps, PutStoreKeeps
<1>5. CASE \E u \in Users, i \in Pair, cost \in Costs : Spend(u, i, cost)
  BY <1>5, SpendKeeps
<1>6. CASE SweepStep
  BY <1>6, SweepEndKeeps, SweepEntryKeeps, SweepBeginKeeps DEF SweepStep
<1> QED BY <1>1, <1>2, <1>3, <1>4, <1>5, <1>6 DEF Next, Dangles

\* The strengthening holds of any users, threads and addresses.
THEOREM IpInductive == Spec => []IpInv
<1> QED BY IpInit, IpStep, PTL DEF Spec

\* Type correctness of the table, and a sweep holds its mutex.
THEOREM IpTypes == Spec => []TypeOK
<1>1. IpInv => TypeOK
  BY DEF IpInv
<1> QED BY <1>1, IpInductive, PTL

\* getIPProxy, the destructors, the sweep: an entry is erased under somebody only after an
\* update of its counter was lost.
THEOREM EntriesStay == Spec => []EntryInUse
<1>1. IpInv => EntryInUse
  BY DEF IpInv
<1> QED BY <1>1, IpInductive, PTL

\* A balance that several threads charge is overdrawn by one packet at most.
THEOREM DebtIsBounded == Spec => []DebtBound
<1>1. IpInv => DebtBound
  BY DEF IpInv
<1> QED BY <1>1, IpInductive, PTL
=============================================================================
