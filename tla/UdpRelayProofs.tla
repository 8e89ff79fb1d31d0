--------------------------- MODULE UdpRelayProofs ---------------------------
(***************************************************************************)
(* The invariants of UdpRelay, for any peers, rules, limits, times and     *)
(* numbers of datagrams and errors.                                        *)
(***************************************************************************)
EXTENDS UdpRelay, TLAPS

\* All receives of an endpoint, those included whose handlers only see an error.
Sum(o) == Live(o) + o.ops["err"]

\* By how many datagrams the queue is over its limit.
Over(o) == IF Len(o.recv_queue) > MAX_UDP_MSG_QUEUE_SIZE
           THEN Len(o.recv_queue) - MAX_UDP_MSG_QUEUE_SIZE ELSE 0

\* A server's endpoint whose init() has failed will call it again without a further
\* error, except after the end of the routine.
Owed(o, p) == IF o.server_flag /\ o.socket # "bound" /\ p \notin {"stop", "ended"} THEN 1 ELSE 0

Excused(o, n) == IF o.server_flag THEN n ELSE 0

\* A receive is pending on an open socket, only a server's stays open without being
\* bound, and a receive or an init() has failed after an error or at the end only.
Open(o, n, p) ==
  /\ o.ops["pending"] > 0 => o.socket # "closed"
  /\ o.socket = "unbound" => o.server_flag
  /\ o.ops["err"] > 0 \/ o.socket # "bound" => n > 0 \/ p \in {"stop", "ended"}

\* What holds of an endpoint after n errors, when the routine is at p: its receives, those
\* owed to it and its datagrams over the limit are one, and one more for each
\* error of a server.
Sound(o, n, p) ==
  /\ Open(o, n, p)
  /\ Sum(o) + Owed(o, p) + Over(o) <= 1 + Excused(o, n)
  /\ ~o.recving_flag => Over(o) > 0
  /\ o.socket = "bound" /\ o.recving_flag => Sum(o) >= 1 \/ (o.server_flag /\ n > 0)
  /\ Len(o.send_queue) <= MAX_UDP_MSG_QUEUE_SIZE

\* recving_msg holds the datagram of the one handler that is queued.
Fresh(o) == Live(o) <= 1 /\ (o.ops["ok"] > 0 => o.recving_msg # None)

\* The types of all but the endpoints.
Rest ==
  /\ endpoints \cup new_epts = Made /\ endpoints \cap new_epts = {}
  /\ running_flag \in BOOLEAN
  /\ pass \in {"sleep", "recv", "send", "stop", "ended"}
  /\ todo \subseteq endpoints /\ cur \in endpoints \cup {None} /\ interval \in Nat
  /\ received \in [Flows -> Nat] /\ delivered \in [Flows -> SUBSET Nat]
  /\ errors \in 0..MaxErrors
  /\ failed \in BOOLEAN /\ orphaned \in BOOLEAN
  /\ fault \in {"none", "assert", "dangling", "shared"}

AllSound ==
  /\ ept \in [Peers -> Objects \cup {Gone}]
  /\ \A e \in Made : Sound(ept[e], errors, pass)
  /\ fault = "none" => \A e \in Made : Fresh(ept[e])

\* A server's endpoint is in the table and active, unless an init() has failed or the
\* routine has stopped it.
ServersKept ==
  ~failed => \A e \in Servers :
    /\ e \in endpoints /\ ept[e].server_flag
    /\ ept[e].active \/ pass \in {"stop", "ended"}

UdpInv == AllSound /\ Rest /\ ServersKept

Untouched(o, r) ==
  /\ r.server_flag = o.server_flag /\ r.recv_queue = o.recv_queue
  /\ r.send_queue = o.send_queue /\ r.recving_flag = o.recving_flag
  /\ r.recving_msg = o.recving_msg

SameButOps(o, r) ==
  Untouched(o, r) /\ r.socket = o.socket /\ r.active = o.active /\ r.idle = o.idle

\* The front of a queue.
LEMMA HeadIs == ASSUME NEW S, NEW q \in Seq(S), q # <<>> PROVE Head(q) \in S
OBVIOUS

\* The counts of an endpoint.
LEMMA OpsType ==
  ASSUME NEW o \in Objects
  PROVE  /\ o.ops["pending"] \in Nat /\ o.ops["ok"] \in Nat
         /\ o.ops["refused"] \in Nat /\ o.ops["err"] \in Nat
         /\ Live(o) \in Nat /\ Sum(o) \in Nat
         /\ Over(o) \in Nat /\ Len(o.recv_queue) \in Nat /\ Len(o.send_queue) \in Nat
<1>1. o.ops \in [{"pending"} \cup Results -> Nat] /\ o.recv_queue \in Seq(Messages)
      /\ o.send_queue \in Seq([dst : Peers, num : Nat])
  BY DEF Objects
<1>2. o.ops["pending"] \in Nat /\ o.ops["ok"] \in Nat
      /\ o.ops["refused"] \in Nat /\ o.ops["err"] \in Nat
  BY <1>1 DEF Results
<1>3. Len(o.recv_queue) \in Nat /\ Len(o.send_queue) \in Nat
  BY <1>1
<1>4. MAX_UDP_MSG_QUEUE_SIZE \in Nat
  BY UdpAssumption DEF UdpAssumption
<1>5. Live(o) \in Nat
  BY <1>2 DEF Live
<1>6. Sum(o) \in Nat
  BY <1>2, <1>5 DEF Sum
<1>7. Over(o) \in Nat
  BY <1>3, <1>4 DEF Over
<1> QED BY <1>2, <1>3, <1>5, <1>6, <1>7

\* An endpoint with other counts is an endpoint.
LEMMA WithOps ==
  ASSUME NEW o \in Objects, NEW f \in [{"pending"} \cup Results -> Nat]
  PROVE  LET r == [o EXCEPT !.ops = f]
         IN  r \in Objects /\ SameButOps(o, r) /\ r.ops = f
BY DEF Objects, SameButOps, Untouched

LEMMA AsyncRecvIs ==
  ASSUME NEW o \in Objects, NEW r, r = AsyncRecv(o)
  PROVE  /\ r \in Objects /\ SameButOps(o, r)
         /\ Sum(r) = Sum(o) + 1
         /\ Live(r) \in {Live(o), Live(o) + 1}
         /\ r.ops["ok"] = o.ops["ok"] /\ r.ops["refused"] = o.ops["refused"]
         /\ o.socket = "closed" => r.ops["pending"] = o.ops["pending"]
         /\ o.socket # "closed" => r.ops["err"] = o.ops["err"]
<1> DEFINE k == IF o.socket = "closed" THEN "err" ELSE "pending"
           f == [o.ops EXCEPT ![k] = @ + 1]
<1>0. /\ o.ops["pending"] \in Nat /\ o.ops["ok"] \in Nat
      /\ o.ops["refused"] \in Nat /\ o.ops["err"] \in Nat
  BY OpsType
<1>1. o.ops \in [{"pending"} \cup Results -> Nat] /\ k \in {"pending"} \cup Results
  BY DEF Objects, Results
<1>2. f \in [{"pending"} \cup Results -> Nat]
  BY <1>1
<1>3. r = [o EXCEPT !.ops = f]
  BY DEF AsyncRecv
<1>4. r \in Objects /\ SameButOps(o, r) /\ r.ops = f
  <2> HIDE DEF f
  <2> QED BY <1>2, <1>3, WithOps
<1>7. /\ Live(r) = f["pending"] + f["ok"] + f["refused"] /\ Sum(r) = Live(r) + f["err"]
      /\ Live(o) = o.ops["pending"] + o.ops["ok"] + o.ops["refused"]
      /\ Sum(o) = Live(o) + o.ops["err"]
  <2> HIDE DEF f
  <2> QED BY <1>4 DEF Live, Sum
<1>5. CASE o.socket # "closed"
  <2>1. /\ f["pending"] = o.ops["pending"] + 1 /\ f["ok"] = o.ops["ok"]
        /\ f["refused"] = o.ops["refused"] /\ f["err"] = o.ops["err"]
    BY <1>1, <1>5 DEF Results
  <2> HIDE DEF f
  <2> QED BY <1>4, <1>5, <1>7, <1>0, <2>1
<1>6. CASE o.socket = "closed"
  <2>1. /\ f["pending"] = o.ops["pending"] /\ f["ok"] = o.ops["ok"]
        /\ f["refused"] = o.ops["refused"] /\ f["err"] = o.ops["err"] + 1
    BY <1>1, <1>6 DEF Results
  <2> HIDE DEF f
  <2> QED BY <1>4, <1>6, <1>7, <1>0, <2>1
<1> QED BY <1>5, <1>6

LEMMA AsyncRecvOpen ==
  ASSUME NEW o \in Objects, NEW r, r = AsyncRecv(o), NEW n, NEW p, Open(o, n, p)
  PROVE  Open(r, n, p)
<1>1. /\ SameButOps(o, r)
      /\ o.socket = "closed" => r.ops["pending"] = o.ops["pending"]
      /\ o.socket # "closed" => r.ops["err"] = o.ops["err"]
  BY AsyncRecvIs
<1> QED BY <1>1 DEF Open, SameButOps, Untouched

LEMMA EndedIs ==
  ASSUME NEW o \in Objects, NEW x \in Results, o.ops["pending"] > 0, NEW r, r = Ended(o, x)
  PROVE  /\ r \in Objects /\ SameButOps(o, r)
         /\ Sum(r) = Sum(o) /\ Live(r) \in {Live(o), Live(o) - 1}
         /\ r.ops["pending"] = o.ops["pending"] - 1
         /\ x # "ok" => r.ops["ok"] = o.ops["ok"]
         /\ x # "err" => r.ops["err"] = o.ops["err"]
<1> DEFINE f == [o.ops EXCEPT !["pending"] = @ - 1, ![x] = @ + 1]
<1>0. /\ o.ops["pending"] \in Nat /\ o.ops["ok"] \in Nat
      /\ o.ops["refused"] \in Nat /\ o.ops["err"] \in Nat
  BY OpsType
<1>1. o.ops \in [{"pending"} \cup Results -> Nat] /\ o.ops["pending"] - 1 \in Nat
      /\ x # "pending"
  BY OpsType DEF Objects, Results
<1>2. f \in [{"pending"} \cup Results -> Nat]
  BY <1>1
<1>3. r = [o EXCEPT !.ops = f]
  BY DEF Ended
<1>4. r \in Objects /\ SameButOps(o, r) /\ r.ops = f
  <2> HIDE DEF f
  <2> QED BY <1>2, <1>3, WithOps
<1>5. /\ f["pending"] = o.ops["pending"] - 1
      /\ f["ok"] = IF x = "ok" THEN o.ops["ok"] + 1 ELSE o.ops["ok"]
      /\ f["refused"] = IF x = "refused" THEN o.ops["refused"] + 1 ELSE o.ops["refused"]
      /\ f["err"] = IF x = "err" THEN o.ops["err"] + 1 ELSE o.ops["err"]
  BY <1>1 DEF Results
<1> HIDE DEF f
<1>6. /\ Live(r) = f["pending"] + f["ok"] + f["refused"] /\ Sum(r) = Live(r) + f["err"]
      /\ Live(o) = o.ops["pending"] + o.ops["ok"] + o.ops["refused"]
      /\ Sum(o) = Live(o) + o.ops["err"]
  BY <1>4 DEF Live, Sum
<1>8. x \in {"ok", "refused", "err"}
  BY DEF Results
<1> QED BY <1>4, <1>5, <1>6, <1>8, <1>0

LEMMA HandledIs ==
  ASSUME NEW o \in Objects, NEW x \in Results, o.ops[x] > 0, NEW r, r = Handled(o, x)
  PROVE  /\ r \in Objects /\ SameButOps(o, r)
         /\ Sum(r) = Sum(o) - 1
         /\ Live(r) \in {Live(o), Live(o) - 1}
         /\ r.ops["pending"] = o.ops["pending"]
         /\ x # "ok" => r.ops["ok"] = o.ops["ok"]
         /\ x # "err" => Live(r) = Live(o) - 1 /\ r.ops["err"] = o.ops["err"]
         /\ x = "ok" => r.ops["ok"] = o.ops["ok"] - 1
<1> DEFINE f == [o.ops EXCEPT ![x] = @ - 1]
<1>0. /\ o.ops["pending"] \in Nat /\ o.ops["ok"] \in Nat
      /\ o.ops["refused"] \in Nat /\ o.ops["err"] \in Nat
  BY OpsType
<1>1. o.ops \in [{"pending"} \cup Results -> Nat] /\ o.ops[x] - 1 \in Nat /\ x # "pending"
  BY OpsType DEF Objects, Results
<1>2. f \in [{"pending"} \cup Results -> Nat]
  BY <1>1
<1>3. r = [o EXCEPT !.ops = f]
  BY DEF Handled
<1>4. r \in Objects /\ SameButOps(o, r) /\ r.ops = f
  <2> HIDE DEF f
  <2> QED BY <1>2, <1>3, WithOps
<1>5. /\ f["pending"] = o.ops["pending"]
      /\ f["ok"] = IF x = "ok" THEN o.ops["ok"] - 1 ELSE o.ops["ok"]
      /\ f["refused"] = IF x = "refused" THEN o.ops["refused"] - 1 ELSE o.ops["refused"]
      /\ f["err"] = IF x = "err" THEN o.ops["err"] - 1 ELSE o.ops["err"]
  BY <1>1 DEF Results
<1> HIDE DEF f
<1>6. /\ Live(r) = f["pending"] + f["ok"] + f["refused"] /\ Sum(r) = Live(r) + f["err"]
      /\ Live(o) = o.ops["pending"] + o.ops["ok"] + o.ops["refused"]
      /\ Sum(o) = Live(o) + o.ops["err"]
  BY <1>4 DEF Live, Sum
<1>8. x \in {"ok", "refused", "err"}
  BY DEF Results
<1> QED BY <1>4, <1>5, <1>6, <1>8, <1>0

LEMMA StoppedIs ==
  ASSUME NEW o \in Objects, NEW r, r = Stopped(o)
  PROVE  /\ r \in Objects /\ Untouched(o, r)
         /\ r.socket = "closed" /\ ~r.active /\ r.idle = 0
         /\ r.ops["pending"] = 0 /\ r.ops["ok"] = o.ops["ok"]
         /\ r.ops["err"] = o.ops["err"]
         /\ Sum(r) = Sum(o) - o.ops["pending"] /\ Live(r) = Live(o) - o.ops["pending"]
<1> DEFINE f == [o.ops EXCEPT !["pending"] = 0]
<1>0. /\ o.ops["pending"] \in Nat /\ o.ops["ok"] \in Nat
      /\ o.ops["refused"] \in Nat /\ o.ops["err"] \in Nat
  BY OpsType
<1>1. o.ops \in [{"pending"} \cup Results -> Nat] /\ 0 \in 0..MaxIdle
  BY UdpAssumption DEF Objects, Results, UdpAssumption
<1>2. f \in [{"pending"} \cup Results -> Nat]
  BY <1>1
<1>3. r = [o EXCEPT !.socket = "closed", !.active = FALSE, !.idle = 0, !.ops = f]
  BY DEF Stopped
<1>4. r \in Objects /\ Untouched(o, r) /\ r.socket = "closed" /\ ~r.active /\ r.idle = 0
      /\ r.ops = f
  <2> HIDE DEF f
  <2> QED BY <1>1, <1>2, <1>3 DEF Objects, Untouched
<1>5. /\ f["pending"] = 0 /\ f["ok"] = o.ops["ok"]
      /\ f["refused"] = o.ops["refused"] /\ f["err"] = o.ops["err"]
  BY <1>1 DEF Results
<1> HIDE DEF f
<1>6. /\ Live(r) = f["pending"] + f["ok"] + f["refused"] /\ Sum(r) = Live(r) + f["err"]
      /\ Live(o) = o.ops["pending"] + o.ops["ok"] + o.ops["refused"]
      /\ Sum(o) = Live(o) + o.ops["err"]
  BY <1>4 DEF Live, Sum
<1> QED BY <1>4, <1>5, <1>6, <1>0

LEMMA InitedIs ==
  ASSUME NEW o \in Objects, NEW r, r = Inited(o)
  PROVE  /\ r \in Objects /\ Untouched(o, r)
         /\ r.socket = "bound" /\ r.active /\ r.idle = 0
         /\ r.ops["ok"] = o.ops["ok"] /\ r.ops["err"] = o.ops["err"]
         /\ Sum(r) = Sum(o) + 1 /\ Live(r) \in {Live(o), Live(o) + 1}
<1> DEFINE b == [o EXCEPT !.socket = "bound"]
           s == AsyncRecv(b)
<1>1. b \in Objects /\ Untouched(o, b) /\ b.socket = "bound" /\ b.ops = o.ops
  BY DEF Objects, Untouched
<1>2. s \in Objects /\ SameButOps(b, s) /\ Sum(s) = Sum(b) + 1
      /\ Live(s) \in {Live(b), Live(b) + 1} /\ s.ops["ok"] = b.ops["ok"]
      /\ s.ops["err"] = b.ops["err"]
  <2> HIDE DEF b
  <2> QED BY <1>1, AsyncRecvIs
<1>3. r = [s EXCEPT !.active = TRUE, !.idle = 0]
  BY DEF Inited
<1>4. 0 \in 0..MaxIdle
  BY UdpAssumption DEF UdpAssumption
<1>5. r \in Objects /\ Untouched(s, r) /\ r.socket = s.socket /\ r.active /\ r.idle = 0
      /\ r.ops = s.ops
  <2> HIDE DEF s
  <2> QED BY <1>2, <1>3, <1>4 DEF Objects, Untouched
<1>6. Sum(b) = Sum(o) /\ Live(b) = Live(o) /\ Sum(r) = Sum(s) /\ Live(r) = Live(s)
  BY <1>1, <1>5 DEF Sum, Live
<1> HIDE DEF b, s
<1> QED BY <1>1, <1>2, <1>5, <1>6 DEF Untouched, SameButOps

\* A new endpoint, before its init().
LEMMA BlankIs ==
  ASSUME NEW s \in BOOLEAN, NEW r, r = Blank(s)
  PROVE  /\ r \in Objects /\ r.server_flag = s /\ r.recv_queue = <<>> /\ r.send_queue = <<>>
         /\ r.recving_flag /\ r.recving_msg = None /\ r.socket = "closed"
         /\ Sum(r) = 0 /\ Live(r) = 0 /\ r.ops["ok"] = 0 /\ r.ops["err"] = 0
<1>1. NoOps \in [{"pending"} \cup Results -> Nat] /\ 0 \in 0..MaxIdle
  BY UdpAssumption DEF NoOps, UdpAssumption
<1>2. /\ r.server_flag = s /\ r.recv_queue = <<>> /\ r.send_queue = <<>>
      /\ r.recving_flag /\ r.recving_msg = None /\ r.socket = "closed" /\ r.ops = NoOps
  BY DEF Blank
<1>3. r \in Objects
  BY <1>1 DEF Blank, Objects
<1>4. NoOps["pending"] = 0 /\ NoOps["ok"] = 0 /\ NoOps["refused"] = 0 /\ NoOps["err"] = 0
  BY DEF NoOps, Results
<1>5. Live(r) = 0
  BY <1>2, <1>4 DEF Live
<1> QED BY <1>2, <1>3, <1>4, <1>5 DEF Sum

\* A new endpoint, after its init().
LEMMA NewIs ==
  ASSUME NEW s \in BOOLEAN, NEW r, r = Inited(Blank(s)), NEW n \in Nat, NEW p
  PROVE  r \in Objects /\ Sound(r, n, p) /\ Fresh(r) /\ r.server_flag = s /\ r.active
<1> DEFINE b == Blank(s)
<1>1. /\ b \in Objects /\ b.server_flag = s /\ b.recv_queue = <<>> /\ b.send_queue = <<>>
      /\ b.recving_flag /\ Sum(b) = 0 /\ Live(b) = 0 /\ b.ops["ok"] = 0
      /\ b.ops["err"] = 0
  BY BlankIs
<1>2. /\ r \in Objects /\ Untouched(b, r) /\ r.socket = "bound" /\ r.active
      /\ r.ops["ok"] = 0 /\ r.ops["err"] = 0 /\ Sum(r) = 1 /\ Live(r) \in {0, 1}
  <2> HIDE DEF b
  <2>1. /\ r \in Objects /\ Untouched(b, r) /\ r.socket = "bound" /\ r.active
        /\ r.ops["ok"] = b.ops["ok"] /\ r.ops["err"] = b.ops["err"]
        /\ Sum(r) = Sum(b) + 1 /\ Live(r) \in {Live(b), Live(b) + 1}
    BY <1>1, InitedIs DEF b
  <2> QED BY <2>1, <1>1
<1> HIDE DEF b
<1>3. r.server_flag = s /\ r.recv_queue = <<>> /\ r.send_queue = <<>> /\ r.recving_flag
  BY <1>1, <1>2 DEF Untouched
<1>4. Over(r) = 0 /\ Owed(r, p) = 0 /\ Excused(r, n) \in Nat /\ Len(r.send_queue) = 0
  BY <1>2, <1>3, UdpAssumption DEF Over, Owed, Excused, UdpAssumption
<1>5. 0 <= MAX_UDP_MSG_QUEUE_SIZE
  BY UdpAssumption DEF UdpAssumption
<1>6. Sound(r, n, p)
  BY <1>2, <1>3, <1>4, <1>5 DEF Sound, Open
<1>7. Fresh(r)
  BY <1>2 DEF Fresh
<1> QED BY <1>2, <1>3, <1>6, <1>7

\* More errors, and the end of the routine, only excuse more.
LEMMA SoundStays ==
  ASSUME NEW o \in Objects, NEW n \in Nat, NEW m \in Nat, m >= n, NEW p, NEW q,
         p \in {"stop", "ended"} => q \in {"stop", "ended"}, Sound(o, n, p)
  PROVE  Sound(o, m, q)
<1>1. Owed(o, p) \in Nat /\ Owed(o, q) \in Nat /\ Owed(o, q) <= Owed(o, p)
  BY DEF Owed
<1>2. Excused(o, n) \in Nat /\ Excused(o, m) \in Nat /\ Excused(o, m) >= Excused(o, n)
  BY DEF Excused
<1>3. Sum(o) \in Nat /\ Over(o) \in Nat
  BY OpsType
<1>4. Open(o, m, q) /\ (n > 0 => m > 0)
  BY DEF Sound, Open
<1> QED BY <1>1, <1>2, <1>3, <1>4 DEF Sound

\* One endpoint changes, or two; in errors and pass the step only excuses more.
Excusing ==
  /\ errors \in Nat /\ errors' \in Nat /\ errors' >= errors
  /\ pass \in {"stop", "ended"} => pass' \in {"stop", "ended"}
  /\ fault' = "none" => fault = "none"

LEMMA ChangeTwo ==
  ASSUME AllSound, Excusing, NEW e \in Peers, NEW o \in Objects, NEW s \in Peers, NEW x \in Objects,
         s # e, ept' = [ept EXCEPT ![e] = o, ![s] = x],
         Sound(o, errors', pass'), Sound(x, errors', pass'),
         fault' = "none" => Fresh(o) /\ Fresh(x)
  PROVE  AllSound' /\ Made' = Made \cup {e, s}
<1>1. /\ ept'[e] = o /\ ept'[s] = x /\ \A d \in Peers \ {e, s} : ept'[d] = ept[d]
      /\ ept' \in [Peers -> Objects \cup {Gone}]
  BY DEF AllSound
<1>2. Made' = Made \cup {e, s}
  BY <1>1, NothingAssumption DEF Made, NothingAssumption
<1>3. \A d \in Made \ {e, s} : Sound(ept[d], errors', pass')
  <2> TAKE d \in Made \ {e, s}
  <2>1. ept[d] \in Objects /\ Sound(ept[d], errors, pass)
    BY DEF Made, AllSound
  <2> QED BY <2>1, SoundStays DEF Excusing
<1>4. \A d \in Made' : Sound(ept'[d], errors', pass')
  <2> TAKE d \in Made'
  <2>1. d = e \/ d = s \/ (d \in Made \ {e, s} /\ d \in Peers)
    BY <1>2 DEF Made
  <2> QED BY <2>1, <1>1, <1>3
<1>5. fault' = "none" => \A d \in Made' : Fresh(ept'[d])
  <2> SUFFICES ASSUME fault' = "none", NEW d \in Made' PROVE Fresh(ept'[d])
    OBVIOUS
  <2>1. d = e \/ d = s \/ (d \in Made \ {e, s} /\ d \in Peers)
    BY <1>2 DEF Made
  <2>2. d \in Made => Fresh(ept[d])
    BY DEF AllSound, Excusing
  <2> QED BY <2>1, <2>2, <1>1
<1>6. \A d \in Made' : Sound(ept[d], errors, pass)'
  BY <1>4
<1>7. (fault = "none")' => \A d \in Made' : Fresh(ept[d])'
  BY <1>5
<1> QED BY <1>1, <1>2, <1>6, <1>7 DEF AllSound

LEMMA ChangeOne ==
  ASSUME AllSound, Excusing, NEW e \in Peers, NEW o \in Objects,
         ept' = [ept EXCEPT ![e] = o], Sound(o, errors', pass'),
         fault' = "none" => Fresh(o)
  PROVE  AllSound' /\ Made' = Made \cup {e}
<1>1. /\ ept'[e] = o /\ \A d \in Peers \ {e} : ept'[d] = ept[d]
      /\ ept' \in [Peers -> Objects \cup {Gone}]
  BY DEF AllSound
<1>2. Made' = Made \cup {e}
  BY <1>1, NothingAssumption DEF Made, NothingAssumption
<1>3. \A d \in Made \ {e} : Sound(ept[d], errors', pass')
  <2> TAKE d \in Made \ {e}
  <2>1. ept[d] \in Objects /\ Sound(ept[d], errors, pass)
    BY DEF Made, AllSound
  <2> QED BY <2>1, SoundStays DEF Excusing
<1>4. \A d \in Made' : Sound(ept'[d], errors', pass')
  <2> TAKE d \in Made'
  <2>1. d = e \/ (d \in Made \ {e} /\ d \in Peers)
    BY <1>2 DEF Made
  <2> QED BY <2>1, <1>1, <1>3
<1>5. fault' = "none" => \A d \in Made' : Fresh(ept'[d])
  <2> SUFFICES ASSUME fault' = "none", NEW d \in Made' PROVE Fresh(ept'[d])
    OBVIOUS
  <2>1. d = e \/ (d \in Made \ {e} /\ d \in Peers)
    BY <1>2 DEF Made
  <2>2. d \in Made => Fresh(ept[d])
    BY DEF AllSound, Excusing
  <2> QED BY <2>1, <2>2, <1>1
<1>6. \A d \in Made' : Sound(ept[d], errors, pass)'
  BY <1>4
<1>7. (fault = "none")' => \A d \in Made' : Fresh(ept[d])'
  BY <1>5
<1> QED BY <1>1, <1>2, <1>6, <1>7 DEF AllSound

\* No endpoint changes, or one is destroyed.
LEMMA ChangeNone ==
  ASSUME AllSound, Excusing, NEW D \in SUBSET Peers,
         ept' = [e \in Peers |-> IF e \in D THEN Gone ELSE ept[e]]
  PROVE  AllSound' /\ Made' = Made \ D
<1>1. ept' \in [Peers -> Objects \cup {Gone}]
  BY DEF AllSound
<1>2. Made' = Made \ D
  BY DEF Made
<1>3. \A d \in Made' : ept'[d] = ept[d] /\ ept[d] \in Objects /\ d \in Made
  BY <1>2 DEF Made, AllSound
<1>4. \A d \in Made' : Sound(ept'[d], errors', pass')
  <2> TAKE d \in Made'
  <2>1. ept'[d] = ept[d] /\ ept[d] \in Objects /\ Sound(ept[d], errors, pass)
    BY <1>3 DEF AllSound
  <2> QED BY <2>1, SoundStays DEF Excusing
<1>5. fault' = "none" => \A d \in Made' : Fresh(ept'[d])
  BY <1>3 DEF AllSound, Excusing
<1>6. \A d \in Made' : Sound(ept[d], errors, pass)'
  BY <1>4
<1>7. (fault = "none")' => \A d \in Made' : Fresh(ept[d])'
  BY <1>5
<1> QED BY <1>1, <1>2, <1>6, <1>7 DEF AllSound

\* A change that leaves the receives alone, and the socket, too.
Calm(o, r) ==
  /\ r.ops = o.ops /\ r.server_flag = o.server_flag
  /\ r.recving_flag = o.recving_flag /\ r.recving_msg = o.recving_msg
  /\ r.active = o.active /\ Len(r.recv_queue) = Len(o.recv_queue)

Quiet(o, r) == Calm(o, r) /\ r.socket = o.socket

LEMMA QuietKeeps ==
  ASSUME NEW o, NEW r, Quiet(o, r), NEW n, NEW p
  PROVE  /\ Sound(o, n, p) /\ Len(r.send_queue) <= MAX_UDP_MSG_QUEUE_SIZE => Sound(r, n, p)
         /\ Fresh(o) => Fresh(r)
<1>1. Sum(r) = Sum(o) /\ Live(r) = Live(o) /\ Over(r) = Over(o)
      /\ Owed(r, p) = Owed(o, p) /\ Excused(r, n) = Excused(o, n)
  BY DEF Quiet, Calm, Sum, Live, Over, Owed, Excused
<1>2. Fresh(o) => Fresh(r)
  BY <1>1 DEF Quiet, Calm, Fresh
<1>3. Sound(o, n, p) /\ Len(r.send_queue) <= MAX_UDP_MSG_QUEUE_SIZE => Sound(r, n, p)
  BY <1>1 DEF Quiet, Calm, Sound, Open
<1> QED BY <1>2, <1>3

LEMMA CreditedIs ==
  ASSUME NEW o \in Objects, interval \in Nat, NEW r, r = Credited(o)
  PROVE  r \in Objects /\ Quiet(o, r) /\ r.send_queue = o.send_queue
<1> DEFINE c == (interval * max_bandwidth) \div 1000
<1>1. c \in Int
  <2> DEFINE x == interval * max_bandwidth
  <2>1. x \in Nat
    BY UdpAssumption DEF UdpAssumption
  <2> HIDE DEF x
  <2>2. x \div 1000 \in Int
    BY <2>1
  <2> QED BY <2>2 DEF x
<1>2. o.recv_avail_bytes \in Int /\ o.send_avail_bytes \in Int
  BY DEF Objects
<1>3. Repaid(o.recv_avail_bytes) \in Int /\ Repaid(o.send_avail_bytes) \in Int
  <2>1. \A b : Repaid(b) = IF b < 0 THEN b + c ELSE b
    BY DEF Repaid
  <2> HIDE DEF c
  <2> QED BY <1>1, <1>2, <2>1
<1>4. CASE Limited(o)
  <2>1. r = [o EXCEPT !.recv_avail_bytes = Repaid(o.recv_avail_bytes),
                      !.send_avail_bytes = Repaid(o.send_avail_bytes)]
    BY <1>4 DEF Credited
  <2> QED BY <2>1, <1>3 DEF Objects, Quiet, Calm
<1>5. CASE ~Limited(o)
  BY <1>5 DEF Credited, Quiet, Calm
<1> QED BY <1>4, <1>5

LEMMA ChargedIs ==
  ASSUME NEW o \in Objects, NEW r, r = Charged(o)
  PROVE  r \in Objects /\ Quiet(o, r) /\ r.recv_queue = o.recv_queue
         /\ r.send_queue = o.send_queue
<1>1. (IF Limited(o) THEN o.recv_avail_bytes - Cost ELSE o.recv_avail_bytes) \in Int
  BY UdpAssumption DEF UdpAssumption, Objects
<1>2. r = [o EXCEPT !.recv_avail_bytes =
                      IF Limited(o) THEN o.recv_avail_bytes - Cost ELSE o.recv_avail_bytes]
  BY DEF Charged
<1> QED BY <1>1, <1>2 DEF Objects, Quiet, Calm

\* A datagram leaves the queue of an endpoint, whose paused receive is started again.
LEMMA PoppedIs ==
  ASSUME NEW o \in Objects, NEW n \in Nat, NEW p, Sound(o, n, p), o.recv_queue # <<>>,
         NEW r, r = Popped(o)
  PROVE  /\ r \in Objects /\ Sound(r, n, p)
         /\ r.server_flag = o.server_flag /\ r.active = o.active
         /\ r.recving_msg = o.recving_msg /\ r.ops["ok"] = o.ops["ok"]
<1> DEFINE c == Charged(o)
           q == [c EXCEPT !.recv_queue = Tail(@), !.recving_flag = TRUE]
<1>1. c \in Objects /\ Quiet(o, c) /\ c.recv_queue = o.recv_queue /\ c.send_queue = o.send_queue
  BY ChargedIs
<1>2. /\ q \in Objects /\ q.recv_queue = Tail(o.recv_queue) /\ q.recving_flag
      /\ q.ops = o.ops /\ q.socket = o.socket /\ q.server_flag = o.server_flag
      /\ q.recving_msg = o.recving_msg /\ q.active = o.active /\ q.send_queue = o.send_queue
  <2>1. Tail(o.recv_queue) \in Seq(Messages)
    BY DEF Objects
  <2> HIDE DEF c
  <2> QED BY <1>1, <2>1 DEF Objects, Quiet, Calm
<1>3. Len(q.recv_queue) = Len(o.recv_queue) - 1 /\ Len(o.recv_queue) \in Nat
  <2> HIDE DEF q
  <2> QED BY <1>2 DEF Objects
<1>4. Sum(q) = Sum(o) /\ Live(q) = Live(o) /\ Owed(q, p) = Owed(o, p)
      /\ Excused(q, n) = Excused(o, n)
  <2> HIDE DEF q
  <2> QED BY <1>2 DEF Sum, Live, Owed, Excused
<1>5. Over(q) <= Over(o) /\ (Over(o) > 0 => Over(q) = Over(o) - 1) /\ Over(q) \in Nat
  <2> HIDE DEF q
  <2> QED BY <1>3, UdpAssumption DEF Over, UdpAssumption
<1>6. Sum(o) \in Nat /\ Over(o) \in Nat /\ Owed(o, p) \in Nat /\ Excused(o, n) \in Nat
  BY OpsType DEF Owed, Excused
<1>9. Open(q, n, p)
  <2> HIDE DEF q
  <2> QED BY <1>2 DEF Sound, Open
<1>7. CASE o.recving_flag
  <2>1. r = q
    BY <1>7 DEF Popped
  <2> HIDE DEF q, c
  <2>2. Sound(q, n, p)
    BY <1>2, <1>4, <1>5, <1>6, <1>7, <1>9 DEF Sound
  <2> QED BY <2>1, <2>2, <1>2
<1>8. CASE ~o.recving_flag
  <2>1. r = AsyncRecv(q)
    BY <1>8 DEF Popped
  <2> HIDE DEF q, c
  <2>2. /\ r \in Objects /\ SameButOps(q, r) /\ Sum(r) = Sum(q) + 1
        /\ r.ops["ok"] = q.ops["ok"]
    BY <1>2, <2>1, AsyncRecvIs
  <2>3. Over(r) = Over(o) - 1 /\ Owed(r, p) = Owed(o, p) /\ Excused(r, n) = Excused(o, n)
        /\ Over(o) > 0
    BY <1>2, <1>4, <1>5, <1>8, <2>2 DEF Over, Owed, Excused, SameButOps, Untouched, Sound
  <2>4. Sound(r, n, p)
    <3>1. Open(r, n, p)
      BY <2>1, <1>2, <1>9, AsyncRecvOpen
    <3>2. Sum(r) + Owed(r, p) + Over(r) <= 1 + Excused(r, n)
      BY <2>2, <2>3, <1>4, <1>6 DEF Sound
    <3>3. r.recving_flag /\ Sum(r) >= 1 /\ r.send_queue = o.send_queue
      BY <2>2, <1>2, <1>4, <1>6 DEF SameButOps, Untouched
    <3> QED BY <3>1, <3>2, <3>3 DEF Sound
  <2> QED BY <2>2, <2>4, <1>2 DEF SameButOps, Untouched
<1> QED BY <1>7, <1>8

\* A datagram is put into the queue of an endpoint.
LEMMA GivenIs ==
  ASSUME NEW o \in Objects, NEW msg \in Messages, NEW e \in Peers, NEW r, r = Given(o, msg, e),
         Len(o.send_queue) <= MAX_UDP_MSG_QUEUE_SIZE
  PROVE  /\ r \in Objects /\ Quiet(o, r) /\ Len(r.send_queue) <= MAX_UDP_MSG_QUEUE_SIZE
<1>1. CASE Len(o.send_queue) < MAX_UDP_MSG_QUEUE_SIZE
  <2> DEFINE q == Append(o.send_queue, [dst |-> e, num |-> msg.num])
  <2>1. [dst |-> e, num |-> msg.num] \in [dst : Peers, num : Nat]
    BY DEF Messages
  <2>2. q \in Seq([dst : Peers, num : Nat]) /\ Len(q) = Len(o.send_queue) + 1
        /\ Len(o.send_queue) \in Nat
    BY <2>1 DEF Objects
  <2>3. r = [o EXCEPT !.send_queue = q]
    BY <1>1 DEF Given
  <2>4. r \in Objects /\ Quiet(o, r) /\ r.send_queue = q
    <3> HIDE DEF q
    <3> QED BY <2>2, <2>3 DEF Objects, Quiet, Calm
  <2> HIDE DEF q
  <2> QED BY <2>2, <2>4, <1>1, UdpAssumption DEF UdpAssumption
<1>2. CASE ~(Len(o.send_queue) < MAX_UDP_MSG_QUEUE_SIZE)
  BY <1>2 DEF Given, Quiet, Calm
<1> QED BY <1>1, <1>2

LEMMA UsedIs ==
  ASSUME NEW o \in Objects, NEW r, r = Used(o)
  PROVE  r \in Objects /\ Quiet(o, r) /\ r.send_queue = o.send_queue
<1>1. 0 \in 0..MaxIdle
  BY UdpAssumption DEF UdpAssumption
<1> QED BY <1>1 DEF Used, Objects, Quiet, Calm

\* A datagram has gone out, which binds the socket.
LEMMA SentIs ==
  ASSUME NEW o \in Objects, o.send_queue # <<>>, NEW r, r = Sent(o)
  PROVE  /\ r \in Objects /\ Calm(o, r) /\ r.socket = "bound"
         /\ Len(r.send_queue) = Len(o.send_queue) - 1
<1> DEFINE q == Tail(o.send_queue)
           b == IF Limited(o) THEN o.send_avail_bytes - Cost ELSE o.send_avail_bytes
<1>1. q \in Seq([dst : Peers, num : Nat]) /\ Len(q) = Len(o.send_queue) - 1
  BY DEF Objects
<1>2. b \in Int
  BY UdpAssumption DEF UdpAssumption, Objects
<1>3. r = [o EXCEPT !.socket = "bound", !.send_queue = q, !.send_avail_bytes = b]
  BY DEF Sent
<1> HIDE DEF q, b
<1> QED BY <1>1, <1>2, <1>3 DEF Objects, Calm

LEMMA SentSound ==
  ASSUME NEW o \in Objects, NEW n \in Nat, Sound(o, n, "send"), o.socket # "closed",
         NEW r, Calm(o, r), r.socket = "bound", Len(r.send_queue) <= MAX_UDP_MSG_QUEUE_SIZE
  PROVE  Sound(r, n, "send")
<1>1. Sum(r) = Sum(o) /\ Over(r) = Over(o) /\ Excused(r, n) = Excused(o, n)
      /\ Owed(r, "send") = 0 /\ Owed(o, "send") \in {0, 1}
  BY DEF Calm, Sum, Live, Over, Excused, Owed
<1>2. Sum(o) \in Nat /\ Over(o) \in Nat /\ Excused(o, n) \in Nat
  BY OpsType DEF Excused
<1>3. o.socket = "bound" \/ (o.server_flag /\ n > 0)
  BY DEF Objects, Sound, Open
<1>4. Open(r, n, "send")
  BY DEF Sound, Open, Calm
<1> QED BY <1>1, <1>2, <1>3, <1>4 DEF Sound, Calm

\* What restarts an endpoint with room for one more receive.
LEMMA RestartedIs ==
  ASSUME NEW h \in Objects, NEW n \in Nat, NEW p,
         NEW r \in {Restarted(h)} \cup RestartFailures(h),
         n > 0 \/ p \in {"stop", "ended"},
         Sum(h) + Over(h) + (IF h.server_flag THEN 1 ELSE 0) <= 1 + Excused(h, n),
         ~h.recving_flag => Over(h) > 0, Len(h.send_queue) <= MAX_UDP_MSG_QUEUE_SIZE
  PROVE  /\ r \in Objects /\ Sound(r, n, p) /\ Untouched(h, r) /\ r.ops["ok"] = h.ops["ok"]
         /\ r = Restarted(h) /\ h.server_flag => r.active
<1> DEFINE s == Stopped(h)
<1>1. /\ s \in Objects /\ Untouched(h, s) /\ s.socket = "closed"
      /\ s.ops["pending"] = 0 /\ s.ops["ok"] = h.ops["ok"]
      /\ Sum(s) = Sum(h) - h.ops["pending"]
  BY StoppedIs
<1>2. Sum(s) <= Sum(h) /\ Sum(s) \in Nat /\ Sum(h) \in Nat /\ Over(h) \in Nat
      /\ Excused(h, n) \in Nat
  <2> HIDE DEF s
  <2> QED BY <1>1, OpsType DEF Excused
<1>3. CASE h.server_flag /\ r = Restarted(h)
  <2>1. r = Inited(s)
    BY <1>3 DEF Restarted
  <2> HIDE DEF s
  <2>2. /\ r \in Objects /\ Untouched(s, r) /\ r.socket = "bound" /\ r.active
        /\ r.ops["ok"] = s.ops["ok"] /\ Sum(r) = Sum(s) + 1
    BY <2>1, <1>1, InitedIs
  <2>3. Untouched(h, r)
    BY <2>2, <1>1 DEF Untouched
  <2>4. Over(r) = Over(h) /\ Owed(r, p) = 0 /\ Excused(r, n) = Excused(h, n)
    BY <2>2, <2>3 DEF Over, Owed, Excused, Untouched
  <2>5. Sound(r, n, p)
    <3>1. Sum(r) + Owed(r, p) + Over(r) <= 1 + Excused(r, n) /\ Sum(r) >= 1
      BY <1>2, <1>3, <2>2, <2>3, <2>4
    <3>2. Open(r, n, p)
      BY <2>2 DEF Open
    <3>3. (~r.recving_flag => Over(r) > 0) /\ Len(r.send_queue) <= MAX_UDP_MSG_QUEUE_SIZE
      BY <2>3, <2>4 DEF Untouched
    <3> QED BY <3>1, <3>2, <3>3 DEF Sound
  <2> QED BY <2>2, <2>3, <2>5, <1>1
<1>4. CASE h.server_flag /\ r \in RestartFailures(h)
  <2>1. PICK k \in {"closed", "unbound"} : r = [s EXCEPT !.socket = k]
    BY <1>4 DEF RestartFailures, InitFailures
  <2> HIDE DEF s
  <2>2. r \in Objects /\ Untouched(s, r) /\ r.socket # "bound" /\ r.ops = s.ops
    BY <2>1, <1>1 DEF Objects, Untouched
  <2>3. Untouched(h, r) /\ Sum(r) = Sum(s)
    BY <2>2, <1>1 DEF Untouched, Sum, Live
  <2>4. Over(r) = Over(h) /\ Owed(r, p) \in {0, 1} /\ Excused(r, n) = Excused(h, n)
    BY <2>3 DEF Over, Owed, Excused, Untouched
  <2>5. Sound(r, n, p)
    BY <1>1, <1>2, <1>4, <2>2, <2>3, <2>4 DEF Sound, Open, Untouched
  <2>6. r # Restarted(h)
    <3>1. Restarted(h) = Inited(s)
      BY <1>4 DEF Restarted, s
    <3>2. Restarted(h).socket = "bound"
      BY <3>1, <1>1, InitedIs
    <3> QED BY <3>2, <2>2
  <2> QED BY <2>2, <2>3, <2>5, <2>6, <1>1
<1>5. CASE ~h.server_flag
  <2>1. r = s
    BY <1>5 DEF Restarted, RestartFailures
  <2> HIDE DEF s
  <2>2. Over(r) = Over(h) /\ Owed(r, p) = 0 /\ Excused(r, n) = Excused(h, n)
    BY <1>1, <1>5, <2>1 DEF Over, Owed, Excused, Untouched
  <2>3. Sound(r, n, p)
    BY <1>1, <1>2, <1>5, <2>1, <2>2 DEF Sound, Open, Untouched
  <2> QED BY <2>1, <2>3, <1>1, <1>5
<1> QED BY <1>3, <1>4, <1>5

-----------------------------------------------------------------------------
\* What is known of an endpoint that exists, and of the errors so far.
LEMMA Known ==
  ASSUME UdpInv, NEW e \in Peers, ept[e] # Gone
  PROVE  /\ e \in Made /\ ept[e] \in Objects /\ Sound(ept[e], errors, pass)
         /\ fault = "none" => Fresh(ept[e])
         /\ Made \cup {e} = Made
BY DEF UdpInv, AllSound, Made

LEMMA Errors ==
  ASSUME UdpInv
  PROVE  /\ errors \in Nat /\ errors + 1 \in Nat /\ errors <= MaxErrors /\ MaxErrors \in Nat
         /\ errors < MaxErrors => errors + 1 \in 0..MaxErrors
         /\ Servers \subseteq Peers /\ None \notin Peers /\ endpoints \subseteq Peers
         /\ endpoints \subseteq Made
BY UdpAssumption DEF UdpInv, Rest, UdpAssumption, Made

\* As long as nothing is shared, receives are one at most.
LEMMA BecomesOne ==
  ASSUME UdpInv, NEW e \in Peers, NEW o \in Objects, Becomes([ept EXCEPT ![e] = o])
  PROVE  /\ ept' = [ept EXCEPT ![e] = o] /\ fault' \in {"none", "shared"}
         /\ fault' = "none" => Live(o) <= 1
<1> DEFINE E == [ept EXCEPT ![e] = o]
<1>1. E[e] = o /\ o # Gone /\ Live(o) \in Nat
  BY OpsType, NothingAssumption DEF UdpInv, AllSound, NothingAssumption
<1>2. ept' = E /\ fault' = IF \E d \in Peers : E[d] # Gone /\ Live(E[d]) > 1 THEN "shared" ELSE "none"
  BY DEF Becomes
<1> HIDE DEF E
<1>3. fault' = "none" => ~(Live(E[e]) > 1)
  BY <1>1, <1>2
<1> QED BY <1>1, <1>2, <1>3 DEF E

LEMMA BecomesTwo ==
  ASSUME UdpInv, NEW e \in Peers, NEW o \in Objects, NEW s \in Peers, NEW x \in Objects,
         s # e, Becomes([ept EXCEPT ![e] = o, ![s] = x])
  PROVE  /\ ept' = [ept EXCEPT ![e] = o, ![s] = x] /\ fault' \in {"none", "shared"}
         /\ fault' = "none" => Live(o) <= 1 /\ Live(x) <= 1
<1> DEFINE E == [ept EXCEPT ![e] = o, ![s] = x]
<1>1. E[e] = o /\ o # Gone /\ Live(o) \in Nat /\ E[s] = x /\ x # Gone /\ Live(x) \in Nat
  BY OpsType, NothingAssumption DEF UdpInv, AllSound, NothingAssumption
<1>2. ept' = E /\ fault' = IF \E d \in Peers : E[d] # Gone /\ Live(E[d]) > 1 THEN "shared" ELSE "none"
  BY DEF Becomes
<1> HIDE DEF E
<1>3. fault' = "none" => ~(Live(E[e]) > 1) /\ ~(Live(E[s]) > 1)
  BY <1>1, <1>2
<1> QED BY <1>1, <1>2, <1>3 DEF E

\* A server's endpoint stays one and active.
LEMMA ServersOne ==
  ASSUME UdpInv, NEW e \in Peers, NEW o, ept' = [ept EXCEPT ![e] = o],
         endpoints \subseteq endpoints', failed => failed',
         pass \in {"stop", "ended"} => pass' \in {"stop", "ended"},
         ~failed' /\ e \in endpoints /\ ept[e].server_flag =>
           o.server_flag /\ (ept[e].active => o.active \/ pass' \in {"stop", "ended"})
  PROVE  ServersKept'
<1> SUFFICES ASSUME ~failed', NEW s \in Servers
             PROVE  /\ s \in endpoints' /\ ept'[s].server_flag
                    /\ ept'[s].active \/ pass' \in {"stop", "ended"}
  BY DEF ServersKept
<1>1. /\ s \in endpoints /\ ept[s].server_flag /\ s \in Peers
      /\ ept[s].active \/ pass \in {"stop", "ended"}
  BY Errors DEF UdpInv, ServersKept
<1>2. ept \in [Peers -> Objects \cup {Gone}]
  BY DEF UdpInv, AllSound
<1>3. CASE s = e
  BY <1>1, <1>2, <1>3
<1>4. CASE s # e
  BY <1>1, <1>2, <1>4
<1> QED BY <1>3, <1>4

\* At the start a server's endpoint waits for its first datagram.
LEMMA UdpInit == Init => UdpInv
<1> SUFFICES ASSUME Init PROVE UdpInv
  OBVIOUS
<1>1. \A e \in Peers : ept[e] = IF e \in Servers THEN Inited(Blank(TRUE)) ELSE Gone
  BY DEF Init
<1>2. /\ Inited(Blank(TRUE)) \in Objects /\ Fresh(Inited(Blank(TRUE)))
      /\ Inited(Blank(TRUE)).server_flag /\ Inited(Blank(TRUE)).active
      /\ \A n \in Nat : \A q : Sound(Inited(Blank(TRUE)), n, q)
  BY NewIs
<1>3. Made = Servers /\ Servers \subseteq Peers
  BY <1>1, <1>2, NothingAssumption, UdpAssumption DEF Made, NothingAssumption, UdpAssumption
<1>4. AllSound
  <2>1. ept \in [Peers -> Objects \cup {Gone}]
    <3>1. \A e \in Peers : ept[e] \in Objects \cup {Gone}
      BY <1>1, <1>2
    <3>2. ept = [e \in Peers |-> ept[e]]
      BY DEF Init
    <3> QED BY <3>1, <3>2
  <2>2. \A e \in Made : ept[e] = Inited(Blank(TRUE))
    BY <1>1, <1>3
  <2>3. errors \in Nat
    BY DEF Init
  <2> QED BY <1>2, <2>1, <2>2, <2>3 DEF AllSound
<1>5. Rest
  <2>1. 0 \in 0..MaxErrors
    BY UdpAssumption DEF UdpAssumption
  <2>2. /\ endpoints = Servers /\ new_epts = {} /\ running_flag = TRUE /\ pass = "sleep"
        /\ todo = {} /\ cur = None /\ interval = 0 /\ errors = 0 /\ failed = FALSE
        /\ orphaned = FALSE /\ fault = "none"
        /\ received \in [Flows -> Nat] /\ delivered \in [Flows -> SUBSET Nat]
    BY DEF Init
  <2>3. running_flag \in BOOLEAN /\ failed \in BOOLEAN /\ orphaned \in BOOLEAN
    BY <2>2, Zenon
  <2> QED BY <1>3, <2>1, <2>2, <2>3 DEF Rest
<1>6. ServersKept
  BY <1>1, <1>2, <1>3 DEF ServersKept, Init
<1> QED BY <1>4, <1>5, <1>6 DEF UdpInv

\* A step that changes one endpoint, and nothing that the others depend on.
LEMMA OneStep ==
  ASSUME UdpInv, fault = "none", NEW e \in Peers, ept[e] # Gone, NEW o \in Objects,
         ept' = [ept EXCEPT ![e] = o], fault' \in {"none", "shared"},
         fault' = "none" => Live(o) <= 1,
         errors' \in errors..MaxErrors, Sound(o, errors', pass),
         o.ops["ok"] > 0 => o.recving_msg # None,
         o.server_flag = ept[e].server_flag,
         failed => failed', failed' \in BOOLEAN,
         ~failed' /\ o.server_flag /\ ept[e].active => o.active \/ pass \in {"stop", "ended"},
         UNCHANGED <<endpoints, new_epts, running_flag, pass, interval, orphaned>>,
         todo' \subseteq endpoints, cur' \in endpoints \cup {None},
         received' \in [Flows -> Nat], delivered' \in [Flows -> SUBSET Nat]
  PROVE  UdpInv'
<1>1. Excusing
  BY Errors DEF Excusing
<1>2. fault' = "none" => Fresh(o)
  BY DEF Fresh
<1>3. AllSound' /\ Made' = Made
  <2>1. Made \cup {e} = Made
    BY Known
  <2>2. Sound(o, errors', pass')
    OBVIOUS
  <2> QED BY <1>1, <1>2, <2>1, <2>2, ChangeOne DEF UdpInv
<1>4. Rest'
  <2>1. errors' \in 0..MaxErrors
    BY Errors
  <2> QED BY <2>1, <1>3 DEF UdpInv, Rest
<1>5. ServersKept'
  BY ServersOne
<1> QED BY <1>3, <1>4, <1>5 DEF UdpInv

\* A datagram comes.
LEMMA ArriveKeeps == ASSUME UdpInv, NEW f \in Flows, Arrive(f) PROVE UdpInv'
<1>1. PICK e \in Peers : e = f[2] /\ f[1] \in Peers
  BY UdpAssumption DEF UdpAssumption
<1> DEFINE m == [src |-> f[1], num |-> received[f] + 1]
           d == Ended(ept[e], "ok")
           o == [d EXCEPT !.recving_msg = m]
<1>2. /\ fault = "none" /\ ept[e] # Gone /\ ept[e].ops["pending"] > 0
      /\ received' = [received EXCEPT ![f] = @ + 1]
      /\ Becomes([ept EXCEPT ![e] = o])
      /\ UNCHANGED <<endpoints, new_epts, running_flag, pass, todo, cur, interval, delivered,
                     errors, failed, orphaned>>
  BY <1>1 DEF Arrive, routineVars
<1>3. ept[e] \in Objects /\ Sound(ept[e], errors, pass)
  BY <1>2, Known
<1>4. m \in [src : Peers, num : Nat] /\ m # None
  BY <1>1, NothingAssumption DEF NothingAssumption, UdpInv, Rest
<1>5. /\ d \in Objects /\ SameButOps(ept[e], d) /\ Sum(d) = Sum(ept[e])
      /\ d.ops["pending"] = ept[e].ops["pending"] - 1 /\ d.ops["err"] = ept[e].ops["err"]
  BY <1>2, <1>3, EndedIs DEF Results
<1> HIDE DEF m, d
<1>6. /\ o \in Objects /\ o.ops = d.ops /\ o.socket = d.socket /\ o.server_flag = d.server_flag
      /\ o.recving_flag = d.recving_flag /\ o.recv_queue = d.recv_queue
      /\ o.send_queue = d.send_queue /\ o.recving_msg = m /\ o.active = d.active
  BY <1>4, <1>5 DEF Objects
<1> HIDE DEF o
<1>7. Sound(o, errors, pass)
  <2>1. /\ Sum(o) = Sum(ept[e]) /\ Over(o) = Over(ept[e]) /\ Owed(o, pass) = Owed(ept[e], pass)
        /\ Excused(o, errors) = Excused(ept[e], errors)
    BY <1>5, <1>6 DEF Sum, Live, Over, Owed, Excused, SameButOps, Untouched
  <2>2. Open(o, errors, pass)
    BY <1>2, <1>3, <1>5, <1>6 DEF Sound, Open, SameButOps, Untouched
  <2> QED BY <2>1, <2>2, <1>3, <1>5, <1>6, <1>2 DEF Sound, SameButOps, Untouched
<1>8. /\ ept' = [ept EXCEPT ![e] = o] /\ fault' \in {"none", "shared"}
      /\ fault' = "none" => Live(o) <= 1
  BY <1>2, <1>6, BecomesOne
<1>9. /\ o.server_flag = ept[e].server_flag /\ o.active = ept[e].active
      /\ o.recving_msg # None
  BY <1>4, <1>5, <1>6 DEF SameButOps, Untouched
<1>10. /\ received' \in [Flows -> Nat] /\ delivered' \in [Flows -> SUBSET Nat]
       /\ todo' \subseteq endpoints /\ cur' \in endpoints \cup {None}
       /\ failed' \in BOOLEAN /\ errors' \in errors..MaxErrors
  BY <1>2, Errors DEF UdpInv, Rest
<1> QED BY <1>2, <1>6, <1>7, <1>8, <1>9, <1>10, OneStep

\* A pending receive ends with an error.
LEMMA RecvFailsKeeps ==
  ASSUME UdpInv, NEW e \in Peers, NEW r \in {"refused", "err"}, RecvFails(e, r) PROVE UdpInv'
<1> DEFINE o == Ended(ept[e], r)
<1>1. /\ fault = "none" /\ ept[e] # Gone /\ ept[e].ops["pending"] > 0
      /\ errors < MaxErrors /\ errors' = errors + 1
      /\ Becomes([ept EXCEPT ![e] = o])
      /\ UNCHANGED <<endpoints, new_epts, running_flag, pass, todo, cur, interval, received,
                     delivered, failed, orphaned>>
  BY DEF RecvFails, routineVars, flowHistory
<1>2. ept[e] \in Objects /\ Sound(ept[e], errors, pass) /\ Fresh(ept[e])
  BY <1>1, Known
<1>3. /\ o \in Objects /\ SameButOps(ept[e], o) /\ Sum(o) = Sum(ept[e])
      /\ o.ops["pending"] = ept[e].ops["pending"] - 1 /\ o.ops["ok"] = ept[e].ops["ok"]
  BY <1>1, <1>2, EndedIs DEF Results
<1> HIDE DEF o
<1>4. Sound(o, errors', pass)
  <2>1. /\ Over(o) = Over(ept[e]) /\ Owed(o, pass) = Owed(ept[e], pass)
        /\ Excused(o, errors) = Excused(ept[e], errors)
    BY <1>3 DEF Over, Owed, Excused, SameButOps, Untouched
  <2>2. /\ Sum(o) \in Nat /\ Over(o) \in Nat /\ Owed(o, pass) \in Nat /\ errors \in Nat
        /\ Excused(o, errors) <= Excused(o, errors') /\ Excused(o, errors) \in Nat
        /\ Excused(o, errors') \in Nat
    BY <1>1, <1>3, Errors, OpsType DEF Owed, Excused
  <2>3. Open(o, errors', pass)
    BY <1>1, <1>2, <1>3, <2>2 DEF Sound, Open, SameButOps, Untouched
  <2>4. /\ Sum(o) + Owed(o, pass) + Over(o) <= 1 + Excused(o, errors')
        /\ ~o.recving_flag => Over(o) > 0
        /\ Len(o.send_queue) <= MAX_UDP_MSG_QUEUE_SIZE
    BY <1>2, <1>3, <2>1, <2>2 DEF Sound, SameButOps, Untouched
  <2>5. o.socket = "bound" /\ o.recving_flag => Sum(o) >= 1 \/ (o.server_flag /\ errors' > 0)
    BY <1>1, <1>2, <1>3, <2>2 DEF Sound, SameButOps, Untouched
  <2> QED BY <2>3, <2>4, <2>5 DEF Sound
<1>5. /\ ept' = [ept EXCEPT ![e] = o] /\ fault' \in {"none", "shared"}
      /\ fault' = "none" => Live(o) <= 1
  BY <1>1, <1>3, BecomesOne
<1>6. /\ o.server_flag = ept[e].server_flag /\ o.active = ept[e].active
      /\ o.ops["ok"] > 0 => o.recving_msg # None
  BY <1>2, <1>3 DEF SameButOps, Untouched, Fresh
<1>7. /\ received' \in [Flows -> Nat] /\ delivered' \in [Flows -> SUBSET Nat]
      /\ todo' \subseteq endpoints /\ cur' \in endpoints \cup {None}
      /\ failed' \in BOOLEAN /\ errors' \in errors..MaxErrors
  BY <1>1, Errors DEF UdpInv, Rest
<1> QED BY <1>1, <1>3, <1>4, <1>5, <1>6, <1>7, OneStep

\* A datagram is dropped or queued; above the limit receiving pauses.
LEMMA HandleRecvOkKeeps ==
  ASSUME UdpInv, NEW e \in Peers, HandleRecvOk(e) PROVE UdpInv'
<1> DEFINE h == Handled(ept[e], "ok")
           o == [h EXCEPT !.active = TRUE, !.idle = 0, !.recving_msg = None]
           m == [src |-> ept[e].recving_msg.src, num |-> ept[e].recving_msg.num, wait |-> delay_ms]
           q == [o EXCEPT !.recv_queue = Append(@, m)]
           z == [q EXCEPT !.recving_flag = FALSE]
<1>1. /\ fault = "none" /\ ept[e] # Gone /\ ept[e].ops["ok"] > 0
      /\ \/ Becomes([ept EXCEPT ![e] = AsyncRecv(o)])
         \/ QueueFull(q) /\ Becomes([ept EXCEPT ![e] = z])
         \/ ~QueueFull(q) /\ Becomes([ept EXCEPT ![e] = AsyncRecv(q)])
      /\ UNCHANGED <<endpoints, new_epts, running_flag, pass, todo, cur, interval, received,
                     delivered, errors, failed, orphaned>>
  BY DEF HandleRecvOk, Handles, routineVars, flowHistory
<1>2. ept[e] \in Objects /\ Sound(ept[e], errors, pass) /\ Fresh(ept[e])
  BY <1>1, Known
<1>3. /\ h \in Objects /\ SameButOps(ept[e], h) /\ Sum(h) = Sum(ept[e]) - 1
      /\ h.ops["pending"] = ept[e].ops["pending"] /\ h.ops["err"] = ept[e].ops["err"]
      /\ Live(h) = Live(ept[e]) - 1
  BY <1>1, <1>2, HandledIs DEF Results
<1>4. m \in Messages
  <2>1. ept[e].recving_msg \in [src : Peers, num : Nat]
    BY <1>1, <1>2 DEF Fresh, Objects
  <2> QED BY <2>1, UdpAssumption DEF Messages, UdpAssumption
<1>5. h.ops["ok"] = 0
  <2>1. Live(h) \in Nat /\ Live(h) <= 0 /\ h.ops["pending"] \in Nat /\ h.ops["ok"] \in Nat
        /\ h.ops["refused"] \in Nat
    BY <1>2, <1>3, OpsType DEF Fresh
  <2> HIDE DEF h
  <2> QED BY <2>1 DEF Live
<1> HIDE DEF h, m
<1>6. /\ o \in Objects /\ o.ops = h.ops /\ o.socket = h.socket /\ o.server_flag = h.server_flag
      /\ o.recving_flag = h.recving_flag /\ o.recv_queue = h.recv_queue
      /\ o.send_queue = h.send_queue /\ o.active
  <2>1. 0 \in 0..MaxIdle
    BY UdpAssumption DEF UdpAssumption
  <2> QED BY <2>1, <1>3 DEF Objects
<1> HIDE DEF o
<1>7. /\ q \in Objects /\ q.ops = o.ops /\ q.socket = o.socket /\ q.server_flag = o.server_flag
      /\ q.recving_flag = o.recving_flag /\ Len(q.recv_queue) = Len(o.recv_queue) + 1
      /\ q.send_queue = o.send_queue /\ q.active
  <2>1. Append(o.recv_queue, m) \in Seq(Messages)
        /\ Len(Append(o.recv_queue, m)) = Len(o.recv_queue) + 1
    BY <1>4, <1>6 DEF Objects
  <2> QED BY <2>1, <1>6 DEF Objects
<1> HIDE DEF q
<1>8. /\ z \in Objects /\ z.ops = q.ops /\ z.socket = q.socket /\ z.server_flag = q.server_flag
      /\ ~z.recving_flag /\ z.recv_queue = q.recv_queue
      /\ z.send_queue = q.send_queue /\ z.active
  BY <1>7 DEF Objects
<1> HIDE DEF z
<1>9. /\ received' \in [Flows -> Nat] /\ delivered' \in [Flows -> SUBSET Nat]
      /\ todo' \subseteq endpoints /\ cur' \in endpoints \cup {None}
      /\ failed' \in BOOLEAN /\ errors' \in errors..MaxErrors /\ errors' = errors
  BY <1>1, Errors DEF UdpInv, Rest
<1>10. \A r \in {o, q, z} :
         /\ Sum(r) = Sum(ept[e]) - 1 /\ r.ops["ok"] = 0
         /\ r.ops["pending"] = ept[e].ops["pending"] /\ r.socket = ept[e].socket
         /\ r.server_flag = ept[e].server_flag /\ r.send_queue = ept[e].send_queue /\ r.active
         /\ Owed(r, pass) = Owed(ept[e], pass) /\ Excused(r, errors) = Excused(ept[e], errors)
         /\ r \in Objects /\ Open(r, errors, pass)
  <2> TAKE r \in {o, q, z}
  <2>1. /\ r.ops = h.ops /\ r.socket = ept[e].socket
        /\ r.server_flag = ept[e].server_flag /\ r.send_queue = ept[e].send_queue /\ r.active
        /\ r \in Objects
    BY <1>3, <1>6, <1>7, <1>8 DEF SameButOps, Untouched
  <2>2. Sum(r) = Sum(h)
    BY <2>1 DEF Sum, Live
  <2>3. Open(r, errors, pass)
    BY <2>1, <1>2, <1>3 DEF Sound, Open
  <2> QED BY <2>1, <2>2, <2>3, <1>3, <1>5 DEF Owed, Excused
<1>11. /\ Sum(ept[e]) \in Nat /\ Owed(ept[e], pass) \in Nat /\ Excused(ept[e], errors) \in Nat
       /\ Len(ept[e].recv_queue) \in Nat /\ MAX_UDP_MSG_QUEUE_SIZE \in Nat
  BY <1>2, OpsType, Errors, UdpAssumption DEF Owed, Excused, UdpAssumption
<1>12. /\ o.recv_queue = ept[e].recv_queue /\ o.recving_flag = ept[e].recving_flag
       /\ q.recving_flag = ept[e].recving_flag
       /\ Len(q.recv_queue) = Len(ept[e].recv_queue) + 1
       /\ Len(z.recv_queue) = Len(q.recv_queue)
  BY <1>3, <1>6, <1>7, <1>8 DEF SameButOps, Untouched
<1>13. ASSUME NEW b \in {o, q}, Over(b) <= Over(ept[e]), Over(b) \in Nat,
              ~b.recving_flag => Over(b) > 0,
              Becomes([ept EXCEPT ![e] = AsyncRecv(b)])
       PROVE  UdpInv'
  <2> DEFINE r == AsyncRecv(b)
  <2>1. /\ r \in Objects /\ SameButOps(b, r) /\ Sum(r) = Sum(b) + 1
        /\ r.ops["ok"] = b.ops["ok"] /\ Open(r, errors, pass)
    BY <1>10, AsyncRecvIs, AsyncRecvOpen
  <2> HIDE DEF r
  <2>2. Over(r) = Over(b) /\ Owed(r, pass) = Owed(b, pass) /\ Excused(r, errors) = Excused(b, errors)
    BY <2>1 DEF Over, Owed, Excused, SameButOps, Untouched
  <2>3. Sound(r, errors, pass)
    <3>2. Over(ept[e]) \in Nat
      BY <1>2, OpsType
    <3>3. Sum(r) + Owed(r, pass) + Over(r) <= 1 + Excused(r, errors)
      BY <3>2, <2>1, <2>2, <1>2, <1>10, <1>11, <1>13 DEF Sound
    <3>4. Sum(b) \in Nat
      BY <1>10, OpsType
    <3>5. /\ ~r.recving_flag => Over(r) > 0
          /\ Sum(r) >= 1 /\ Len(r.send_queue) <= MAX_UDP_MSG_QUEUE_SIZE
      BY <3>4, <2>1, <2>2, <1>2, <1>10, <1>13 DEF Sound, SameButOps, Untouched
    <3> QED BY <2>1, <3>3, <3>5 DEF Sound
  <2>4. /\ ept' = [ept EXCEPT ![e] = r] /\ fault' \in {"none", "shared"}
        /\ fault' = "none" => Live(r) <= 1
    BY <2>1, <1>13, BecomesOne DEF r
  <2>5. /\ r.server_flag = ept[e].server_flag /\ r.active /\ ~(r.ops["ok"] > 0)
    BY <2>1, <1>10 DEF SameButOps, Untouched
  <2>6. Sound(r, errors', pass)
    BY <2>3, <1>9
  <2> QED BY <1>1, <1>9, <2>1, <2>4, <2>5, <2>6, OneStep
<1>14. CASE Becomes([ept EXCEPT ![e] = AsyncRecv(o)])
  <2>1. Over(o) = Over(ept[e]) /\ Over(o) \in Nat /\ (~o.recving_flag => Over(o) > 0)
    BY <1>2, <1>6, <1>12, OpsType DEF Over, Sound
  <2> QED BY <2>1, <1>13, <1>14
<1>15. CASE ~QueueFull(q) /\ Becomes([ept EXCEPT ![e] = AsyncRecv(q)])
  <2>1. Over(q) = 0 /\ Over(ept[e]) = 0
    BY <1>11, <1>12, <1>15 DEF Over, QueueFull
  <2>2. q.recving_flag
    BY <2>1, <1>2, <1>12 DEF Sound
  <2> QED BY <2>1, <2>2, <1>13, <1>15
<1>16. CASE QueueFull(q) /\ Becomes([ept EXCEPT ![e] = z])
  <2>1. Over(z) = Over(ept[e]) + 1 /\ Over(ept[e]) \in Nat
    BY <1>11, <1>12, <1>16 DEF Over, QueueFull
  <2>2. Sound(z, errors, pass)
    <3>1. Sum(z) + Owed(z, pass) + Over(z) <= 1 + Excused(z, errors)
      BY <2>1, <1>2, <1>10, <1>11 DEF Sound
    <3>2. Open(z, errors, pass)
      BY <1>10
    <3>3. Len(z.send_queue) <= MAX_UDP_MSG_QUEUE_SIZE
      BY <1>2, <1>10 DEF Sound
    <3>4. Over(z) > 0
      BY <2>1
    <3> QED BY <3>1, <3>2, <3>3, <3>4, <1>8 DEF Sound
  <2>3. /\ ept' = [ept EXCEPT ![e] = z] /\ fault' \in {"none", "shared"}
        /\ fault' = "none" => Live(z) <= 1
    BY <1>8, <1>16, BecomesOne
  <2>4. /\ z.server_flag = ept[e].server_flag /\ z.active /\ ~(z.ops["ok"] > 0)
    BY <1>10
  <2>5. Sound(z, errors', pass)
    BY <2>2, <1>9
  <2> QED BY <1>1, <1>8, <1>9, <2>3, <2>4, <2>5, OneStep
<1> QED BY <1>1, <1>14, <1>15, <1>16

\* After connection_refused the receive is started again.
LEMMA HandleRecvRefusedKeeps ==
  ASSUME UdpInv, NEW e \in Peers, HandleRecvRefused(e) PROVE UdpInv'
<1> DEFINE h == Handled(ept[e], "refused")
           r == AsyncRecv(h)
<1>1. /\ fault = "none" /\ ept[e] # Gone /\ ept[e].ops["refused"] > 0
      /\ Becomes([ept EXCEPT ![e] = r])
      /\ UNCHANGED <<endpoints, new_epts, running_flag, pass, todo, cur, interval, received,
                     delivered, errors, failed, orphaned>>
  BY DEF HandleRecvRefused, Handles, routineVars, flowHistory
<1>2. ept[e] \in Objects /\ Sound(ept[e], errors, pass) /\ Fresh(ept[e])
  BY <1>1, Known
<1>3. /\ h \in Objects /\ SameButOps(ept[e], h) /\ Sum(h) = Sum(ept[e]) - 1
      /\ h.ops["pending"] = ept[e].ops["pending"] /\ h.ops["ok"] = ept[e].ops["ok"]
      /\ h.ops["err"] = ept[e].ops["err"]
  BY <1>1, <1>2, HandledIs DEF Results
<1> HIDE DEF h
<1>4. /\ r \in Objects /\ SameButOps(h, r) /\ Sum(r) = Sum(h) + 1 /\ r.ops["ok"] = h.ops["ok"]
      /\ Open(h, errors, pass) => Open(r, errors, pass)
  BY <1>3, AsyncRecvIs, AsyncRecvOpen
<1> HIDE DEF r
<1>5. SameButOps(ept[e], r) /\ Sum(r) = Sum(ept[e])
  <2>1. Sum(ept[e]) \in Nat
    BY <1>2, OpsType
  <2> QED BY <2>1, <1>3, <1>4 DEF SameButOps, Untouched
<1>6. Sound(r, errors, pass)
  <2>1. /\ Over(r) = Over(ept[e]) /\ Owed(r, pass) = Owed(ept[e], pass)
        /\ Excused(r, errors) = Excused(ept[e], errors)
    BY <1>5 DEF Over, Owed, Excused, SameButOps, Untouched
  <2>2. Open(r, errors, pass)
    BY <1>2, <1>3, <1>4 DEF Sound, Open, SameButOps, Untouched
  <2> QED BY <2>1, <2>2, <1>2, <1>5 DEF Sound, SameButOps, Untouched
<1>7. /\ ept' = [ept EXCEPT ![e] = r] /\ fault' \in {"none", "shared"}
      /\ fault' = "none" => Live(r) <= 1
  BY <1>1, <1>4, BecomesOne
<1>8. /\ r.server_flag = ept[e].server_flag /\ r.active = ept[e].active
      /\ r.ops["ok"] > 0 => r.recving_msg # None
  BY <1>2, <1>3, <1>4, <1>5 DEF SameButOps, Untouched, Fresh
<1>9. /\ received' \in [Flows -> Nat] /\ delivered' \in [Flows -> SUBSET Nat]
      /\ todo' \subseteq endpoints /\ cur' \in endpoints \cup {None}
      /\ failed' \in BOOLEAN /\ errors' \in errors..MaxErrors /\ errors' = errors
  BY <1>1, Errors DEF UdpInv, Rest
<1>10. Sound(r, errors', pass)
  BY <1>6, <1>9
<1> QED BY <1>1, <1>4, <1>7, <1>8, <1>9, <1>10, OneStep

\* An endpoint is stopped after an error, and a server's is started again.
LEMMA RestartKeeps ==
  ASSUME UdpInv, fault = "none", NEW e \in Peers, ept[e] # Gone, NEW h \in Objects,
         Untouched(ept[e], h), h.ops["ok"] = ept[e].ops["ok"], Restart(e, h),
         errors' \in errors..MaxErrors, errors' > 0 \/ pass \in {"stop", "ended"},
         Sum(h) + Over(h) + (IF h.server_flag THEN 1 ELSE 0) <= 1 + Excused(h, errors'),
         UNCHANGED <<endpoints, new_epts, running_flag, pass, interval, received, delivered,
                     orphaned>>,
         todo' \subseteq endpoints, cur' \in endpoints \cup {None}
  PROVE  UdpInv'
<1>1. PICK o \in {Restarted(h)} \cup RestartFailures(h) :
        /\ Becomes([ept EXCEPT ![e] = o])
        /\ (o = Restarted(h) /\ failed' = failed) \/ failed' = TRUE
  BY DEF Restart
<1>2. ept[e] \in Objects /\ Sound(ept[e], errors, pass) /\ Fresh(ept[e])
  BY Known
<1>3. Over(h) = Over(ept[e])
  BY DEF Over, Untouched
<1>4. /\ ~h.recving_flag => Over(h) > 0
      /\ Len(h.send_queue) <= MAX_UDP_MSG_QUEUE_SIZE
  BY <1>2, <1>3 DEF Untouched, Sound
<1>5. errors' \in Nat
  BY Errors
<1>6. /\ o \in Objects /\ Sound(o, errors', pass) /\ Untouched(h, o)
      /\ o.ops["ok"] = h.ops["ok"]
      /\ o = Restarted(h) /\ h.server_flag => o.active
  <2>1. /\ o \in {Restarted(h)} \cup RestartFailures(h)
        /\ errors' > 0 \/ pass \in {"stop", "ended"}
        /\ Sum(h) + Over(h) + (IF h.server_flag THEN 1 ELSE 0) <= 1 + Excused(h, errors')
    BY <1>1
  <2> QED BY <2>1, <1>4, <1>5, RestartedIs
<1>7. /\ ept' = [ept EXCEPT ![e] = o] /\ fault' \in {"none", "shared"}
      /\ fault' = "none" => Live(o) <= 1
  BY <1>1, <1>6, BecomesOne
<1>8. /\ o.server_flag = ept[e].server_flag
      /\ o.ops["ok"] > 0 => o.recving_msg # None
  BY <1>2, <1>6 DEF Untouched, Fresh
<1>9. failed \in BOOLEAN
  BY DEF UdpInv, Rest
<1>10. /\ failed => failed'
       /\ failed' \in BOOLEAN
       /\ ~failed' /\ o.server_flag /\ ept[e].active => o.active \/ pass \in {"stop", "ended"}
  <2>1. o.server_flag = h.server_flag
    BY <1>6 DEF Untouched
  <2>2. o = Restarted(h) \/ failed' = TRUE
    BY <1>1
  <2>3. failed' \in {failed, TRUE}
    BY <1>1, Zenon
  <2>4. failed => failed'
    BY <2>3, Zenon
  <2>5. failed' \in BOOLEAN
    BY <2>3, <1>9, Zenon
  <2> QED BY <1>6, <2>1, <2>2, <2>4, <2>5, Zenon
<1>11. received' \in [Flows -> Nat] /\ delivered' \in [Flows -> SUBSET Nat]
  BY DEF UdpInv, Rest
<1> QED BY <1>6, <1>7, <1>8, <1>10, <1>11, OneStep

\* A receive has failed.
LEMMA HandleRecvErrKeeps ==
  ASSUME UdpInv, NEW e \in Peers, HandleRecvErr(e) PROVE UdpInv'
<1>1. PICK h : h = Handled(ept[e], "err")
  OBVIOUS
<1>2. /\ fault = "none" /\ ept[e] # Gone /\ ept[e].ops["err"] > 0 /\ Restart(e, h)
      /\ UNCHANGED <<endpoints, new_epts, running_flag, pass, todo, cur, interval, received,
                     delivered, errors, orphaned>>
  BY <1>1 DEF HandleRecvErr, Handles, routineVars, flowHistory
<1>3. ept[e] \in Objects /\ Sound(ept[e], errors, pass)
  BY <1>2, Known
<1>4. /\ h \in Objects /\ SameButOps(ept[e], h) /\ Sum(h) = Sum(ept[e]) - 1
      /\ h.ops["ok"] = ept[e].ops["ok"]
  BY <1>1, <1>2, <1>3, HandledIs DEF Results
<1>5. Sum(h) + Over(h) + (IF h.server_flag THEN 1 ELSE 0) <= 1 + Excused(h, errors')
  <2>1. /\ Over(h) = Over(ept[e]) /\ Excused(h, errors') = Excused(ept[e], errors)
    BY <1>2, <1>4 DEF Over, Excused, SameButOps, Untouched
  <2>2. /\ Sum(ept[e]) \in Nat /\ Over(ept[e]) \in Nat /\ Owed(ept[e], pass) \in Nat
        /\ Excused(ept[e], errors) \in Nat
    BY <1>3, Errors, OpsType DEF Owed, Excused
  <2>3. Sum(ept[e]) + Owed(ept[e], pass) + Over(ept[e]) <= 1 + Excused(ept[e], errors)
    BY <1>3 DEF Sound
  <2> QED BY <2>1, <2>2, <2>3, <1>4
<1>6. /\ errors' \in errors..MaxErrors
      /\ (errors' > 0 \/ pass \in {"stop", "ended"})
      /\ todo' \subseteq endpoints /\ cur' \in endpoints \cup {None}
  BY <1>2, <1>3, Errors DEF UdpInv, Rest, Sound, Open
<1> QED BY <1>2, <1>4, <1>5, <1>6, RestartKeeps DEF SameButOps

\* A datagram cannot be sent.
LEMMA SendFailsKeeps == ASSUME UdpInv, SendFails PROVE UdpInv'
<1>1. PICK e \in Peers : e = cur /\ ept[e] # Gone
  BY Errors DEF SendFails, UdpInv, Rest, Made
<1>2. /\ fault = "none" /\ Restart(e, ept[e]) /\ pass = "send"
      /\ \/ ept[e].socket = "closed" /\ errors' = errors
         \/ errors < MaxErrors /\ errors' = errors + 1
      /\ cur' = None
      /\ UNCHANGED <<endpoints, new_epts, running_flag, pass, todo, interval, received,
                     delivered, orphaned>>
  BY <1>1 DEF SendFails, flowHistory
<1>3. ept[e] \in Objects /\ Sound(ept[e], errors, pass)
  BY <1>1, <1>2, Known
<1>4. Untouched(ept[e], ept[e])
  BY DEF Untouched
<1>5. PICK h : h = ept[e]
  OBVIOUS
<1>6. Sum(h) + Over(h) + (IF h.server_flag THEN 1 ELSE 0) <= 1 + Excused(h, errors')
  <2>1. /\ Sum(h) \in Nat /\ Over(h) \in Nat /\ Owed(h, pass) \in Nat /\ errors \in Nat
        /\ Sum(h) + Owed(h, pass) + Over(h) <= 1 + Excused(h, errors)
    BY <1>3, <1>5, Errors, OpsType DEF Owed, Sound
  <2>2. CASE ~h.server_flag
    BY <2>1, <2>2 DEF Excused
  <2>3. CASE h.server_flag /\ errors' = errors + 1
    BY <2>1, <2>3 DEF Excused
  <2>4. CASE h.server_flag /\ h.socket = "closed" /\ errors' = errors
    <3>1. Owed(h, pass) = 1
      BY <1>2, <2>4 DEF Owed
    <3> QED BY <3>1, <2>1, <2>4 DEF Excused
  <2> QED BY <1>2, <1>5, <2>2, <2>3, <2>4
<1>7. /\ errors' \in errors..MaxErrors
      /\ (errors' > 0 \/ pass \in {"stop", "ended"})
      /\ todo' \subseteq endpoints /\ cur' \in endpoints \cup {None}
  BY <1>2, <1>3, Errors DEF UdpInv, Rest, Sound, Open
<1>8. /\ h \in Objects /\ Untouched(ept[e], h) /\ h.ops["ok"] = ept[e].ops["ok"]
      /\ Restart(e, h)
  BY <1>2, <1>3, <1>4, <1>5
<1> QED BY <1>1, <1>2, <1>6, <1>7, <1>8, RestartKeeps

\* A step that leaves the receives alone.
LEMMA QuietStep ==
  ASSUME UdpInv, fault = "none", NEW e \in Peers, ept[e] # Gone, NEW o \in Objects,
         Quiet(ept[e], o), Len(o.send_queue) <= MAX_UDP_MSG_QUEUE_SIZE,
         ept' = [ept EXCEPT ![e] = o],
         UNCHANGED <<endpoints, new_epts, running_flag, pass, interval, received, errors,
                     failed, orphaned, fault>>,
         todo' \subseteq endpoints, cur' \in endpoints \cup {None},
         delivered' \in [Flows -> SUBSET Nat]
  PROVE  UdpInv'
<1>1. ept[e] \in Objects /\ Sound(ept[e], errors, pass) /\ Fresh(ept[e])
  BY Known
<1>2. Sound(o, errors, pass) /\ Fresh(o)
  BY <1>1, QuietKeeps
<1>3. /\ fault' \in {"none", "shared"} /\ Live(o) <= 1
      /\ o.ops["ok"] > 0 => o.recving_msg # None
  BY <1>2 DEF Fresh
<1>4. /\ errors' \in errors..MaxErrors /\ Sound(o, errors', pass)
      /\ received' \in [Flows -> Nat]
  BY <1>2, Errors DEF UdpInv, Rest
<1>5. failed' \in BOOLEAN /\ (failed => failed')
  BY Zenon DEF UdpInv, Rest
<1>6. o.server_flag = ept[e].server_flag /\ o.active = ept[e].active
  BY DEF Quiet, Calm
<1>7. ~failed' /\ o.server_flag /\ ept[e].active => o.active \/ pass \in {"stop", "ended"}
  BY <1>6
<1> QED BY <1>3, <1>4, <1>5, <1>6, <1>7, OneStep

\* An endpoint is locked and given credit.
LEMMA EnterKeeps == ASSUME UdpInv, NEW e \in Peers, Enter(e) PROVE UdpInv'
<1>1. /\ fault = "none" /\ e \in todo /\ cur' = e /\ todo' = todo \ {e}
      /\ ept' = [ept EXCEPT ![e] = Credited(@)] \/ ept' = ept
      /\ UNCHANGED <<endpoints, new_epts, running_flag, pass, interval, received, delivered,
                     errors, failed, orphaned, fault>>
  BY DEF Enter, flowHistory
<1>2. ept[e] # Gone /\ e \in endpoints
  BY <1>1, Errors DEF UdpInv, Rest, Made
<1>3. ept[e] \in Objects /\ Sound(ept[e], errors, pass)
  BY <1>2, Known
<1>4. PICK o \in Objects : /\ Quiet(ept[e], o) /\ o.send_queue = ept[e].send_queue
                           /\ ept' = [ept EXCEPT ![e] = o]
  <2>1. CASE ept' = [ept EXCEPT ![e] = Credited(@)]
    <3>1. interval \in Nat
      BY DEF UdpInv, Rest
    <3> QED BY <2>1, <3>1, <1>3, CreditedIs
  <2>2. CASE ept' = ept
    <3>1. ept' = [ept EXCEPT ![e] = ept[e]]
      BY <2>2 DEF UdpInv, AllSound
    <3> QED BY <3>1, <1>3 DEF Quiet, Calm
  <2> QED BY <1>1, <2>1, <2>2
<1>5. Len(o.send_queue) <= MAX_UDP_MSG_QUEUE_SIZE
  BY <1>3, <1>4 DEF Sound
<1>6. /\ todo' \subseteq endpoints /\ cur' \in endpoints \cup {None}
      /\ delivered' \in [Flows -> SUBSET Nat]
  BY <1>1, <1>2 DEF UdpInv, Rest
<1> QED BY <1>1, <1>2, <1>4, <1>5, <1>6, QuietStep

\* A datagram goes out.
LEMMA SendKeeps == ASSUME UdpInv, Send PROVE UdpInv'
<1>1. PICK e \in Peers : e = cur /\ ept[e] # Gone
  BY Errors DEF Send, UdpInv, Rest, Made
<1>2. PICK o : o = Sent(ept[e])
  OBVIOUS
<1>3. PICK m : m = Head(ept[e].send_queue)
  OBVIOUS
<1>4. /\ fault = "none" /\ ept[e].send_queue # <<>>
      /\ pass = "send" /\ ept[e].socket # "closed"
      /\ ept' = [ept EXCEPT ![e] = o]
      /\ delivered' = [delivered EXCEPT ![<<e, m.dst>>] = @ \cup {m.num}]
      /\ UNCHANGED <<endpoints, new_epts, running_flag, pass, todo, cur, interval, received,
                     errors, failed, orphaned, fault>>
  BY <1>1, <1>2, <1>3 DEF Send, MaySend, routineVars
<1>5. ept[e] \in Objects /\ Sound(ept[e], errors, pass) /\ Fresh(ept[e])
  BY <1>1, <1>4, Known
<1>6. /\ o \in Objects /\ Calm(ept[e], o) /\ o.socket = "bound"
      /\ Len(o.send_queue) = Len(ept[e].send_queue) - 1
  BY <1>2, <1>4, <1>5, SentIs
<1>7. Len(o.send_queue) <= MAX_UDP_MSG_QUEUE_SIZE
  <2>1. /\ Len(ept[e].send_queue) \in Nat /\ MAX_UDP_MSG_QUEUE_SIZE \in Nat
        /\ Len(ept[e].send_queue) <= MAX_UDP_MSG_QUEUE_SIZE
    BY <1>5, OpsType, UdpAssumption DEF Sound, UdpAssumption
  <2> QED BY <2>1, <1>6
<1>8. delivered' \in [Flows -> SUBSET Nat]
  <2>1. m.num \in Nat
    <3>1. ept[e].send_queue \in Seq([dst : Peers, num : Nat])
      BY <1>5 DEF Objects
    <3>2. m \in [dst : Peers, num : Nat]
      BY <1>3, <1>4, <3>1, HeadIs
    <3> QED BY <3>2
  <2> QED BY <2>1, <1>4 DEF UdpInv, Rest
<1>9. Sound(o, errors', pass)
  BY <1>4, <1>5, <1>6, <1>7, Errors, SentSound
<1>10. /\ o.server_flag = ept[e].server_flag /\ o.active = ept[e].active
       /\ fault' \in {"none", "shared"} /\ Live(o) <= 1
       /\ o.ops["ok"] > 0 => o.recving_msg # None
  BY <1>4, <1>5, <1>6 DEF Calm, Fresh, Live
<1>11. /\ todo' \subseteq endpoints /\ cur' \in endpoints \cup {None}
       /\ received' \in [Flows -> Nat] /\ errors' \in errors..MaxErrors
  BY <1>4, Errors DEF UdpInv, Rest
<1>12. failed' \in BOOLEAN /\ (failed => failed')
  BY <1>4, Zenon DEF UdpInv, Rest
<1> QED BY <1>1, <1>4, <1>6, <1>8, <1>9, <1>10, <1>11, <1>12, OneStep

\* At the end an endpoint is stopped.
LEMMA StopKeeps == ASSUME UdpInv, NEW e \in Peers, Stop(e) PROVE UdpInv'
<1>1. PICK o : o = Stopped(ept[e])
  OBVIOUS
<1>2. /\ fault = "none" /\ pass = "stop" /\ e \in todo /\ todo' = todo \ {e}
      /\ ept' = [ept EXCEPT ![e] = o]
      /\ UNCHANGED <<endpoints, new_epts, running_flag, pass, cur, interval, received,
                     delivered, errors, failed, orphaned, fault>>
  BY <1>1 DEF Stop, flowHistory
<1>3. ept[e] # Gone /\ e \in endpoints
  BY <1>2, Errors DEF UdpInv, Rest, Made
<1>4. ept[e] \in Objects /\ Sound(ept[e], errors, pass) /\ Fresh(ept[e])
  BY <1>2, <1>3, Known
<1>5. /\ o \in Objects /\ Untouched(ept[e], o) /\ o.socket = "closed"
      /\ o.ops["pending"] = 0 /\ o.ops["ok"] = ept[e].ops["ok"]
      /\ Sum(o) = Sum(ept[e]) - ept[e].ops["pending"]
      /\ Live(o) = Live(ept[e]) - ept[e].ops["pending"]
  BY <1>1, <1>4, StoppedIs
<1>6. /\ Sum(ept[e]) \in Nat /\ Live(ept[e]) \in Nat /\ ept[e].ops["pending"] \in Nat
      /\ Over(ept[e]) \in Nat /\ Owed(ept[e], pass) = 0 /\ Excused(ept[e], errors) \in Nat
  BY <1>2, <1>4, OpsType, Errors DEF Owed, Excused
<1>7. /\ Over(o) = Over(ept[e]) /\ Owed(o, pass) = 0
      /\ Excused(o, errors) = Excused(ept[e], errors)
  BY <1>2, <1>5 DEF Over, Owed, Excused, Untouched
<1>8. Sound(o, errors, pass)
  <2>1. Open(o, errors, pass)
    BY <1>2, <1>5 DEF Open
  <2> QED BY <2>1, <1>4, <1>5, <1>6, <1>7 DEF Sound, Untouched
<1>9. /\ fault' \in {"none", "shared"} /\ Live(o) <= 1
      /\ o.ops["ok"] > 0 => o.recving_msg # None
  BY <1>2, <1>4, <1>5, <1>6 DEF Fresh, Untouched
<1>10. /\ todo' \subseteq endpoints /\ cur' \in endpoints \cup {None}
       /\ received' \in [Flows -> Nat] /\ delivered' \in [Flows -> SUBSET Nat]
       /\ errors' \in errors..MaxErrors /\ Sound(o, errors', pass)
  BY <1>2, <1>8, Errors DEF UdpInv, Rest
<1>11. failed' \in BOOLEAN /\ (failed => failed')
  BY <1>2, Zenon DEF UdpInv, Rest
<1>12. o.server_flag = ept[e].server_flag
  BY <1>5 DEF Untouched
<1> QED BY <1>2, <1>3, <1>5, <1>9, <1>10, <1>11, <1>12, OneStep

\* What the routine locks has a queue of datagrams from peers.
LEMMA Front ==
  ASSUME UdpInv, cur # None, MayRecv(ept[cur])
  PROVE  /\ cur \in Peers /\ cur \in endpoints /\ ept[cur] # Gone
         /\ ept[cur].recv_queue # <<>> /\ Head(ept[cur].recv_queue) \in Messages
<1>1. cur \in Peers /\ cur \in endpoints /\ ept[cur] # Gone
  BY Errors DEF UdpInv, Rest, Made
<1>2. ept[cur].recv_queue \in Seq(Messages) /\ ept[cur].recv_queue # <<>>
  BY <1>1, Known DEF Objects, MayRecv
<1> QED BY <1>1, <1>2, HeadIs

\* A step that keeps the endpoints of the table as active as they are.
LEMMA ServersAll ==
  ASSUME UdpInv, endpoints \subseteq endpoints', failed => failed',
         pass \in {"stop", "ended"} => pass' \in {"stop", "ended"},
         \A s \in endpoints : /\ ept'[s].server_flag = ept[s].server_flag
                              /\ ept'[s].active = ept[s].active
  PROVE  ServersKept'
<1> SUFFICES ASSUME ~failed', NEW s \in Servers
             PROVE  /\ s \in endpoints' /\ ept'[s].server_flag
                    /\ ept'[s].active \/ pass' \in {"stop", "ended"}
  BY DEF ServersKept
<1>1. /\ s \in endpoints /\ ept[s].server_flag
      /\ ept[s].active \/ pass \in {"stop", "ended"}
  BY DEF UdpInv, ServersKept
<1> QED BY <1>1

\* A datagram is passed on.
LEMMA PassOnKeeps == ASSUME UdpInv, PassOn PROVE UdpInv'
<1>1. PICK e, m : e = cur /\ m = Head(ept[e].recv_queue)
  OBVIOUS
<1>2. PICK s : s = m.src
  OBVIOUS
<1>3. PICK o : o = Popped(ept[e])
  OBVIOUS
<1>4. PICK u : u = Used(ept[s])
  OBVIOUS
<1>5. PICK x : x = Given(u, m, e)
  OBVIOUS
<1>6. /\ fault = "none" /\ cur # None /\ MayRecv(ept[cur]) /\ s # e /\ s \in endpoints
      /\ Becomes([ept EXCEPT ![e] = o, ![s] = x])
      /\ UNCHANGED <<endpoints, new_epts, running_flag, pass, todo, cur, interval, received,
                     delivered, errors, failed, orphaned>>
  <2>1. [ept EXCEPT ![cur] = Popped(@), ![m.src] = Given(Used(@), m, cur)]
        = [ept EXCEPT ![e] = o, ![s] = x]
    BY <1>1, <1>2, <1>3, <1>4, <1>5 DEF PassOn
  <2> QED BY <1>1, <1>2, <2>1 DEF PassOn, routineVars, flowHistory
<1>7. /\ e \in Peers /\ e \in endpoints /\ ept[e] # Gone /\ ept[e].recv_queue # <<>>
      /\ m \in Messages
  BY <1>1, <1>6, Front
<1>8. s \in Peers /\ ept[s] # Gone
  BY <1>6, Errors DEF Made
<1>9. /\ ept[e] \in Objects /\ Sound(ept[e], errors, pass) /\ Fresh(ept[e]) /\ errors \in Nat
      /\ ept[s] \in Objects /\ Sound(ept[s], errors, pass) /\ Fresh(ept[s])
  BY <1>6, <1>7, <1>8, Known, Errors
<1>10. /\ o \in Objects /\ Sound(o, errors, pass)
       /\ o.server_flag = ept[e].server_flag /\ o.active = ept[e].active
       /\ o.recving_msg = ept[e].recving_msg /\ o.ops["ok"] = ept[e].ops["ok"]
  BY <1>3, <1>7, <1>9, PoppedIs
<1>11. u \in Objects /\ Quiet(ept[s], u) /\ u.send_queue = ept[s].send_queue
  BY <1>4, <1>9, UsedIs
<1>12. Sound(u, errors, pass) /\ Fresh(u)
  BY <1>9, <1>11, QuietKeeps DEF Sound
<1>13. x \in Objects /\ Quiet(u, x) /\ Len(x.send_queue) <= MAX_UDP_MSG_QUEUE_SIZE
  BY <1>5, <1>7, <1>11, <1>12, GivenIs DEF Sound
<1>14. Sound(x, errors, pass) /\ Fresh(x)
  BY <1>12, <1>13, QuietKeeps
<1>15. /\ ept' = [ept EXCEPT ![e] = o, ![s] = x] /\ fault' \in {"none", "shared"}
       /\ fault' = "none" => Live(o) <= 1 /\ Live(x) <= 1
  BY <1>6, <1>7, <1>8, <1>10, <1>13, BecomesTwo
<1>16. AllSound' /\ Made' = Made
  <2>1. Excusing
    BY <1>6, <1>9 DEF Excusing
  <2>2. fault' = "none" => Fresh(o) /\ Fresh(x)
    BY <1>9, <1>10, <1>14, <1>15 DEF Fresh
  <2>3. Made \cup {e, s} = Made
    BY <1>7, <1>8 DEF Made
  <2>4. Sound(o, errors', pass') /\ Sound(x, errors', pass')
    BY <1>6, <1>10, <1>14
  <2> QED BY <2>1, <2>2, <2>3, <2>4, <1>6, <1>7, <1>8, <1>10, <1>13, <1>15, ChangeTwo DEF UdpInv
<1>17. Rest'
  BY <1>6, <1>15, <1>16 DEF UdpInv, Rest
<1>18. ServersKept'
  <2> SUFFICES ASSUME NEW d \in endpoints
               PROVE  ept'[d].server_flag = ept[d].server_flag /\ ept'[d].active = ept[d].active
    BY <1>6, ServersAll
  <2>1. d \in Peers /\ ept \in [Peers -> Objects \cup {Gone}]
    BY Errors DEF UdpInv, AllSound
  <2>2. CASE d = e
    BY <2>1, <2>2, <1>6, <1>10, <1>15
  <2>3. CASE d = s
    BY <2>1, <2>3, <1>6, <1>11, <1>13, <1>15 DEF Quiet, Calm
  <2>4. CASE d # e /\ d # s
    BY <2>1, <2>4, <1>15
  <2> QED BY <2>2, <2>3, <2>4
<1> QED BY <1>16, <1>17, <1>18 DEF UdpInv

\* A client's endpoint with a closed socket, nothing queued and one handler at most.
LEMMA IdleClientIs ==
  ASSUME NEW r \in Objects, NEW n, n > 0, NEW p, r.recv_queue = <<>>, r.recving_flag,
         ~r.server_flag, r.socket = "closed", r.ops["pending"] = 0, r.ops["ok"] = 0,
         Sum(r) <= 1, Live(r) <= 1, Len(r.send_queue) <= MAX_UDP_MSG_QUEUE_SIZE
  PROVE  Sound(r, n, p) /\ Fresh(r)
<1>1. Len(r.recv_queue) = 0 /\ MAX_UDP_MSG_QUEUE_SIZE \in Nat
  BY UdpAssumption DEF UdpAssumption
<1>2. Over(r) = 0 /\ Owed(r, p) = 0 /\ Excused(r, n) = 0
  BY <1>1 DEF Over, Owed, Excused
<1>3. Sum(r) \in Nat
  BY OpsType
<1>4. Open(r, n, p)
  BY DEF Open
<1> QED BY <1>2, <1>3, <1>4 DEF Sound, Fresh

\* A new endpoint whose first receive failed before the constructor set active_tm.
LEMMA StoppedNewIs ==
  ASSUME NEW r, r = [Stopped(Inited(Blank(FALSE))) EXCEPT !.active = TRUE], NEW n \in Nat, n > 0, NEW p
  PROVE  r \in Objects /\ Sound(r, n, p) /\ Fresh(r)
<1>1. PICK i : i = Inited(Blank(FALSE))
  OBVIOUS
<1>2. i \in Objects /\ Sound(i, n, p) /\ ~i.server_flag
  BY <1>1, NewIs
<1>3. PICK b : b = Blank(FALSE)
  OBVIOUS
<1>4. /\ b \in Objects /\ b.recv_queue = <<>> /\ b.recving_flag /\ b.ops["ok"] = 0
      /\ Sum(b) = 0 /\ Live(b) = 0
  BY <1>3, BlankIs
<1>5. Untouched(b, i) /\ i.ops["ok"] = 0 /\ Sum(i) = 1 /\ Live(i) \in {0, 1}
  <2>1. /\ Untouched(b, i) /\ i.ops["ok"] = b.ops["ok"]
        /\ Sum(i) = Sum(b) + 1 /\ Live(i) \in {Live(b), Live(b) + 1}
    BY <1>1, <1>3, <1>4, InitedIs
  <2> QED BY <2>1, <1>4
<1>6. PICK s : s = Stopped(i)
  OBVIOUS
<1>7. /\ s \in Objects /\ Untouched(i, s) /\ s.socket = "closed" /\ s.ops["pending"] = 0
      /\ s.ops["ok"] = 0
      /\ Sum(s) = Sum(i) - i.ops["pending"] /\ Live(s) = Live(i) - i.ops["pending"]
  BY <1>2, <1>5, <1>6, StoppedIs
<1>8. r = [s EXCEPT !.active = TRUE]
  BY <1>1, <1>6
<1>9. /\ r \in Objects /\ Untouched(s, r) /\ r.socket = "closed" /\ r.ops = s.ops
  BY <1>7, <1>8 DEF Objects, Untouched
<1>10. Sum(r) = Sum(s) /\ Live(r) = Live(s)
  BY <1>9 DEF Sum, Live
<1>11. i.ops["pending"] \in Nat
  BY <1>2, OpsType
<1>12. r.recv_queue = <<>> /\ r.recving_flag /\ ~r.server_flag /\ r.send_queue = i.send_queue
  <2>1. r.recv_queue = <<>> /\ r.send_queue = i.send_queue
    BY <1>4, <1>5, <1>7, <1>9 DEF Untouched
  <2>2. r.recving_flag = b.recving_flag /\ r.server_flag = i.server_flag
    BY <1>5, <1>7, <1>9, Zenon DEF Untouched
  <2> QED BY <2>1, <2>2, <1>2, <1>4
<1>13. Sum(r) <= 1 /\ Live(r) <= 1
  BY <1>5, <1>7, <1>10, <1>11
<1>14. r.ops["pending"] = 0 /\ r.ops["ok"] = 0
  BY <1>7, <1>9
<1>15. Len(r.send_queue) <= MAX_UDP_MSG_QUEUE_SIZE
  BY <1>2, <1>12 DEF Sound
<1> QED BY <1>9, <1>12, <1>13, <1>14, <1>15, IdleClientIs

\* A datagram is passed on to an endpoint that is made for it, or lost when none can be.
LEMMA PassOnToNewKeeps == ASSUME UdpInv, PassOnToNew PROVE UdpInv'
<1>1. PICK e, m : e = cur /\ m = Head(ept[e].recv_queue)
  OBVIOUS
<1>2. PICK s : s = m.src
  OBVIOUS
<1>3. PICK o : o = Popped(ept[e])
  OBVIOUS
<1>4. PICK a, b : /\ a = Inited(Blank(FALSE))
                  /\ b = [Stopped(Inited(Blank(FALSE))) EXCEPT !.active = TRUE]
  OBVIOUS
<1>5. /\ fault = "none" /\ cur # None /\ MayRecv(ept[cur]) /\ s # e /\ s \notin endpoints
      /\ \/ /\ \E y \in {a, b} : /\ y = a \/ errors' = errors + 1
                                /\ Becomes([ept EXCEPT ![e] = o, ![s] = Given(y, m, e)])
            /\ new_epts' = new_epts \cup {s} /\ orphaned' = (orphaned \/ Queued(ept[s]))
            /\ failed' = failed
         \/ /\ Becomes([ept EXCEPT ![e] = o]) /\ new_epts' = new_epts
            /\ orphaned' = orphaned /\ failed' = TRUE
      /\ errors' = errors \/ (errors < MaxErrors /\ errors' = errors + 1)
      /\ UNCHANGED <<endpoints, running_flag, pass, todo, cur, interval, received, delivered>>
  <2>1. \A y : [ept EXCEPT ![cur] = Popped(@), ![m.src] = Given(y, m, cur)]
               = [ept EXCEPT ![e] = o, ![s] = Given(y, m, e)]
    BY <1>1, <1>2, <1>3
  <2>2. [ept EXCEPT ![cur] = Popped(@)] = [ept EXCEPT ![e] = o]
    BY <1>1, <1>3
  <2> QED BY <1>1, <1>2, <1>4, <2>1, <2>2 DEF PassOnToNew, routineVars, flowHistory
<1>6. /\ e \in Peers /\ e \in endpoints /\ ept[e] # Gone /\ ept[e].recv_queue # <<>>
      /\ m \in Messages
  BY <1>1, <1>5, Front
<1>7. s \in Peers
  BY <1>2, <1>6 DEF Messages
<1>8. ept[e] \in Objects /\ Sound(ept[e], errors, pass) /\ Fresh(ept[e]) /\ errors \in Nat
  BY <1>5, <1>6, Known, Errors
<1>9. /\ errors' \in 0..MaxErrors /\ errors' \in Nat /\ errors' >= errors
      /\ Excusing
  BY <1>5, Errors DEF Excusing, UdpInv, Rest
<1>10. /\ o \in Objects /\ Sound(o, errors', pass')
       /\ o.server_flag = ept[e].server_flag /\ o.active = ept[e].active
       /\ o.recving_msg = ept[e].recving_msg /\ o.ops["ok"] = ept[e].ops["ok"]
  <2>1. /\ o \in Objects /\ Sound(o, errors, pass)
        /\ o.server_flag = ept[e].server_flag /\ o.active = ept[e].active
        /\ o.recving_msg = ept[e].recving_msg /\ o.ops["ok"] = ept[e].ops["ok"]
    <3>1. /\ ept[e] \in Objects /\ errors \in Nat /\ Sound(ept[e], errors, pass)
          /\ ept[e].recv_queue # <<>> /\ o = Popped(ept[e])
      BY <1>3, <1>6, <1>8
    <3> QED BY <3>1, PoppedIs
  <2> QED BY <2>1, <1>5, <1>8, <1>9, SoundStays
<1>11. \A y \in {a, b} : y = a \/ errors' = errors + 1 =>
                           y \in Objects /\ Sound(y, errors', pass') /\ Fresh(y)
  <2>1. a \in Objects /\ Sound(a, errors', pass') /\ Fresh(a)
    BY <1>4, <1>9, NewIs
  <2>2. errors' = errors + 1 => b \in Objects /\ Sound(b, errors', pass') /\ Fresh(b)
    <3>1. errors' = errors + 1 => errors' > 0
      BY <1>8
    <3> QED BY <3>1, <1>4, <1>9, StoppedNewIs
  <2> QED BY <2>1, <2>2
<1>12. ASSUME NEW y \in {a, b}, y = a \/ errors' = errors + 1,
              Becomes([ept EXCEPT ![e] = o, ![s] = Given(y, m, e)])
       PROVE  \E x \in Objects :
                 /\ ept' = [ept EXCEPT ![e] = o, ![s] = x] /\ fault' \in {"none", "shared"}
                 /\ AllSound' /\ Made' = Made \cup {s}
  <2>1. PICK x : x = Given(y, m, e)
    OBVIOUS
  <2>2. x \in Objects /\ Quiet(y, x) /\ Len(x.send_queue) <= MAX_UDP_MSG_QUEUE_SIZE
    BY <2>1, <1>6, <1>11, <1>12, GivenIs DEF Sound
  <2>3. Sound(x, errors', pass') /\ Fresh(x)
    BY <2>2, <1>11, <1>12, QuietKeeps
  <2>4. /\ ept' = [ept EXCEPT ![e] = o, ![s] = x] /\ fault' \in {"none", "shared"}
        /\ fault' = "none" => Live(o) <= 1 /\ Live(x) <= 1
    BY <2>1, <2>2, <1>5, <1>6, <1>7, <1>10, <1>12, BecomesTwo
  <2>5. fault' = "none" => Fresh(o) /\ Fresh(x)
    BY <2>3, <2>4, <1>8, <1>10 DEF Fresh
  <2>6. AllSound' /\ Made' = Made \cup {e, s}
    BY <2>2, <2>3, <2>4, <2>5, <1>5, <1>6, <1>7, <1>9, <1>10, ChangeTwo DEF UdpInv
  <2>7. Made \cup {e, s} = Made \cup {s}
    BY <1>6 DEF Made
  <2> QED BY <2>2, <2>4, <2>6, <2>7
<1>13. failed \in BOOLEAN /\ orphaned \in BOOLEAN
  BY DEF UdpInv, Rest
<1>14. failed' \in BOOLEAN /\ (failed => failed')
  <2>1. failed' = failed \/ failed' = TRUE
    BY <1>5, Zenon
  <2> QED BY <2>1, <1>13, Zenon
<1>15. orphaned' \in BOOLEAN
  <2>1. orphaned' = orphaned \/ orphaned' = (orphaned \/ Queued(ept[s]))
    BY <1>5, Zenon
  <2> QED BY <2>1, <1>13, Zenon
<1>16. /\ AllSound' /\ endpoints' \cup new_epts' = Made' /\ endpoints' \cap new_epts' = {}
       /\ fault' \in {"none", "shared"}
       /\ \A d \in endpoints : /\ ept'[d].server_flag = ept[d].server_flag
                               /\ ept'[d].active = ept[d].active
  <2>0. /\ ept \in [Peers -> Objects \cup {Gone}] /\ endpoints \subseteq Peers
        /\ endpoints \cup new_epts = Made /\ endpoints \cap new_epts = {}
    BY Errors DEF UdpInv, AllSound, Rest
  <2>1. CASE /\ \E y \in {a, b} : /\ y = a \/ errors' = errors + 1
                                  /\ Becomes([ept EXCEPT ![e] = o, ![s] = Given(y, m, e)])
             /\ new_epts' = new_epts \cup {s}
    <3>1. PICK x \in Objects :
                 /\ ept' = [ept EXCEPT ![e] = o, ![s] = x] /\ fault' \in {"none", "shared"}
                 /\ AllSound' /\ Made' = Made \cup {s}
      BY <2>1, <1>12
    <3>2. endpoints' \cup new_epts' = Made' /\ endpoints' \cap new_epts' = {}
      BY <2>0, <2>1, <3>1, <1>5
    <3>3. \A d \in endpoints : ept'[d] = IF d = e THEN o ELSE ept[d]
      BY <2>0, <3>1, <1>5
    <3> QED BY <3>1, <3>2, <3>3, <1>10
  <2>2. CASE Becomes([ept EXCEPT ![e] = o]) /\ new_epts' = new_epts
    <3>1. /\ ept' = [ept EXCEPT ![e] = o] /\ fault' \in {"none", "shared"}
          /\ fault' = "none" => Live(o) <= 1
      BY <2>2, <1>6, <1>10, BecomesOne
    <3>2. fault' = "none" => Fresh(o)
      BY <3>1, <1>8, <1>10 DEF Fresh
    <3>3. AllSound' /\ Made' = Made
      <4>1. Made \cup {e} = Made
        BY <1>6, Known
      <4> QED BY <4>1, <3>1, <3>2, <1>6, <1>9, <1>10, ChangeOne DEF UdpInv
    <3>4. \A d \in endpoints : ept'[d] = IF d = e THEN o ELSE ept[d]
      BY <2>0, <3>1
    <3> QED BY <2>0, <2>2, <3>1, <3>3, <3>4, <1>5, <1>10
  <2> QED BY <2>1, <2>2, <1>5
<1>17. Rest'
  <2>1. /\ running_flag' \in BOOLEAN /\ pass' \in {"sleep", "recv", "send", "stop", "ended"}
        /\ todo' \subseteq endpoints' /\ cur' \in endpoints' \cup {None} /\ interval' \in Nat
        /\ received' \in [Flows -> Nat] /\ delivered' \in [Flows -> SUBSET Nat]
    BY <1>5 DEF UdpInv, Rest
  <2> QED BY <2>1, <1>9, <1>14, <1>15, <1>16 DEF Rest
<1>18. ServersKept'
  BY <1>5, <1>14, <1>16, ServersAll
<1> QED BY <1>16, <1>17, <1>18 DEF UdpInv

\* A pass begins: an endpoint gets older, and the datagrams in its queue come closer to
\* the end of their delay.
LEMMA AgedIs ==
  ASSUME NEW o \in Objects, NEW d \in Nat, NEW i \in 0..MaxIdle, NEW r,
         r = [o EXCEPT !.idle = i, !.recv_queue = Waited(@, d)]
  PROVE  r \in Objects /\ Quiet(o, r) /\ r.send_queue = o.send_queue
<1>1. PICK q : q = Waited(o.recv_queue, d)
  OBVIOUS
<1>2. o.recv_queue \in Seq(Messages)
  BY DEF Objects
<1>3. q \in Seq(Messages) /\ Len(q) = Len(o.recv_queue)
  <2>1. PICK n \in Nat : n = Len(o.recv_queue) /\ DOMAIN o.recv_queue = 1..n
    BY <1>2
  <2>2. \A k \in 1..n : q[k] \in Messages
    <3> TAKE k \in 1..n
    <3>1. PICK m \in Messages : m = o.recv_queue[k]
      BY <1>2, <2>1
    <3>2. q[k] = [m EXCEPT !.wait = Aged(m.wait, d)]
      BY <1>1, <2>1, <3>1 DEF Waited
    <3>3. m.wait \in Nat
      BY DEF Messages
    <3>4. Aged(m.wait, d) \in Nat
      BY <3>3 DEF Aged
    <3> QED BY <3>2, <3>4 DEF Messages
  <2>3. DOMAIN q = 1..n /\ q = [k \in 1..n |-> q[k]]
    BY <1>1, <2>1 DEF Waited
  <2>4. q \in [1..n -> Messages]
    BY <2>2, <2>3
  <2> QED BY <2>1, <2>4
<1>4. r = [o EXCEPT !.idle = i, !.recv_queue = q]
  BY <1>1
<1> QED BY <1>3, <1>4 DEF Objects, Quiet, Calm

LEMMA WakeKeeps == ASSUME UdpInv, NEW d \in Steps, Wake(d) PROVE UdpInv'
<1>0. d \in Nat
  BY UdpAssumption DEF UdpAssumption
<1>1. /\ fault = "none" /\ pass = "sleep" /\ pass' = "recv" /\ todo' = endpoints
      /\ interval' = d
      /\ UNCHANGED <<endpoints, new_epts, running_flag, cur, received, delivered, errors,
                     failed, orphaned, fault>>
  BY DEF Wake, flowHistory
<1>2. /\ ept' = [e \in Peers |-> ept'[e]]
      /\ \A e \in Peers : ept[e] = Gone => ept'[e] = Gone
  BY DEF Wake
<1>3. \A e \in Made : /\ ept'[e] \in Objects /\ Quiet(ept[e], ept'[e])
                      /\ Sound(ept'[e], errors, pass) /\ Fresh(ept'[e])
  <2> SUFFICES ASSUME NEW e \in Peers, ept[e] # Gone
               PROVE  /\ ept'[e] \in Objects /\ Quiet(ept[e], ept'[e])
                      /\ Sound(ept'[e], errors, pass) /\ Fresh(ept'[e])
    BY DEF Made
  <2>1. ept[e] \in Objects /\ Sound(ept[e], errors, pass) /\ Fresh(ept[e])
    BY <1>1, Known
  <2>2. PICK i : i = IF ~ept[e].active THEN 0
                     ELSE IF ept[e].idle + d < MaxIdle THEN ept[e].idle + d ELSE MaxIdle
    OBVIOUS
  <2>3. i \in 0..MaxIdle
    <3>1. ept[e].idle \in 0..MaxIdle /\ MaxIdle \in Nat
      BY <2>1, UdpAssumption DEF Objects, UdpAssumption
    <3> QED BY <1>0, <2>2, <3>1
  <2>4. PICK o \in Objects : o = ept[e]
    BY <2>1
  <2>6. ept'[e] = [o EXCEPT !.idle = i, !.recv_queue = Waited(@, d)]
    BY <2>2, <2>4 DEF Wake
  <2>5. ept'[e] \in Objects /\ Quiet(ept[e], ept'[e]) /\ ept'[e].send_queue = ept[e].send_queue
    <3>1. PICK r : r = ept'[e]
      OBVIOUS
    <3>2. r = [o EXCEPT !.idle = i, !.recv_queue = Waited(@, d)]
      BY <3>1, <2>6
    <3>3. r \in Objects /\ Quiet(o, r) /\ r.send_queue = o.send_queue
      BY <1>0, <2>3, <3>2, AgedIs
    <3> QED BY <3>1, <3>3, <2>4
  <2> QED BY <2>1, <2>5, QuietKeeps DEF Sound
<1>4. Made' = Made
  BY <1>2, <1>3, NothingAssumption DEF Made, NothingAssumption
<1>5. AllSound'
  <2>1. ept' \in [Peers -> Objects \cup {Gone}]
    BY <1>2, <1>3 DEF Made
  <2>2. \A e \in Made : Sound(ept'[e], errors', pass')
    <3> TAKE e \in Made
    <3>1. ept'[e] \in Objects /\ Sound(ept'[e], errors, pass) /\ errors \in Nat
      BY <1>3, Errors
    <3> QED BY <3>1, <1>1, SoundStays
  <2>3. \A e \in Made' : Sound(ept[e], errors, pass)' /\ Fresh(ept[e])'
    BY <1>3, <1>4, <2>2
  <2> QED BY <2>1, <2>3 DEF AllSound
<1>6. Rest'
  BY <1>0, <1>1, <1>4 DEF UdpInv, Rest
<1>7. ServersKept'
  <2>1. \A s \in endpoints : /\ ept'[s].server_flag = ept[s].server_flag
                             /\ ept'[s].active = ept[s].active
    BY <1>3, Errors DEF Quiet, Calm
  <2>2. (failed => failed') /\ (pass \in {"stop", "ended"} => pass' \in {"stop", "ended"})
    BY <1>1
  <2> QED BY <1>1, <2>1, <2>2, ServersAll
<1> QED BY <1>5, <1>6, <1>7 DEF UdpInv

\* An endpoint is erased: not a server's.
LEMMA EraseKeeps == ASSUME UdpInv, NEW e \in Peers, Erase(e) PROVE UdpInv'
<1>1. /\ fault = "none" /\ pass = "recv" /\ cur = None /\ e \in todo /\ Expired(ept[e])
      /\ todo' = todo \ {e} /\ endpoints' = endpoints \ {e}
      /\ ept' = [ept EXCEPT ![e] = Gone]
      /\ orphaned' = (orphaned \/ Queued(ept[e]))
      /\ UNCHANGED <<new_epts, running_flag, pass, cur, interval, received, delivered,
                     errors, failed, fault>>
  BY DEF Erase, flowHistory
<1>2. /\ endpoints \cup new_epts = Made /\ endpoints \cap new_epts = {}
      /\ todo \subseteq endpoints /\ orphaned \in BOOLEAN
  BY DEF UdpInv, Rest
<1>3. AllSound' /\ Made' = Made \ {e}
  <2>1. ept' = [d \in Peers |-> IF d \in {e} THEN Gone ELSE ept[d]]
    BY <1>1 DEF UdpInv, AllSound
  <2>2. Excusing
    BY <1>1, Errors DEF Excusing
  <2> QED BY <2>1, <2>2, ChangeNone DEF UdpInv
<1>4. orphaned' \in BOOLEAN
  BY <1>1, <1>2, Zenon
<1>5. Rest'
  <2>1. endpoints' \cup new_epts' = Made' /\ endpoints' \cap new_epts' = {}
        /\ todo' \subseteq endpoints'
    BY <1>1, <1>2, <1>3
  <2> QED BY <1>1, <1>4, <2>1 DEF UdpInv, Rest
<1>6. ServersKept'
  <2> SUFFICES ASSUME ~failed', NEW s \in Servers
               PROVE  /\ s \in endpoints' /\ ept'[s].server_flag
                      /\ ept'[s].active \/ pass' \in {"stop", "ended"}
    BY DEF ServersKept
  <2>1. s \in endpoints /\ ept[s].server_flag /\ ept[s].active /\ s \in Peers
    BY <1>1, Errors DEF UdpInv, ServersKept
  <2>2. s # e
    BY <1>1, <2>1 DEF Expired
  <2>3. ept'[s] = ept[s]
    BY <1>1, <2>1, <2>2 DEF UdpInv, AllSound
  <2> QED BY <1>1, <2>1, <2>2, <2>3
<1> QED BY <1>3, <1>5, <1>6 DEF UdpInv

\* A step that changes no endpoint.
LEMMA NoneKeeps ==
  ASSUME UdpInv, UNCHANGED <<ept, received, delivered, errors, failed, orphaned>>,
         endpoints' \cup new_epts' = endpoints \cup new_epts,
         endpoints' \cap new_epts' = {}, endpoints \subseteq endpoints',
         running_flag' \in BOOLEAN, pass' \in {"sleep", "recv", "send", "stop", "ended"},
         pass \in {"stop", "ended"} => pass' \in {"stop", "ended"},
         todo' \subseteq endpoints', cur' \in endpoints' \cup {None}, interval' \in Nat,
         fault' \in {"none", "assert", "dangling", "shared"},
         fault' = "none" => fault = "none"
  PROVE  UdpInv'
<1>1. Excusing
  BY Errors DEF Excusing
<1>2. AllSound' /\ Made' = Made
  <2>1. ept' = [e \in Peers |-> IF e \in {} THEN Gone ELSE ept[e]]
    BY DEF UdpInv, AllSound
  <2>2. {} \in SUBSET Peers /\ Made \ {} = Made
    OBVIOUS
  <2> QED BY <1>1, <2>1, <2>2, ChangeNone DEF UdpInv
<1>3. Rest'
  BY <1>2 DEF UdpInv, Rest
<1>4. ServersKept'
  BY ServersAll
<1> QED BY <1>2, <1>3, <1>4 DEF UdpInv

LEMMA OthersKeep ==
  ASSUME UdpInv,
         \/ HandlerAfterErase \/ AssertionFails \/ Leave \/ NextLoop \/ Shutdown
         \/ StopBegins \/ UNCHANGED udpVars
  PROVE  UdpInv'
<1>0. /\ endpoints \cap new_epts = {} /\ running_flag \in BOOLEAN
      /\ pass \in {"sleep", "recv", "send", "stop", "ended"}
      /\ todo \subseteq endpoints /\ cur \in endpoints \cup {None} /\ interval \in Nat
      /\ fault \in {"none", "assert", "dangling", "shared"}
  BY DEF UdpInv, Rest
<1>1. CASE HandlerAfterErase
  BY <1>0, <1>1, NoneKeeps DEF HandlerAfterErase, routineVars, flowHistory
<1>2. CASE AssertionFails
  BY <1>0, <1>2, NoneKeeps DEF AssertionFails, routineVars, flowHistory
<1>3. CASE Leave
  BY <1>0, <1>3, NoneKeeps DEF Leave, flowHistory
<1>4. CASE NextLoop
  <2>1. /\ endpoints' = endpoints \cup new_epts /\ new_epts' = {} /\ interval' = 0
        /\ todo' \subseteq endpoints'
        /\ UNCHANGED <<ept, running_flag, cur, received, delivered, errors, failed, orphaned,
                       fault>>
    BY <1>4 DEF NextLoop, flowHistory
  <2>2. /\ pass' \in {"sleep", "recv", "send", "stop", "ended"}
        /\ pass \in {"stop", "ended"} => pass' \in {"stop", "ended"}
    BY <1>4 DEF NextLoop
  <2>3. cur' \in endpoints' \cup {None} /\ interval' \in Nat
    BY <1>0, <2>1
  <2> QED BY <1>0, <2>1, <2>2, <2>3, NoneKeeps
<1>5. CASE Shutdown
  <2>1. running_flag' \in BOOLEAN
    BY <1>5, Zenon DEF Shutdown
  <2> QED BY <1>0, <1>5, <2>1, NoneKeeps DEF Shutdown, routineVars, flowHistory
<1>6. CASE StopBegins
  BY <1>0, <1>6, NoneKeeps DEF StopBegins, flowHistory
<1>7. CASE UNCHANGED udpVars
  BY <1>0, <1>7, NoneKeeps DEF udpVars, routineVars, flowHistory
<1> QED BY <1>1, <1>2, <1>3, <1>4, <1>5, <1>6, <1>7

LEMMA UdpStep == UdpInv /\ [Next]_udpVars => UdpInv'
<1> SUFFICES ASSUME UdpInv, [Next]_udpVars PROVE UdpInv'
  OBVIOUS
<1>1. CASE \E f \in Flows : Arrive(f)
  BY <1>1, ArriveKeeps
<1>2. CASE \E e \in Peers, r \in {"refused", "err"} : RecvFails(e, r)
  BY <1>2, RecvFailsKeeps
<1>3. CASE \E e \in Peers : HandleRecv(e)
  BY <1>3, HandleRecvOkKeeps, HandleRecvRefusedKeeps, HandleRecvErrKeeps DEF HandleRecv
<1>4. CASE Routine
  <2>1. CASE \E d \in Steps : Wake(d)
    BY <2>1, WakeKeeps
  <2>2. CASE \E e \in Peers : Erase(e) \/ Enter(e) \/ Stop(e)
    BY <2>2, EraseKeeps, EnterKeeps, StopKeeps
  <2>3. CASE PassOn \/ PassOnToNew \/ Send \/ SendFails
    BY <2>3, PassOnKeeps, PassOnToNewKeeps, SendKeeps, SendFailsKeeps
  <2>4. CASE AssertionFails \/ Leave \/ NextLoop \/ StopBegins
    BY <2>4, OthersKeep
  <2> QED BY <1>4, <2>1, <2>2, <2>3, <2>4 DEF Routine
<1>5. CASE HandlerAfterErase \/ Shutdown \/ UNCHANGED udpVars
  BY <1>5, OthersKeep
<1>6. CASE Terminated
  BY <1>6, OthersKeep DEF Terminated
<1> QED BY <1>1, <1>2, <1>3, <1>4, <1>5, <1>6 DEF Next
-----------------------------------------------------------------------------
\* The invariant that the properties of the relay rest on: receives, restarts that are
\* owed and datagrams over the limit share one slot, and one more for each error of
\* a server's endpoint.
THEOREM UdpInductive == Spec => []UdpInv
BY UdpInit, UdpStep, PTL DEF Spec

\* The types of the relay: the table and the endpoints found in a pass stay apart and are
\* all that exist, and what the routine thread has locked is in the table.
THEOREM UdpTypes == Spec => []TypeOK
<1>1. UdpInv => TypeOK
  <2> SUFFICES ASSUME UdpInv PROVE TypeOK
    OBVIOUS
  <2>1. \A e \in Made : ept[e].ops["pending"] > 0 => ept[e].socket # "closed"
    BY DEF UdpInv, AllSound, Sound, Open
  <2> QED BY <2>1 DEF UdpInv, AllSound, Rest, TypeOK
<1> QED BY <1>1, UdpInductive, PTL

\* handleRecv, init() and the routine start receives into one recving_msg: an endpoint
\* has one receive at a time, and a bound socket has it unless receiving is paused;
\* only a server's endpoint whose receive or send has failed may have more.
THEOREM OneReceiveHolds == Spec => []OneReceive
<1>1. UdpInv => OneReceive
  <2> SUFFICES ASSUME UdpInv, NEW e \in Made, ~(ept[e].server_flag /\ errors > 0)
               PROVE  /\ Live(ept[e]) + ept[e].ops["err"] <= 1
                      /\ ept[e].socket = "bound" =>
                           (ept[e].recving_flag <=> Live(ept[e]) + ept[e].ops["err"] = 1)
    BY DEF OneReceive
  <2>1. PICK o \in Objects : o = ept[e] /\ Sound(o, errors, pass)
    BY DEF UdpInv, AllSound, Made
  <2>2. Excused(o, errors) = 0
    BY <2>1, Errors DEF Excused
  <2>3. Sum(o) \in Nat /\ Over(o) \in Nat /\ Owed(o, pass) \in Nat
    BY OpsType DEF Owed
  <2>4. Sum(o) <= 1 /\ (Over(o) > 0 => Sum(o) = 0)
    BY <2>1, <2>2, <2>3 DEF Sound
  <2>5. o.socket = "bound" => (o.recving_flag <=> Sum(o) = 1)
    BY <2>1, <2>3, <2>4, Errors DEF Sound
  <2> QED BY <2>1, <2>4, <2>5 DEF Sum
<1> QED BY <1>1, UdpInductive, PTL

\* handleRecv pauses receiving above the limit and the routine drops at it: both queues of
\* an endpoint are bounded by it, but for one datagram and one for each error of a
\* server's endpoint.
THEOREM QueuesBounded == Spec => []QueueBound
<1>1. UdpInv => QueueBound
  <2> SUFFICES ASSUME UdpInv, NEW e \in Made
               PROVE  /\ Len(ept[e].recv_queue) <=
                           MAX_UDP_MSG_QUEUE_SIZE + 1
                             + (IF ept[e].server_flag THEN errors ELSE 0)
                      /\ Len(ept[e].send_queue) <= MAX_UDP_MSG_QUEUE_SIZE
    BY DEF QueueBound
  <2>1. PICK o \in Objects : o = ept[e] /\ Sound(o, errors, pass)
    BY DEF UdpInv, AllSound, Made
  <2>2. /\ Sum(o) \in Nat /\ Over(o) \in Nat /\ Owed(o, pass) \in Nat
        /\ Len(o.recv_queue) \in Nat /\ Excused(o, errors) \in Nat
    BY OpsType, Errors DEF Owed, Excused
  <2>3. Over(o) <= 1 + Excused(o, errors)
    BY <2>1, <2>2 DEF Sound
  <2>4. MAX_UDP_MSG_QUEUE_SIZE \in Nat
    BY UdpAssumption DEF UdpAssumption
  <2>5. Len(o.recv_queue) <= MAX_UDP_MSG_QUEUE_SIZE + 1 + Excused(o, errors)
    BY <2>2, <2>3, <2>4 DEF Over
  <2> QED BY <2>1, <2>5 DEF Sound, Excused
<1> QED BY <1>1, UdpInductive, PTL

\* The comment on server_flag: the endpoint of a server is in the table, however long it
\* is silent, unless an init() has failed.
THEOREM ServersRemain == Spec => []ServersStay
<1>1. UdpInv => ServersStay
  BY DEF UdpInv, ServersKept, ServersStay
<1> QED BY <1>1, UdpInductive, PTL
=============================================================================
