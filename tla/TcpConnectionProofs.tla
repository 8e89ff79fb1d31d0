------------------------- MODULE TcpConnectionProofs -------------------------
(***************************************************************************)
(* Proofs about TcpConnection for every value of its constants: the        *)
(* inductive invariant and the invariants it contains; that every step of  *)
(* a connection is a step of its two pipes or leaves them alone, so that   *)
(* it implements RelayPipe; and that with a bandwidth each direction       *)
(* implements Throttle, from which the rate bound follows.                 *)
(***************************************************************************)
EXTENDS TcpConnectionRate, SequenceTheorems, TLAPS

\* AtLeast bounds a number from below (the clamp of a message's wait).
LEMMA AtLeastInt == ASSUME NEW x \in Int, NEW low \in Int
                    PROVE  AtLeast(x, low) \in Int /\ AtLeast(x, low) >= low
BY DEF AtLeast

\* AtMost bounds a number from above (where idle saturates).
LEMMA AtMostInt == ASSUME NEW x \in Int, NEW high \in Int
                   PROVE  AtMost(x, high) \in Int /\ AtMost(x, high) <= high
BY DEF AtMost

\* The bytes that an interval is worth are a whole number.
LEMMA CreditInt == ASSUME NEW bytes \in Int, NEW d \in Int
                   PROVE  Credit(bytes, d) \in Int
<1>1. d * bytes \in Int
  OBVIOUS
<1> QED BY <1>1 DEF Credit

\* Appending to a queue and popping its front message.
LEMMA AppendMessage ==
  ASSUME NEW s \in Seq(Messages), NEW m \in Messages
  PROVE  /\ Append(s, m) \in Seq(Messages)
         /\ Len(Append(s, m)) = Len(s) + 1
         /\ Append(s, m) # <<>>
BY AppendProperties

\* Popping the front message of a queue.
LEMMA PopMessage ==
  ASSUME NEW s \in Seq(Messages), s # <<>>
  PROVE  /\ Head(s) \in Messages
         /\ Tail(s) \in Seq(Messages)
         /\ Len(Tail(s)) = Len(s) - 1
         /\ Len(s) > 0
BY EmptySeq, HeadTailProperties

\* A sequence is empty exactly when its length is 0.
LEMMA EmptyLen == ASSUME NEW s \in Seq(Messages)
                  PROVE  /\ Len(s) \in Nat
                         /\ (s = <<>>) <=> (Len(s) = 0)
BY EmptySeq, LenProperties

\* The clock moves: the queues keep their messages, only the waits change.
LEMMA AgedQueue ==
  ASSUME NEW s \in Seq(Messages), NEW d \in Int, MaxLag \in Int
  PROVE  /\ AgedSeq(s, d) \in Seq(Messages)
         /\ Len(AgedSeq(s, d)) = Len(s)
         /\ \A i \in 1..Len(s) : AgedSeq(s, d)[i].size = s[i].size
         /\ Ids(AgedSeq(s, d)) = Ids(s)
<1>1. DOMAIN s = 1..Len(s)
  OBVIOUS
<1>2. \A i \in 1..Len(s) : /\ s[i] \in Messages
                           /\ [s[i] EXCEPT !.wait = AtLeast(@ - d, -MaxLag)] \in Messages
                           /\ [s[i] EXCEPT !.wait = AtLeast(@ - d, -MaxLag)].id = s[i].id
                           /\ [s[i] EXCEPT !.wait = AtLeast(@ - d, -MaxLag)].size = s[i].size
  <2> TAKE i \in 1..Len(s)
  <2>1. s[i] \in Messages
    BY ElementOfSeq
  <2>2. s[i].wait - d \in Int /\ -MaxLag \in Int
    BY <2>1 DEF Messages
  <2>3. AtLeast(s[i].wait - d, -MaxLag) \in Int
    BY <2>2, AtLeastInt
  <2> QED BY <2>1, <2>3 DEF Messages
<1>3. AgedSeq(s, d) = [i \in 1..Len(s) |-> [s[i] EXCEPT !.wait = AtLeast(@ - d, -MaxLag)]]
  BY <1>1 DEF AgedSeq
<1>4. AgedSeq(s, d) \in [1..Len(s) -> Messages]
  BY <1>2, <1>3
<1>5. AgedSeq(s, d) \in Seq(Messages) /\ Len(AgedSeq(s, d)) = Len(s)
  BY <1>4
<1>6. Ids(AgedSeq(s, d)) = Ids(s)
  BY <1>1, <1>2, <1>3 DEF Ids
<1> QED BY <1>2, <1>3, <1>5, <1>6
-----------------------------------------------------------------------------
\* The constants, one by one.
LEMMA Constants ==
  /\ max_bandwidth \in Nat /\ delay_ms \in Nat /\ tcp_timeout \in Nat
  /\ TCP_PACKET_EXTRA_OVERHEAD \in Nat /\ MAX_TCP_MSG_QUEUE_SIZE \in Nat
  /\ MaxChunks \in Nat /\ MaxIdle \in Nat /\ MaxLag \in Nat
  /\ ip_bandwidth[0] \in Nat /\ ip_bandwidth[1] \in Nat
  /\ Sizes \subseteq Nat \ {0} /\ Steps \subseteq Int /\ IpSteps \subseteq Nat
BY ConstantsAssumption DEF ConstantsAssumption, Pair

\* What handleWrite charges for a message is a whole number.
LEMMA CostInt == ASSUME NEW m \in Messages
                 PROVE  /\ Cost(m) \in Nat
                        /\ Cost(m) = m.size + TCP_PACKET_EXTRA_OVERHEAD
                        /\ m.size \in Sizes
<1>1. m.size \in Sizes
  BY DEF Messages
<1>2. m.size \in Nat
  BY <1>1, Constants
<1> QED BY <1>1, <1>2, Constants DEF Cost

\* What the second half of handleWrite does to the sockets it tries: it starts
\* a write exactly where it sets writing_flag, and only of a queued message.
LEMMA StartWritesEffect ==
  ASSUME TypeOK, NEW S \in SUBSET Pair,
         NEW q \in [Pair -> Seq(Messages)], NEW avail \in [Pair -> Int],
         StartWrites(S, q, avail)
  PROVE  /\ writing_flag' \in [Pair -> BOOLEAN]
         /\ write_op' \in [Pair -> Ops]
         /\ available_bytes' \in [Pair -> Int]
         /\ avail_ip' \in [Pair -> Int]
         /\ \A p \in S : /\ write_op'[p] \in {"none", NewOp}
                         /\ write_op'[p] # "none" <=> writing_flag'[p]
                         /\ write_op'[p] # "none" => q[p] # <<>>
         /\ \A p \in Pair \ S : write_op'[p] = write_op[p] /\ (writing_flag'[p] <=> writing_flag[p])
<1> DEFINE go == {p \in S : MayWrite(p, q, avail) /\ IpAllows(p)}
<1>1. /\ writing_flag' = [p \in Pair |-> WritingAfter(p, S, go)]
      /\ write_op' = [p \in Pair |-> IF p \in go THEN NewOp
                                     ELSE IF p \in S THEN "none" ELSE write_op[p]]
      /\ available_bytes' =
           [p \in Pair |-> IF p \in go /\ max_bandwidth > 0
                           THEN avail[p] - Cost(Head(q[p])) ELSE avail[p]]
      /\ avail_ip' =
           [i \in Pair |-> IF (1-i) \in go /\ ip_bandwidth[i] > 0
                           THEN avail_ip[i] - Cost(Head(q[1-i])) ELSE avail_ip[i]]
  BY DEF StartWrites
<1>2. \A p \in go : p \in Pair /\ p \in S /\ q[p] # <<>> /\ Cost(Head(q[p])) \in Nat
  <2> TAKE p \in go
  <2>1. p \in Pair /\ q[p] # <<>> /\ q[p] \in Seq(Messages)
    BY DEF MayWrite
  <2> QED BY <2>1, PopMessage, CostInt
<1>3. NewOp \in {"pending", "err"}
  BY DEF NewOp
<1>4. \A p \in Pair : WritingAfter(p, S, go) \in BOOLEAN
  BY DEF WritingAfter
<1>5. writing_flag' \in [Pair -> BOOLEAN]
  BY <1>1, <1>4
<1>6. write_op' \in [Pair -> Ops]
  BY <1>1, <1>3 DEF TypeOK, Ops
<1>7. available_bytes' \in [Pair -> Int]
  BY <1>1, <1>2
<1>8. avail_ip' \in [Pair -> Int]
  <2>1. avail_ip \in [Pair -> Int]
    BY DEF TypeOK
  <2> QED BY <1>1, <1>2, <2>1
<1>9. ASSUME NEW p \in S
      PROVE  /\ write_op'[p] \in {"none", NewOp}
             /\ write_op'[p] # "none" <=> writing_flag'[p]
             /\ write_op'[p] # "none" => q[p] # <<>>
  <2>1. writing_flag'[p] = (p \in go)
    BY <1>1, <1>9 DEF WritingAfter
  <2>2. write_op'[p] = IF p \in go THEN NewOp ELSE "none"
    BY <1>1, <1>9
  <2> HIDE DEF go
  <2> QED BY <2>1, <2>2, <1>2, <1>3
<1>10. ASSUME NEW p \in Pair \ S
       PROVE  write_op'[p] = write_op[p] /\ (writing_flag'[p] <=> writing_flag[p])
  BY <1>1, <1>10 DEF WritingAfter
<1> QED BY <1>5, <1>6, <1>7, <1>8, <1>9, <1>10
-----------------------------------------------------------------------------
(* Each action preserves the inductive invariant.                          *)

\* A new connection satisfies the invariant.
LEMMA InitIInv == Init => IInv
<1> SUFFICES ASSUME Init PROVE IInv
  OBVIOUS
<1> USE DEF Init, Both
<1>1. msg_queue \in [Pair -> Seq(Messages)] /\ sent \in [Pair -> Seq(1..MaxChunks)]
  OBVIOUS
<1>2. Len(<<>>) = 0
  OBVIOUS
<1>3. TypeOK
  <2>1. 0 \in 0..MaxChunks /\ lag \in 0..MaxLag /\ idle \in Int /\ idle <= MaxIdle
    BY Constants
  <2>2. close_flag \in BOOLEAN /\ full_open \in BOOLEAN /\ listed \in BOOLEAN
        /\ proxy_closed \in BOOLEAN
    OBVIOUS
  <2>3. writing_flag \in [Pair -> BOOLEAN] /\ reading_flag \in [Pair -> BOOLEAN]
    OBVIOUS
  <2>4. available_bytes \in [Pair -> Int] /\ avail_ip \in [Pair -> Int]
        /\ got \in [Pair -> 0..MaxChunks]
    BY <2>1
  <2>5. connect_op \in Ops /\ read_op \in [Pair -> Ops \cup {"eof"}] /\ write_op \in [Pair -> Ops]
    BY DEF Ops
  <2>6. fault \in {"none", "thrown", "dangling"}
    OBVIOUS
  <2> QED BY <1>1, <2>1, <2>2, <2>3, <2>4, <2>5, <2>6 DEF TypeOK
<1>4. ReadsBounded /\ WriteInFlight /\ ClosedIsQuiet /\ HalfOpenHasData
  BY DEF ReadsBounded, WriteInFlight, ClosedIsQuiet, HalfOpenHasData
<1>5. ConnectingIsIdle
  BY DEF ConnectingIsIdle, Drained, Pair
<1>6. QueueBound /\ Backpressure
  BY <1>2, Constants DEF QueueBound, Backpressure, QueueFull, Pair
<1> QED BY <1>3, <1>4, <1>5, <1>6 DEF IInv

\* The end of the connect changes only connect_op.
LEMMA ConnectDoneIInv ==
  ASSUME IInv, NEW r \in {"ok", "err"}, ConnectDone(r) PROVE IInv'
<1> USE DEF ConnectDone, flags, budget, clock, world
<1>1. TypeOK'
  BY DEF IInv, TypeOK, Ops
<1>2. ReadsBounded' /\ WriteInFlight' /\ QueueBound' /\ ConnectingIsIdle'
  BY DEF IInv, ReadsBounded, WriteInFlight, QueueBound, ConnectingIsIdle, Drained
<1>3. Backpressure' /\ HalfOpenHasData' /\ ClosedIsQuiet'
  BY DEF IInv, Backpressure, QueueFull, HalfOpenHasData, Drained, ClosedIsQuiet
<1> QED BY <1>1, <1>2, <1>3 DEF IInv

\* The end of a read changes only read_op, and brings a chunk only within the bound.
LEMMA ReadDoneIInv ==
  ASSUME IInv, NEW p \in Pair, NEW r \in {"ok", "eof", "err"}, ReadDone(p, r)
  PROVE  IInv'
<1> USE DEF ReadDone, flags, budget, clock, world
<1>1. TypeOK'
  BY DEF IInv, TypeOK, Ops
<1>2. read_op' = [read_op EXCEPT ![p] = r] /\ read_op \in [Pair -> Ops \cup {"eof"}]
  BY DEF IInv, TypeOK
<1>3. ReadsBounded' /\ WriteInFlight' /\ QueueBound' /\ ConnectingIsIdle'
  BY <1>2 DEF IInv, ReadsBounded, WriteInFlight, QueueBound, ConnectingIsIdle, Drained
<1>4. Backpressure' /\ HalfOpenHasData' /\ ClosedIsQuiet'
  BY <1>2 DEF IInv, Backpressure, QueueFull, HalfOpenHasData, Drained, ClosedIsQuiet
<1> QED BY <1>1, <1>3, <1>4 DEF IInv

\* The end of a write needs a message at the front of its queue.
LEMMA WriteDoneIInv ==
  ASSUME IInv, NEW p \in Pair, NEW r \in {"ok", "err"}, WriteDone(p, r)
  PROVE  IInv'
<1> USE DEF WriteDone, flags, budget, clock, world
<1>1. write_op' = [write_op EXCEPT ![p] = r] /\ write_op \in [Pair -> Ops]
  BY DEF IInv, TypeOK
<1>2. sent' \in [Pair -> Seq(1..MaxChunks)]
  <2>1. Head(msg_queue[p]).id \in 1..MaxChunks
    <3>1. msg_queue[p] # <<>> /\ msg_queue[p] \in Seq(Messages)
      BY DEF IInv, WriteInFlight, TypeOK
    <3>2. Head(msg_queue[p]) \in Messages
      BY <3>1, PopMessage
    <3> QED BY <3>2 DEF Messages
  <2>2. sent \in [Pair -> Seq(1..MaxChunks)]
    BY DEF IInv, TypeOK
  <2>3. Append(sent[p], Head(msg_queue[p]).id) \in Seq(1..MaxChunks)
    BY <2>1, <2>2, AppendProperties
  <2> QED BY <2>2, <2>3
<1>3. TypeOK'
  BY <1>1, <1>2 DEF IInv, TypeOK, Ops
<1>4. ReadsBounded' /\ WriteInFlight' /\ QueueBound' /\ ConnectingIsIdle'
  BY <1>1 DEF IInv, ReadsBounded, WriteInFlight, QueueBound, ConnectingIsIdle, Drained
<1>5. Backpressure' /\ HalfOpenHasData' /\ ClosedIsQuiet'
  BY <1>1 DEF IInv, Backpressure, QueueFull, HalfOpenHasData, Drained, ClosedIsQuiet
<1> QED BY <1>3, <1>4, <1>5 DEF IInv

\* What stop() does, the operations being c, r and w when it is called.
LEMMA StopEffect ==
  ASSUME NEW c \in Ops, NEW r \in [Pair -> Ops \cup {"eof"}], NEW w \in [Pair -> Ops],
         Stop(c, r, w)
  PROVE  /\ close_flag' = TRUE
         /\ connect_op' \in Ops \ {"pending"}
         /\ connect_op' # "none" => c # "none"
         /\ read_op' \in [Pair -> Ops \cup {"eof"}] /\ write_op' \in [Pair -> Ops]
         /\ \A p \in Pair : /\ read_op'[p] # "pending" /\ write_op'[p] # "pending"
                            /\ read_op'[p] \in {"none", r[p]}
                            /\ write_op'[p] \in {"none", w[p]}
<1>1. Cancelled(c) \in Ops \ {"pending"} /\ (Cancelled(c) # "none" => c # "none")
  BY DEF Cancelled, Ops
<1>2. \A p \in Pair : /\ Cancelled(r[p]) \in (Ops \cup {"eof"}) \ {"pending"}
                     /\ Cancelled(w[p]) \in Ops \ {"pending"}
                     /\ Cancelled(r[p]) \in {"none", r[p]}
                     /\ Cancelled(w[p]) \in {"none", w[p]}
  BY DEF Cancelled, Ops
<1> QED BY <1>1, <1>2 DEF Stop

\* handleConnect starts the first two reads, of queues that are empty.
LEMMA HandleConnectOkIInv == ASSUME IInv, HandleConnectOk PROVE IInv'
<1> USE DEF HandleConnectOk, budget, world
<1>1. read_op' = [p \in Pair |-> NewOp] /\ NewOp \in {"err", "pending"}
      /\ (NewOp = "pending" => ~close_flag)
  BY DEF Both, NewOp
<1>2. TypeOK'
  BY <1>1, Constants DEF IInv, TypeOK, Ops
<1>3. ReadsBounded' /\ WriteInFlight' /\ QueueBound' /\ ConnectingIsIdle'
  BY <1>1 DEF IInv, ReadsBounded, WriteInFlight, QueueBound, ConnectingIsIdle, Drained
<1>4. \A p \in Pair : ~QueueFull(msg_queue, p) /\ reading_flag[p]
  <2>1. Len(<<>>) = 0
    OBVIOUS
  <2> QED BY <2>1, Constants DEF IInv, ConnectingIsIdle, Drained, QueueFull, Pair
<1>5. Backpressure'
  BY <1>1, <1>4 DEF Backpressure, QueueFull
<1>6. HalfOpenHasData' /\ ClosedIsQuiet'
  BY <1>1 DEF IInv, HalfOpenHasData, ClosedIsQuiet
<1> QED BY <1>2, <1>3, <1>5, <1>6 DEF IInv

\* handleConnect with an error: stop() before anything was read.
LEMMA HandleConnectErrIInv == ASSUME IInv, HandleConnectErr PROVE IInv'
<1> USE DEF HandleConnectErr, budget, world, clock
<1>1. Stop("none", read_op, write_op) /\ "none" \in Ops
  BY DEF Ops
<1>2. read_op \in [Pair -> Ops \cup {"eof"}] /\ write_op \in [Pair -> Ops]
  BY DEF IInv, TypeOK
<1>3. /\ close_flag' = TRUE /\ connect_op' = "none"
      /\ read_op' \in [Pair -> Ops \cup {"eof"}] /\ write_op' \in [Pair -> Ops]
      /\ \A p \in Pair : /\ read_op'[p] # "pending" /\ write_op'[p] # "pending"
                         /\ read_op'[p] \in {"none", read_op[p]}
                         /\ write_op'[p] \in {"none", write_op[p]}
  BY <1>1, <1>2, StopEffect, Zenon
<1>4. TypeOK'
  BY <1>3 DEF IInv, TypeOK, Ops
<1>5. ReadsBounded' /\ WriteInFlight' /\ QueueBound' /\ ConnectingIsIdle'
  BY <1>3 DEF IInv, ReadsBounded, WriteInFlight, QueueBound, ConnectingIsIdle
<1>6. Backpressure' /\ HalfOpenHasData' /\ ClosedIsQuiet'
  BY <1>3 DEF IInv, Backpressure, QueueFull, HalfOpenHasData, ClosedIsQuiet
<1> QED BY <1>4, <1>5, <1>6 DEF IInv

\* handleRead pushes one message: the queue had room, and the read goes on if it still has.
LEMMA HandleReadOkIInv ==
  ASSUME IInv, NEW p \in Pair, NEW size \in Sizes, HandleReadOk(p, size)
  PROVE  IInv'
<1> DEFINE age == IF full_open THEN 0 ELSE idle
           msg == [id |-> got[p] + 1, size |-> size, wait |-> AtLeast(delay_ms - age, -MaxLag)]
           q   == [msg_queue EXCEPT ![1-p] = Append(@, msg)]
<1>1. /\ idle' = age /\ msg_queue' = q
      /\ got' = [got EXCEPT ![p] = @ + 1]
      /\ reading_flag' = [reading_flag EXCEPT ![p] = @ /\ ~QueueFull(q, p)]
      /\ read_op' = [read_op EXCEPT ![p] = IF QueueFull(q, p) THEN "none" ELSE NewOp]
      /\ read_op[p] = "ok" /\ listed
      /\ UNCHANGED <<flags, budget, writing_flag, lag, connect_op, write_op, world, sent>>
  BY DEF HandleReadOk, Running
<1>2. age \in Int /\ age <= MaxIdle
  BY Constants DEF IInv, TypeOK
<1>3. got[p] < MaxChunks /\ got[p] \in 0..MaxChunks /\ got[p] + 1 \in 1..MaxChunks
  BY <1>1, Constants DEF IInv, ReadsBounded, TypeOK
<1>4. msg \in Messages
  <2>1. delay_ms - age \in Int /\ -MaxLag \in Int
    BY <1>2, Constants
  <2>2. AtLeast(delay_ms - age, -MaxLag) \in Int
    BY <2>1, AtLeastInt
  <2> QED BY <1>3, <2>2 DEF Messages
<1>5. 1-p \in Pair /\ msg_queue[1-p] \in Seq(Messages)
  BY DEF Pair, IInv, TypeOK
<1>6. /\ q \in [Pair -> Seq(Messages)]
      /\ Len(q[1-p]) = Len(msg_queue[1-p]) + 1 /\ Len(msg_queue[1-p]) \in Nat
      /\ q[p] = msg_queue[p]
      /\ \A s \in Pair : msg_queue[s] # <<>> => q[s] # <<>>
  <2> HIDE DEF msg
  <2>1. /\ Append(msg_queue[1-p], msg) \in Seq(Messages)
        /\ Append(msg_queue[1-p], msg) # <<>>
        /\ Len(Append(msg_queue[1-p], msg)) = Len(msg_queue[1-p]) + 1
    BY <1>4, <1>5, AppendMessage
  <2>2. msg_queue \in [Pair -> Seq(Messages)] /\ Len(msg_queue[1-p]) \in Nat
    BY <1>5, EmptyLen DEF IInv, TypeOK
  <2> QED BY <1>5, <2>1, <2>2 DEF Pair
<1>7. ~QueueFull(msg_queue, p) /\ reading_flag[p]
  BY <1>1 DEF IInv, Backpressure
<1> USE DEF flags, budget, world
<1> HIDE DEF age, msg, q
<1>8. NewOp \in {"err", "pending"} /\ (NewOp = "pending" => ~close_flag)
  BY DEF NewOp
<1>9. TypeOK'
  <2>1. (reading_flag[p] /\ ~QueueFull(q, p)) \in BOOLEAN
    OBVIOUS
  <2>2. reading_flag' \in [Pair -> BOOLEAN]
    BY <1>1, <2>1 DEF IInv, TypeOK
  <2>3. read_op' \in [Pair -> Ops \cup {"eof"}] /\ got' \in [Pair -> 0..MaxChunks]
    BY <1>1, <1>3, <1>8, Constants DEF IInv, TypeOK, Ops
  <2> QED BY <1>1, <1>2, <1>6, <2>2, <2>3 DEF IInv, TypeOK
<1>10. ReadsBounded' /\ WriteInFlight' /\ ConnectingIsIdle'
  BY <1>1, <1>6, <1>8 DEF IInv, TypeOK, ReadsBounded, WriteInFlight, ConnectingIsIdle
<1>11. QueueBound'
  BY <1>1, <1>5, <1>6, <1>7, Constants DEF IInv, QueueBound, QueueFull, Pair
<1>12. Backpressure'
  <2>1. /\ reading_flag'[p] <=> ~QueueFull(q, p)
        /\ reading_flag'[1-p] <=> reading_flag[1-p]
        /\ read_op'[p] = IF QueueFull(q, p) THEN "none" ELSE NewOp
        /\ read_op'[1-p] = read_op[1-p]
    <3>1. reading_flag \in [Pair -> BOOLEAN] /\ read_op \in [Pair -> Ops \cup {"eof"}]
      BY DEF IInv, TypeOK
    <3>2. p # 1-p
      BY DEF Pair
    <3> QED BY <1>1, <1>5, <1>7, <3>1, <3>2
  <2>2. QueueFull(q, 1-p) <=> QueueFull(msg_queue, 1-p)
    BY <1>6 DEF QueueFull, Pair
  <2>3. \A s \in Pair : QueueFull(msg_queue', s) <=> QueueFull(q, s)
    BY <1>1
  <2>4. \A s \in Pair : s = p \/ s = 1-p
    BY DEF Pair
  <2> HIDE DEF QueueFull
  <2>5. \A s \in Pair :
          /\ read_op'[s] # "none" => reading_flag'[s] /\ ~QueueFull(q, s)
          /\ ~reading_flag'[s] => close_flag' \/ QueueFull(q, s)
          /\ full_open' /\ ~close_flag' => read_op'[s] # "none" \/ ~reading_flag'[s]
    BY <1>1, <1>5, <1>8, <2>1, <2>2, <2>4 DEF IInv, Backpressure
  <2> QED BY <1>1, <2>5 DEF Backpressure, QueueFull
<1>13. HalfOpenHasData' /\ ClosedIsQuiet'
  BY <1>1, <1>6, <1>8 DEF IInv, TypeOK, HalfOpenHasData, Drained, ClosedIsQuiet, Pair
<1> QED BY <1>9, <1>10, <1>11, <1>12, <1>13 DEF IInv

\* A handler other than that of the connect calls stop(), its own operation
\* taken out of r or w.
LEMMA StopIInv ==
  ASSUME IInv, NEW r \in [Pair -> Ops \cup {"eof"}], NEW w \in [Pair -> Ops],
         \A p \in Pair : r[p] \in {"none", read_op[p]} /\ w[p] \in {"none", write_op[p]},
         Stop(connect_op, r, w),
         msg_queue' \in [Pair -> Seq(Messages)],
         \A p \in Pair : /\ Len(msg_queue'[p]) <= Len(msg_queue[p])
                         /\ w[p] # "none" => msg_queue'[p] # <<>>,
         connect_op # "none" => Drained(msg_queue'),
         UNCHANGED <<full_open, writing_flag, reading_flag, got, sent>>,
         idle' \in Int, idle' <= MaxIdle, lag' \in 0..MaxLag,
         available_bytes' \in [Pair -> Int], avail_ip' \in [Pair -> Int],
         listed' \in BOOLEAN, proxy_closed' \in BOOLEAN,
         fault' \in {"none", "thrown", "dangling"}
  PROVE  IInv'
<1>1. connect_op \in Ops
  BY DEF IInv, TypeOK
<1>2. /\ close_flag' = TRUE
      /\ connect_op' \in Ops \ {"pending"}
      /\ connect_op' # "none" => connect_op # "none"
      /\ read_op' \in [Pair -> Ops \cup {"eof"}] /\ write_op' \in [Pair -> Ops]
      /\ \A p \in Pair : /\ read_op'[p] # "pending" /\ write_op'[p] # "pending"
                         /\ read_op'[p] \in {"none", r[p]}
                         /\ write_op'[p] \in {"none", w[p]}
  BY <1>1, StopEffect, Zenon
<1>3. \A p \in Pair : read_op'[p] \in {"none", read_op[p]} /\ write_op'[p] \in {"none", write_op[p]}
  BY <1>2
<1>4. \A p \in Pair : Len(msg_queue'[p]) \in Nat /\ Len(msg_queue[p]) \in Nat
  BY EmptyLen DEF IInv, TypeOK
<1>5. TypeOK'
  BY <1>2 DEF IInv, TypeOK
<1>6. ReadsBounded' /\ WriteInFlight' /\ ConnectingIsIdle'
  BY <1>2, <1>3 DEF IInv, ReadsBounded, WriteInFlight, ConnectingIsIdle, Drained
<1>7. QueueBound'
  <2> SUFFICES ASSUME NEW p \in Pair
               PROVE  Len(msg_queue'[p]) <= MAX_TCP_MSG_QUEUE_SIZE + 1
    BY DEF QueueBound
  <2>1. Len(msg_queue'[p]) <= Len(msg_queue[p]) /\ Len(msg_queue[p]) <= MAX_TCP_MSG_QUEUE_SIZE + 1
    BY DEF IInv, QueueBound
  <2> QED BY <1>4, <2>1, Constants
<1>8. Backpressure'
  BY <1>2, <1>3, <1>4, Constants DEF IInv, Backpressure, QueueFull, Pair
<1>9. HalfOpenHasData' /\ ClosedIsQuiet'
  BY <1>2 DEF HalfOpenHasData, ClosedIsQuiet
<1> QED BY <1>5, <1>6, <1>7, <1>8, <1>9 DEF IInv

\* handleRead with an error either closes or leaves a queue that is not empty.
LEMMA HandleReadErrIInv ==
  ASSUME IInv, NEW p \in Pair, HandleReadErr(p) PROVE IInv'
<1> DEFINE r == [read_op EXCEPT ![p] = "none"]
<1>1. /\ r \in [Pair -> Ops \cup {"eof"}] /\ write_op \in [Pair -> Ops]
      /\ \A s \in Pair : r[s] \in {"none", read_op[s]}
  BY DEF IInv, TypeOK, Ops
<1>2. 1-p \in Pair /\ p # 1-p /\ \A s \in Pair : s = p \/ s = 1-p
  BY DEF Pair
<1>3. CASE ReadErrorCloses(p)
  <2>1. /\ Stop(connect_op, r, write_op) /\ listed' = listed
        /\ UNCHANGED <<full_open, msg_queue, budget, writing_flag, reading_flag, clock, world, got, sent>>
    BY <1>3 DEF HandleReadErr, world
  <2>2. msg_queue \in [Pair -> Seq(Messages)] /\ \A s \in Pair : Len(msg_queue[s]) \in Nat
    BY EmptyLen DEF IInv, TypeOK
  <2>3. /\ \A s \in Pair : write_op[s] # "none" => msg_queue[s] # <<>>
        /\ connect_op # "none" => Drained(msg_queue)
    BY DEF IInv, WriteInFlight, ConnectingIsIdle
  <2>4. \A s \in Pair : Len(msg_queue[s]) <= Len(msg_queue[s])
    BY <2>2
  <2>5. /\ idle' \in Int /\ idle' <= MaxIdle /\ lag' \in 0..MaxLag
        /\ available_bytes' \in [Pair -> Int] /\ avail_ip' \in [Pair -> Int]
        /\ listed' \in BOOLEAN /\ proxy_closed' \in BOOLEAN
        /\ fault' \in {"none", "thrown", "dangling"}
    BY <2>1 DEF IInv, TypeOK, budget, clock, world
  <2> HIDE DEF r
  <2> QED BY <1>1, <2>1, <2>2, <2>3, <2>4, <2>5, StopIInv
<1>4. CASE ~ReadErrorCloses(p)
  <2> USE DEF budget, clock, world
  <2>1. /\ msg_queue[1-p] # <<>> /\ full_open' = FALSE /\ read_op' = r
        /\ UNCHANGED <<close_flag, connect_op, write_op, msg_queue, budget, writing_flag,
                       reading_flag, clock, world, got, sent>>
    BY <1>4 DEF HandleReadErr, ReadErrorCloses
  <2>2. TypeOK'
    BY <1>1, <2>1 DEF IInv, TypeOK
  <2>3. ReadsBounded' /\ WriteInFlight' /\ ConnectingIsIdle' /\ QueueBound'
    BY <1>1, <2>1 DEF IInv, ReadsBounded, WriteInFlight, ConnectingIsIdle, QueueBound, Drained
  <2>4. Backpressure'
    BY <1>1, <2>1 DEF IInv, Backpressure, QueueFull
  <2>5. HalfOpenHasData' /\ ClosedIsQuiet'
    BY <1>1, <1>2, <2>1 DEF IInv, HalfOpenHasData, Drained, ClosedIsQuiet, Pair
  <2> QED BY <2>2, <2>3, <2>4, <2>5 DEF IInv
<1> QED BY <1>3, <1>4

\* handleWrite with an error closes, or takes the process with it.
LEMMA HandleWriteErrIInv ==
  ASSUME IInv, NEW p \in Pair, HandleWriteErr(p) PROVE IInv'
<1> DEFINE w == [write_op EXCEPT ![p] = "none"]
<1>1. /\ read_op \in [Pair -> Ops \cup {"eof"}] /\ w \in [Pair -> Ops]
      /\ \A s \in Pair : w[s] \in {"none", write_op[s]}
  BY DEF IInv, TypeOK, Ops
<1>2. UNCHANGED <<full_open, msg_queue, budget, writing_flag, reading_flag, clock,
                  listed, proxy_closed, got, sent>>
  BY DEF HandleWriteErr
<1>3. CASE fault' = "thrown" /\ UNCHANGED <<close_flag, ops>>
  <2> USE DEF budget, clock, ops
  <2>1. TypeOK'
    BY <1>2, <1>3 DEF IInv, TypeOK
  <2>2. ReadsBounded' /\ WriteInFlight' /\ ConnectingIsIdle' /\ QueueBound'
    BY <1>2, <1>3 DEF IInv, ReadsBounded, WriteInFlight, ConnectingIsIdle, QueueBound, Drained
  <2>3. Backpressure' /\ HalfOpenHasData' /\ ClosedIsQuiet'
    BY <1>2, <1>3 DEF IInv, Backpressure, QueueFull, HalfOpenHasData, Drained, ClosedIsQuiet
  <2> QED BY <2>1, <2>2, <2>3 DEF IInv
<1>4. CASE Stop(connect_op, read_op, w) /\ UNCHANGED fault
  <2>1. msg_queue \in [Pair -> Seq(Messages)] /\ \A s \in Pair : Len(msg_queue[s]) <= Len(msg_queue[s])
    BY EmptyLen DEF IInv, TypeOK
  <2>2. /\ \A s \in Pair : w[s] # "none" => msg_queue[s] # <<>>
        /\ connect_op # "none" => Drained(msg_queue)
    BY <1>1 DEF IInv, WriteInFlight, ConnectingIsIdle
  <2>3. /\ idle' \in Int /\ idle' <= MaxIdle /\ lag' \in 0..MaxLag
        /\ available_bytes' \in [Pair -> Int] /\ avail_ip' \in [Pair -> Int]
        /\ listed' \in BOOLEAN /\ proxy_closed' \in BOOLEAN
        /\ fault' \in {"none", "thrown", "dangling"}
    BY <1>2, <1>4 DEF IInv, TypeOK, budget, clock
  <2> HIDE DEF w
  <2> QED BY <1>1, <1>2, <1>4, <2>1, <2>2, <2>3, StopIInv
<1> QED BY <1>3, <1>4 DEF HandleWriteErr

\* TcpProxy::close() stops the connection.
LEMMA ProxyCloseIInv == ASSUME IInv, ProxyClose PROVE IInv'
<1>1. /\ Stop(connect_op, read_op, write_op) /\ proxy_closed' = TRUE
      /\ UNCHANGED <<full_open, msg_queue, budget, writing_flag, reading_flag, clock,
                     listed, fault, got, sent>>
  BY DEF ProxyClose
<1>2. read_op \in [Pair -> Ops \cup {"eof"}] /\ write_op \in [Pair -> Ops]
  BY DEF IInv, TypeOK
<1>3. msg_queue \in [Pair -> Seq(Messages)] /\ \A s \in Pair : Len(msg_queue[s]) <= Len(msg_queue[s])
  BY EmptyLen DEF IInv, TypeOK
<1>4. /\ \A s \in Pair : write_op[s] # "none" => msg_queue[s] # <<>>
      /\ connect_op # "none" => Drained(msg_queue)
  BY DEF IInv, WriteInFlight, ConnectingIsIdle
<1>5. /\ idle' \in Int /\ idle' <= MaxIdle /\ lag' \in 0..MaxLag
      /\ available_bytes' \in [Pair -> Int] /\ avail_ip' \in [Pair -> Int]
      /\ listed' \in BOOLEAN /\ proxy_closed' \in BOOLEAN
      /\ fault' \in {"none", "thrown", "dangling"}
  BY <1>1 DEF IInv, TypeOK, budget, clock
<1> QED BY <1>1, <1>2, <1>3, <1>4, <1>5, StopIInv

\* The IP limiter's thread only touches the balance of the address.
LEMMA IpRoutineIInv == ASSUME IInv, NEW d \in IpSteps, IpRoutine(d) PROVE IInv'
<1> USE DEF IpRoutine, flags, clock, ops, world
<1>1. \A i \in Pair : Credit(ip_bandwidth[i], d) \in Int
  <2>1. d \in Int /\ \A i \in Pair : ip_bandwidth[i] \in Int
    BY Constants DEF Pair
  <2> QED BY <2>1, CreditInt
<1>2. avail_ip' \in [Pair -> Int]
  BY <1>1 DEF IInv, TypeOK
<1>3. TypeOK'
  BY <1>2 DEF IInv, TypeOK
<1>4. ReadsBounded' /\ WriteInFlight' /\ QueueBound' /\ ConnectingIsIdle'
  BY DEF IInv, ReadsBounded, WriteInFlight, QueueBound, ConnectingIsIdle, Drained
<1>5. Backpressure' /\ HalfOpenHasData' /\ ClosedIsQuiet'
  BY DEF IInv, Backpressure, QueueFull, HalfOpenHasData, Drained, ClosedIsQuiet
<1> QED BY <1>3, <1>4, <1>5 DEF IInv

\* Another connection of the address only touches their balance.
LEMMA IpOtherIInv ==
  ASSUME IInv, NEW i \in Pair, NEW size \in Sizes, IpOther(i, size) PROVE IInv'
<1> USE DEF IpOther, flags, clock, ops, world
<1>1. size + TCP_PACKET_EXTRA_OVERHEAD \in Int
  BY Constants
<1>2. avail_ip' \in [Pair -> Int]
  BY <1>1 DEF IInv, TypeOK
<1>3. TypeOK'
  BY <1>2 DEF IInv, TypeOK
<1>4. ReadsBounded' /\ WriteInFlight' /\ QueueBound' /\ ConnectingIsIdle'
  BY DEF IInv, ReadsBounded, WriteInFlight, QueueBound, ConnectingIsIdle, Drained
<1>5. Backpressure' /\ HalfOpenHasData' /\ ClosedIsQuiet'
  BY DEF IInv, Backpressure, QueueFull, HalfOpenHasData, Drained, ClosedIsQuiet
<1> QED BY <1>3, <1>4, <1>5 DEF IInv

\* A handler on the freed connection ends the behaviour.
LEMMA HandlerAfterEraseIInv == ASSUME IInv, HandlerAfterErase PROVE IInv'
<1> USE DEF HandlerAfterErase, flags, clock, budget, ops
<1>1. TypeOK'
  BY DEF IInv, TypeOK
<1>2. ReadsBounded' /\ WriteInFlight' /\ QueueBound' /\ ConnectingIsIdle'
  BY DEF IInv, ReadsBounded, WriteInFlight, QueueBound, ConnectingIsIdle, Drained
<1>3. Backpressure' /\ HalfOpenHasData' /\ ClosedIsQuiet'
  BY DEF IInv, Backpressure, QueueFull, HalfOpenHasData, Drained, ClosedIsQuiet
<1> QED BY <1>1, <1>2, <1>3 DEF IInv

\* Nothing changes.
LEMMA StutterIInv == ASSUME IInv, UNCHANGED vars PROVE IInv'
<1> USE DEF vars, flags, clock, budget, ops, world
<1>1. TypeOK'
  BY DEF IInv, TypeOK
<1>2. ReadsBounded' /\ WriteInFlight' /\ QueueBound' /\ ConnectingIsIdle'
  BY DEF IInv, ReadsBounded, WriteInFlight, QueueBound, ConnectingIsIdle, Drained
<1>3. Backpressure' /\ HalfOpenHasData' /\ ClosedIsQuiet'
  BY DEF IInv, Backpressure, QueueFull, HalfOpenHasData, Drained, ClosedIsQuiet
<1> QED BY <1>1, <1>2, <1>3 DEF IInv

\* handleWrite pops, re-arms the paused reader, and starts the next write.
LEMMA HandleWriteOkIInv ==
  ASSUME IInv, NEW p \in Pair, HandleWriteOk(p) PROVE IInv'
<1> DEFINE q == [msg_queue EXCEPT ![p] = Tail(@)]
           w == [write_op EXCEPT ![p] = "none"]
<1>1. /\ write_op[p] = "ok" /\ msg_queue' = q
      /\ UNCHANGED <<full_open, clock, world, got, sent>>
  BY DEF HandleWriteOk
<1>2. 1-p \in Pair /\ p # 1-p /\ \A s \in Pair : s = p \/ s = 1-p
  BY DEF Pair
<1>3. msg_queue[p] # <<>> /\ msg_queue \in [Pair -> Seq(Messages)]
  BY <1>1 DEF IInv, WriteInFlight, TypeOK
<1>4. /\ q \in [Pair -> Seq(Messages)]
      /\ Len(q[p]) = Len(msg_queue[p]) - 1
      /\ q[1-p] = msg_queue[1-p]
      /\ \A s \in Pair : Len(q[s]) \in Nat /\ Len(msg_queue[s]) \in Nat
  <2>1. Tail(msg_queue[p]) \in Seq(Messages) /\ Len(Tail(msg_queue[p])) = Len(msg_queue[p]) - 1
    BY <1>3, PopMessage
  <2>2. q \in [Pair -> Seq(Messages)]
    BY <1>3, <2>1
  <2>3. q[p] = Tail(msg_queue[p]) /\ q[1-p] = msg_queue[1-p]
    BY <1>2, <1>3
  <2> HIDE DEF q
  <2>4. \A s \in Pair : Len(q[s]) \in Nat /\ Len(msg_queue[s]) \in Nat
    BY <1>3, <2>2, EmptyLen
  <2> QED BY <2>1, <2>2, <2>3, <2>4
<1>5. connect_op = "none"
  BY <1>1 DEF IInv, ConnectingIsIdle
<1>6. /\ read_op \in [Pair -> Ops \cup {"eof"}]
      /\ reading_flag \in [Pair -> BOOLEAN]
      /\ write_op \in [Pair -> Ops] /\ writing_flag \in [Pair -> BOOLEAN]
  BY DEF IInv, TypeOK
<1>7. CASE LastWrite(q)
  <2>1. /\ Stop(connect_op, read_op, w)
        /\ UNCHANGED <<writing_flag, reading_flag, budget>>
    BY <1>7 DEF HandleWriteOk
  <2>2. w \in [Pair -> Ops] /\ \A s \in Pair : w[s] \in {"none", write_op[s]}
    BY <1>6 DEF Ops
  <2>3. \A s \in Pair : /\ Len(q[s]) <= Len(msg_queue[s])
                       /\ w[s] # "none" => q[s] # <<>>
    <3>1. \A s \in Pair : Len(q[s]) <= Len(msg_queue[s])
      BY <1>2, <1>4
    <3>2. w[p] = "none" /\ w[1-p] = write_op[1-p]
      BY <1>2, <1>6
    <3>3. write_op[1-p] # "none" => q[1-p] # <<>>
      BY <1>2, <1>4 DEF IInv, WriteInFlight
    <3> HIDE DEF q, w
    <3> QED BY <1>2, <3>1, <3>2, <3>3
  <2>4. /\ idle' \in Int /\ idle' <= MaxIdle /\ lag' \in 0..MaxLag
        /\ available_bytes' \in [Pair -> Int] /\ avail_ip' \in [Pair -> Int]
        /\ listed' \in BOOLEAN /\ proxy_closed' \in BOOLEAN
        /\ fault' \in {"none", "thrown", "dangling"}
    BY <1>1, <2>1 DEF IInv, TypeOK, budget, clock, world
  <2>5. /\ connect_op # "none" => Drained(msg_queue')
        /\ msg_queue' \in [Pair -> Seq(Messages)]
        /\ \A s \in Pair : /\ Len(msg_queue'[s]) <= Len(msg_queue[s])
                           /\ w[s] # "none" => msg_queue'[s] # <<>>
        /\ \A s \in Pair : read_op[s] \in {"none", read_op[s]} /\ w[s] \in {"none", write_op[s]}
        /\ UNCHANGED <<full_open, writing_flag, reading_flag, got, sent>>
    BY <1>1, <1>4, <1>5, <2>1, <2>2, <2>3
  <2> HIDE DEF q, w
  <2> QED BY <1>6, <2>1, <2>2, <2>4, <2>5, StopIInv
<1>8. CASE ~LastWrite(q)
  <2>1. /\ reading_flag' = [reading_flag EXCEPT ![1-p] = TRUE]
        /\ read_op' = [read_op EXCEPT ![1-p] = Resumed(p)]
        /\ StartWrites({p}, q, available_bytes)
        /\ UNCHANGED <<close_flag, connect_op>>
    BY <1>8 DEF HandleWriteOk
  <2> HIDE DEF q
  <2>2. /\ writing_flag' \in [Pair -> BOOLEAN]
        /\ write_op' \in [Pair -> Ops]
        /\ available_bytes' \in [Pair -> Int]
        /\ avail_ip' \in [Pair -> Int]
        /\ \A s \in {p} : /\ write_op'[s] \in {"none", NewOp}
                          /\ write_op'[s] # "none" <=> writing_flag'[s]
                          /\ write_op'[s] # "none" => q[s] # <<>>
        /\ \A s \in Pair \ {p} : write_op'[s] = write_op[s] /\ (writing_flag'[s] <=> writing_flag[s])
    <3>1. TypeOK /\ {p} \in SUBSET Pair /\ available_bytes \in [Pair -> Int]
      BY DEF IInv, TypeOK
    <3> QED BY <1>4, <2>1, <3>1, StartWritesEffect, Zenon
  <2>3. NewOp \in {"err", "pending"} /\ (NewOp = "pending" => ~close_flag)
    BY DEF NewOp
  <2>4. Resumed(p) \in Ops \cup {"eof"} /\ Resumed(p) \in {read_op[1-p], NewOp}
        /\ (reading_flag[1-p] => Resumed(p) = read_op[1-p])
        /\ (~reading_flag[1-p] => Resumed(p) = NewOp)
    BY <1>2, <1>6, <2>3 DEF Resumed, Ops
  <2>5. /\ reading_flag' \in [Pair -> BOOLEAN] /\ reading_flag'[1-p] = TRUE
        /\ reading_flag'[p] = reading_flag[p]
        /\ read_op' \in [Pair -> Ops \cup {"eof"}] /\ read_op'[1-p] = Resumed(p)
        /\ read_op'[p] = read_op[p]
    BY <1>2, <1>6, <2>1, <2>4
  <2>6. TypeOK'
    BY <1>1, <1>4, <2>1, <2>2, <2>5 DEF IInv, TypeOK, clock, world
  <2>7. ReadsBounded' /\ ConnectingIsIdle'
    BY <1>1, <1>2, <1>5, <2>1, <2>3, <2>4, <2>5 DEF IInv, ReadsBounded, ConnectingIsIdle
  <2>8. WriteInFlight'
    BY <1>1, <1>2, <1>4, <2>1, <2>2 DEF IInv, WriteInFlight
  <2>9. Len(q[p]) <= MAX_TCP_MSG_QUEUE_SIZE /\ Len(q[1-p]) <= MAX_TCP_MSG_QUEUE_SIZE + 1
    BY <1>2, <1>4, Constants DEF IInv, QueueBound
  <2>10. QueueBound'
    <3>1. \A s \in Pair : Len(q[s]) <= MAX_TCP_MSG_QUEUE_SIZE + 1
      BY <1>2, <1>4, <2>9, Constants
    <3> QED BY <1>1, <3>1 DEF QueueBound
  <2>11. Backpressure'
    <3>1. ~QueueFull(q, 1-p) /\ (QueueFull(q, p) <=> QueueFull(msg_queue, p))
      BY <1>2, <1>4, <2>9, Constants DEF QueueFull, Pair
    <3>2. \A s \in Pair : QueueFull(msg_queue', s) <=> QueueFull(q, s)
      BY <1>1
    <3> HIDE DEF QueueFull
    <3>3. \A s \in Pair :
            /\ read_op'[s] # "none" => reading_flag'[s] /\ ~QueueFull(q, s)
            /\ ~reading_flag'[s] => close_flag' \/ QueueFull(q, s)
            /\ full_open' /\ ~close_flag' => read_op'[s] # "none" \/ ~reading_flag'[s]
      BY <1>1, <1>2, <2>1, <2>3, <2>4, <2>5, <3>1 DEF IInv, Backpressure
    <3> QED BY <1>1, <3>3 DEF Backpressure, QueueFull
  <2>12. HalfOpenHasData'
    BY <1>1, <1>8 DEF LastWrite, HalfOpenHasData
  <2>13. ClosedIsQuiet'
    <3>1. close_flag => \A s \in Pair : read_op'[s] # "pending" /\ write_op'[s] # "pending"
      BY <1>2, <2>2, <2>3, <2>4, <2>5 DEF IInv, ClosedIsQuiet
    <3> QED BY <1>1, <2>1, <3>1 DEF IInv, ClosedIsQuiet, world
  <2> QED BY <2>6, <2>7, <2>8, <2>10, <2>11, <2>12, <2>13 DEF IInv
<1> QED BY <1>7, <1>8

\* The clock and the queues after a tick that moved the clock by d.
LEMMA TickTypes ==
  ASSUME IInv, NEW d \in Steps, Advance(d), msg_queue' = Aged(msg_queue, d)
  PROVE  /\ idle' \in Int /\ idle' <= MaxIdle /\ lag' \in 0..MaxLag
         /\ msg_queue' \in [Pair -> Seq(Messages)]
         /\ \A p \in Pair : /\ Len(msg_queue'[p]) = Len(msg_queue[p])
                            /\ msg_queue'[p] = <<>> <=> msg_queue[p] = <<>>
<1>1. d \in Int /\ idle \in Int /\ lag \in 0..MaxLag /\ MaxIdle \in Int /\ MaxLag \in Int
      /\ msg_queue \in [Pair -> Seq(Messages)]
  BY Constants DEF IInv, TypeOK
<1>2. idle' \in Int /\ idle' <= MaxIdle
  <2>1. idle + d \in Int
    BY <1>1
  <2> QED BY <1>1, <2>1, AtMostInt DEF Advance
<1>3. lag' \in 0..MaxLag
  BY <1>1 DEF Advance, AtLeast
<1>4. \A p \in Pair : /\ AgedSeq(msg_queue[p], d) \in Seq(Messages)
                     /\ Len(AgedSeq(msg_queue[p], d)) = Len(msg_queue[p])
  BY <1>1, AgedQueue
<1>5. msg_queue' \in [Pair -> Seq(Messages)]
      /\ \A p \in Pair : Len(msg_queue'[p]) = Len(msg_queue[p])
  BY <1>4 DEF Aged
<1>6. \A p \in Pair : msg_queue'[p] = <<>> <=> msg_queue[p] = <<>>
  <2>1. \A p \in Pair : /\ msg_queue'[p] = <<>> <=> Len(msg_queue'[p]) = 0
                       /\ msg_queue[p] = <<>> <=> Len(msg_queue[p]) = 0
    BY <1>1, <1>5, EmptyLen
  <2> QED BY <1>5, <2>1
<1> QED BY <1>2, <1>3, <1>5, <1>6

\* A tick that is not past the last flush only ages the messages.
LEMMA TickOnlyIInv == ASSUME IInv, NEW d \in Steps, TickOnly(d) PROVE IInv'
<1> USE DEF flags, budget, ops, world
<1>1. /\ Advance(d) /\ msg_queue' = Aged(msg_queue, d)
      /\ UNCHANGED <<flags, budget, writing_flag, reading_flag, ops, world, got, sent>>
  BY DEF TickOnly
<1>2. /\ idle' \in Int /\ idle' <= MaxIdle /\ lag' \in 0..MaxLag
      /\ msg_queue' \in [Pair -> Seq(Messages)]
      /\ \A p \in Pair : /\ Len(msg_queue'[p]) = Len(msg_queue[p])
                         /\ msg_queue'[p] = <<>> <=> msg_queue[p] = <<>>
  BY <1>1, TickTypes
<1>3. TypeOK'
  BY <1>1, <1>2 DEF IInv, TypeOK
<1>4. ReadsBounded' /\ WriteInFlight' /\ QueueBound' /\ ConnectingIsIdle'
  BY <1>1, <1>2 DEF IInv, ReadsBounded, WriteInFlight, QueueBound, ConnectingIsIdle, Drained, Pair
<1>5. Backpressure' /\ HalfOpenHasData' /\ ClosedIsQuiet'
  BY <1>1, <1>2 DEF IInv, Backpressure, QueueFull, HalfOpenHasData, Drained, ClosedIsQuiet, Pair
<1> QED BY <1>3, <1>4, <1>5 DEF IInv

\* A flush erases a closed connection, closes an expired one, or starts writes.
LEMMA FlushIInv == ASSUME IInv, NEW d \in Steps, Flush(d) PROVE IInv'
<1> USE DEF flags, budget, ops
<1> DEFINE q == Aged(msg_queue, d)
<1>1. /\ d > lag /\ Advance(d) /\ msg_queue' = q
      /\ UNCHANGED <<reading_flag, proxy_closed, fault, got, sent>>
  BY DEF Flush
<1>2. /\ idle' \in Int /\ idle' <= MaxIdle /\ lag' \in 0..MaxLag
      /\ msg_queue' \in [Pair -> Seq(Messages)]
      /\ \A p \in Pair : /\ Len(msg_queue'[p]) = Len(msg_queue[p])
                         /\ msg_queue'[p] = <<>> <=> msg_queue[p] = <<>>
  BY <1>1, TickTypes
<1> HIDE DEF q
<1>3. CASE /\ UNCHANGED <<flags, budget, writing_flag, ops>>
           /\ listed' \in BOOLEAN /\ (listed' = listed \/ close_flag)
  <2>1. TypeOK'
    BY <1>1, <1>2, <1>3 DEF IInv, TypeOK
  <2>2. ReadsBounded' /\ WriteInFlight' /\ QueueBound' /\ ConnectingIsIdle'
    BY <1>1, <1>2, <1>3 DEF IInv, ReadsBounded, WriteInFlight, QueueBound, ConnectingIsIdle, Drained, Pair
  <2>3. Backpressure' /\ HalfOpenHasData' /\ ClosedIsQuiet'
    BY <1>1, <1>2, <1>3 DEF IInv, Backpressure, QueueFull, HalfOpenHasData, Drained, ClosedIsQuiet, Pair
  <2> QED BY <2>1, <2>2, <2>3 DEF IInv
<1>4. CASE /\ Stop(connect_op, read_op, write_op) /\ listed' = FALSE
           /\ UNCHANGED <<full_open, budget, writing_flag>>
  <2>1. read_op \in [Pair -> Ops \cup {"eof"}] /\ write_op \in [Pair -> Ops]
    BY DEF IInv, TypeOK
  <2>2. \A s \in Pair : Len(msg_queue[s]) \in Nat
    BY EmptyLen DEF IInv, TypeOK
  <2>3. /\ \A s \in Pair : /\ Len(msg_queue'[s]) <= Len(msg_queue[s])
                           /\ write_op[s] # "none" => msg_queue'[s] # <<>>
        /\ connect_op # "none" => Drained(msg_queue')
    BY <1>2, <2>2 DEF IInv, WriteInFlight, ConnectingIsIdle, Drained, Pair
  <2>4. /\ available_bytes' \in [Pair -> Int] /\ avail_ip' \in [Pair -> Int]
        /\ listed' \in BOOLEAN /\ proxy_closed' \in BOOLEAN
        /\ fault' \in {"none", "thrown", "dangling"}
    BY <1>1, <1>4 DEF IInv, TypeOK
  <2> QED BY <1>1, <1>2, <1>4, <2>1, <2>3, <2>4, StopIInv
<1>5. CASE /\ ~close_flag /\ ~(~full_open /\ Drained(q))
           /\ StartWrites(Flushable, q, Repaid(d - lag))
           /\ UNCHANGED <<flags, connect_op, read_op, listed>>
  <2>1. Repaid(d - lag) \in [Pair -> Int]
    <3>1. Credit(max_bandwidth, d - lag) \in Int
      <4>1. d - lag \in Int /\ max_bandwidth \in Int
        BY Constants DEF IInv, TypeOK
      <4> QED BY <4>1, CreditInt
    <3> QED BY <3>1 DEF IInv, TypeOK, Repaid
  <2>2. Flushable \in SUBSET Pair /\ q \in [Pair -> Seq(Messages)] /\ TypeOK
    BY <1>1, <1>2 DEF Flushable, IInv
  <2>3. /\ writing_flag' \in [Pair -> BOOLEAN]
        /\ write_op' \in [Pair -> Ops]
        /\ available_bytes' \in [Pair -> Int]
        /\ avail_ip' \in [Pair -> Int]
        /\ \A p \in Flushable : /\ write_op'[p] \in {"none", NewOp}
                                /\ write_op'[p] # "none" <=> writing_flag'[p]
                                /\ write_op'[p] # "none" => q[p] # <<>>
        /\ \A p \in Pair \ Flushable :
             write_op'[p] = write_op[p] /\ (writing_flag'[p] <=> writing_flag[p])
    BY <1>5, <2>1, <2>2, StartWritesEffect, Zenon
  <2>4. TypeOK'
    BY <1>1, <1>2, <1>5, <2>3 DEF IInv, TypeOK
  <2>5. connect_op = "none"
    BY <1>1, <1>2, <1>5 DEF IInv, ConnectingIsIdle, Drained, Pair
  <2>6. ReadsBounded' /\ QueueBound' /\ ConnectingIsIdle'
    BY <1>1, <1>2, <1>5, <2>5 DEF IInv, ReadsBounded, QueueBound, ConnectingIsIdle
  <2>7. WriteInFlight'
    BY <1>1, <1>2, <1>5, <2>3 DEF IInv, WriteInFlight
  <2>8. Backpressure' /\ HalfOpenHasData' /\ ClosedIsQuiet'
    BY <1>1, <1>2, <1>5 DEF IInv, Backpressure, QueueFull, HalfOpenHasData, Drained, ClosedIsQuiet, Pair
  <2> QED BY <2>4, <2>6, <2>7, <2>8 DEF IInv
<1>6. \/ close_flag /\ listed' = FALSE /\ UNCHANGED <<flags, budget, writing_flag, ops>>
      \/ /\ Stop(connect_op, read_op, write_op) /\ listed' = FALSE
         /\ UNCHANGED <<full_open, budget, writing_flag>>
      \/ /\ ~full_open /\ Drained(q) /\ UNCHANGED <<budget, writing_flag, write_op>>
         /\ UNCHANGED <<flags, connect_op, read_op, listed>>
      \/ /\ ~close_flag /\ ~(~full_open /\ Drained(q))
         /\ StartWrites(Flushable, q, Repaid(d - lag))
         /\ UNCHANGED <<flags, connect_op, read_op, listed>>
  BY DEF Flush, q
<1>7. listed \in BOOLEAN
  BY DEF IInv, TypeOK
<1> QED BY <1>3, <1>4, <1>5, <1>6, <1>7
-----------------------------------------------------------------------------
\* Every step preserves the invariant.
LEMMA NextIInv == IInv /\ [Next]_vars => IInv'
<1> SUFFICES ASSUME IInv, [Next]_vars PROVE IInv'
  OBVIOUS
<1>1. CASE UNCHANGED vars
  BY <1>1, StutterIInv
<1>2. CASE Handlers
  <2>1. CASE HandleConnectOk
    BY <2>1, HandleConnectOkIInv
  <2>2. CASE HandleConnectErr
    BY <2>2, HandleConnectErrIInv
  <2>3. ASSUME NEW p \in Pair, NEW size \in Sizes, HandleReadOk(p, size) PROVE IInv'
    BY <2>3, HandleReadOkIInv
  <2>4. ASSUME NEW p \in Pair, HandleReadErr(p) PROVE IInv'
    BY <2>4, HandleReadErrIInv
  <2>5. ASSUME NEW p \in Pair, HandleWriteOk(p) PROVE IInv'
    BY <2>5, HandleWriteOkIInv
  <2>6. ASSUME NEW p \in Pair, HandleWriteErr(p) PROVE IInv'
    BY <2>6, HandleWriteErrIInv
  <2> QED BY <1>2, <2>1, <2>2, <2>3, <2>4, <2>5, <2>6 DEF Handlers
<1>3. CASE Kernel
  <2>1. ASSUME NEW r \in {"ok", "err"}, ConnectDone(r) PROVE IInv'
    BY <2>1, ConnectDoneIInv
  <2>2. ASSUME NEW p \in Pair, NEW r \in {"ok", "eof", "err"}, ReadDone(p, r) PROVE IInv'
    BY <2>2, ReadDoneIInv
  <2>3. ASSUME NEW p \in Pair, NEW r \in {"ok", "err"}, WriteDone(p, r) PROVE IInv'
    BY <2>3, WriteDoneIInv
  <2> QED BY <1>3, <2>1, <2>2, <2>3 DEF Kernel
<1>4. CASE Ticks
  <2>1. ASSUME NEW d \in Steps, TickOnly(d) PROVE IInv'
    BY <2>1, TickOnlyIInv
  <2>2. ASSUME NEW d \in Steps, Flush(d) PROVE IInv'
    BY <2>2, FlushIInv
  <2> QED BY <1>4, <2>1, <2>2 DEF Ticks, HandleWait
<1>5. CASE ProxyClose
  BY <1>5, ProxyCloseIInv
<1>6. CASE IpLimiter
  <2>1. ASSUME NEW d \in IpSteps, IpRoutine(d) PROVE IInv'
    BY <2>1, IpRoutineIInv
  <2>2. ASSUME NEW i \in Pair, NEW size \in Sizes, IpOther(i, size) PROVE IInv'
    BY <2>2, IpOtherIInv
  <2> QED BY <1>6, <2>1, <2>2 DEF IpLimiter
<1>7. CASE HandlerAfterErase
  BY <1>7, HandlerAfterEraseIInv
<1>8. CASE Terminated
  BY <1>8, StutterIInv DEF Terminated
<1> QED BY <1>1, <1>2, <1>3, <1>4, <1>5, <1>6, <1>7, <1>8 DEF Next

\* The strengthening is an invariant of every connection, whatever the
\* bandwidth, delay, timeout, queue limit and clock steps.
THEOREM Inductive == Spec => []IInv
<1>1. Init => IInv
  BY InitIInv
<1>2. IInv /\ [Next]_vars => IInv'
  BY NextIInv
<1> QED BY <1>1, <1>2, PTL DEF Spec

\* Type correctness.
THEOREM TypeCorrect == Spec => []TypeOK
<1>1. IInv => TypeOK
  BY DEF IInv
<1> QED BY <1>1, Inductive, PTL

\* The assertion of handleWrite never fails, and writing_flag never
\* disagrees with the write in flight on an open connection.
THEOREM AssertionHolds == Spec => []WriteInFlight
<1>1. IInv => WriteInFlight
  BY DEF IInv
<1> QED BY <1>1, Inductive, PTL

\* The proxy buffers at most MAX_TCP_MSG_QUEUE_SIZE + 1 chunks per direction.
THEOREM QueueBounded == Spec => []QueueBound
<1>1. IInv => QueueBound
  BY DEF IInv
<1> QED BY <1>1, Inductive, PTL

\* Reads are re-armed exactly while the queue they feed has room.
THEOREM BackpressureHolds == Spec => []Backpressure
<1>1. IInv => Backpressure
  BY DEF IInv
<1> QED BY <1>1, Inductive, PTL

\* A half-open connection with nothing left to write is closed.
THEOREM HalfOpenDrains == Spec => []HalfOpenHasData
<1>1. IInv => HalfOpenHasData
  BY DEF IInv
<1> QED BY <1>1, Inductive, PTL

\* A closed connection has nothing pending; an erased one is closed.
THEOREM ClosedStaysQuiet == Spec => []ClosedIsQuiet
<1>1. IInv => ClosedIsQuiet
  BY DEF IInv
<1> QED BY <1>1, Inductive, PTL
-----------------------------------------------------------------------------
(* The balances.                                                           *)

\* Overdrawn by one packet at most.
OnePacket(x) == \E size \in Sizes : x >= -(size + TCP_PACKET_EXTRA_OVERHEAD)

\* A balance that was not negative and is charged for one packet, or that is repaid.
LEMMA ChargedOnce ==
  ASSUME NEW x \in Int, NEW size \in Sizes, x >= 0
  PROVE  OnePacket(x - (size + TCP_PACKET_EXTRA_OVERHEAD))
<1>1. size \in Nat /\ TCP_PACKET_EXTRA_OVERHEAD \in Nat
  BY Constants
<1> QED BY <1>1 DEF OnePacket

LEMMA RepaidStill ==
  ASSUME NEW x \in Int, NEW c \in Nat, OnePacket(x)
  PROVE  OnePacket(x + c)
<1>1. PICK size \in Sizes : x >= -(size + TCP_PACKET_EXTRA_OVERHEAD)
  BY DEF OnePacket
<1>2. size \in Nat /\ TCP_PACKET_EXTRA_OVERHEAD \in Nat
  BY <1>1, Constants
<1>3. x + c >= -(size + TCP_PACKET_EXTRA_OVERHEAD)
  BY <1>1, <1>2
<1> QED BY <1>3 DEF OnePacket

LEMMA CreditNat == ASSUME NEW bytes \in Nat, NEW d \in Nat PROVE Credit(bytes, d) \in Nat
<1>1. PICK x \in Nat : x = d * bytes
  OBVIOUS
<1>2. x \div 1000 \in Nat
  OBVIOUS
<1> QED BY <1>1, <1>2 DEF Credit

\* handleWrite charges a balance only when it is not negative.
LEMMA StartWritesDebt ==
  ASSUME TypeOK, NEW S \in SUBSET Pair,
         NEW q \in [Pair -> Seq(Messages)], NEW avail \in [Pair -> Int],
         StartWrites(S, q, avail),
         \A p \in Pair : OnePacket(avail[p]) /\ OnePacket(avail_ip[p])
  PROVE  \A p \in Pair : OnePacket(available_bytes'[p]) /\ OnePacket(avail_ip'[p])
<1> SUFFICES ASSUME NEW p \in Pair
             PROVE  OnePacket(available_bytes'[p]) /\ OnePacket(avail_ip'[p])
  OBVIOUS
<1>1. PICK go : /\ go = {s \in S : MayWrite(s, q, avail) /\ IpAllows(s)}
                /\ available_bytes'[p] = IF p \in go /\ max_bandwidth > 0
                                         THEN avail[p] - Cost(Head(q[p])) ELSE avail[p]
                /\ avail_ip'[p] = IF (1-p) \in go /\ ip_bandwidth[p] > 0
                                  THEN avail_ip[p] - Cost(Head(q[1-p])) ELSE avail_ip[p]
  BY DEF StartWrites
<1>2. \A s \in go : /\ q[s] # <<>> /\ avail[s] >= 0
                    /\ ip_bandwidth[1-s] > 0 => avail_ip[1-s] >= 0
  BY <1>1 DEF MayWrite, IpAllows
<1>3. 1-p \in Pair /\ 1-(1-p) = p /\ avail[p] \in Int /\ avail_ip[p] \in Int
  BY DEF Pair, TypeOK
<1>4. \A s \in Pair : q[s] # <<>> =>
        \E size \in Sizes : Cost(Head(q[s])) = size + TCP_PACKET_EXTRA_OVERHEAD
  BY PopMessage, CostInt
<1>5. OnePacket(available_bytes'[p])
  <2>1. CASE p \in go /\ max_bandwidth > 0
    <3>1. PICK size \in Sizes : Cost(Head(q[p])) = size + TCP_PACKET_EXTRA_OVERHEAD
      BY <1>2, <1>4, <2>1
    <3>2. avail[p] >= 0 /\ available_bytes'[p] = avail[p] - (size + TCP_PACKET_EXTRA_OVERHEAD)
      BY <1>1, <1>2, <2>1, <3>1
    <3> QED BY <1>3, <3>2, ChargedOnce
  <2>2. CASE ~(p \in go /\ max_bandwidth > 0)
    BY <1>1, <2>2
  <2> QED BY <2>1, <2>2
<1>6. OnePacket(avail_ip'[p])
  <2>1. CASE (1-p) \in go /\ ip_bandwidth[p] > 0
    <3>1. PICK size \in Sizes : Cost(Head(q[1-p])) = size + TCP_PACKET_EXTRA_OVERHEAD
      BY <1>2, <1>3, <1>4, <2>1
    <3>2. avail_ip[p] >= 0 /\ avail_ip'[p] = avail_ip[p] - (size + TCP_PACKET_EXTRA_OVERHEAD)
      BY <1>1, <1>2, <1>3, <2>1, <3>1
    <3> QED BY <1>3, <3>2, ChargedOnce
  <2>2. CASE ~((1-p) \in go /\ ip_bandwidth[p] > 0)
    BY <1>1, <2>2
  <2> QED BY <2>1, <2>2
<1> QED BY <1>5, <1>6

LEMMA DebtInit == Init => DebtBound
<1> SUFFICES ASSUME Init, NEW p \in Pair
             PROVE  OnePacket(available_bytes[p]) /\ OnePacket(avail_ip[p])
  BY DEF DebtBound, OnePacket
<1>1. PICK size \in Sizes : size \in Nat /\ TCP_PACKET_EXTRA_OVERHEAD \in Nat
  BY Constants, ConstantsAssumption DEF ConstantsAssumption
<1>2. available_bytes[p] = 0 /\ avail_ip[p] = 0
  BY DEF Init, Both
<1>3. 0 >= -(size + TCP_PACKET_EXTRA_OVERHEAD)
  BY <1>1
<1> QED BY <1>2, <1>3 DEF OnePacket

LEMMA DebtStep ==
  ASSUME IInv, DebtBound, [Next]_vars
  PROVE  DebtBound'
<1> SUFFICES \A p \in Pair : OnePacket(available_bytes'[p]) /\ OnePacket(avail_ip'[p])
  BY DEF DebtBound, OnePacket
<1>1. \A p \in Pair : OnePacket(available_bytes[p]) /\ OnePacket(avail_ip[p])
  BY DEF DebtBound, OnePacket
<1>2. TypeOK /\ available_bytes \in [Pair -> Int] /\ avail_ip \in [Pair -> Int]
      /\ msg_queue \in [Pair -> Seq(Messages)]
  BY DEF IInv, TypeOK
<1>3. CASE UNCHANGED budget
  BY <1>1, <1>3 DEF budget
<1>4. ASSUME NEW p \in Pair, HandleWriteOk(p)
      PROVE  UNCHANGED budget
             \/ \A s \in Pair : OnePacket(available_bytes'[s]) /\ OnePacket(avail_ip'[s])
  <2>1. PICK q : q = [msg_queue EXCEPT ![p] = Tail(@)]
    OBVIOUS
  <2>2. CASE StartWrites({p}, q, available_bytes)
    <3>1. msg_queue[p] # <<>>
      BY <1>4 DEF HandleWriteOk, IInv, WriteInFlight
    <3>2. q \in [Pair -> Seq(Messages)]
      BY <1>2, <2>1, <3>1, PopMessage
    <3>3. {p} \in SUBSET Pair
      OBVIOUS
    <3> QED BY <1>1, <1>2, <2>2, <3>2, <3>3, StartWritesDebt
  <2>3. CASE UNCHANGED budget
    BY <2>3
  <2> QED BY <1>4, <2>1, <2>2, <2>3 DEF HandleWriteOk
<1>5. ASSUME NEW d \in Steps, Flush(d)
      PROVE  UNCHANGED budget
             \/ \A s \in Pair : OnePacket(available_bytes'[s]) /\ OnePacket(avail_ip'[s])
  <2>1. CASE StartWrites(Flushable, Aged(msg_queue, d), Repaid(d - lag))
    <3>1. d \in Int /\ lag \in Int /\ d - lag \in Nat /\ max_bandwidth \in Nat /\ MaxLag \in Int
      BY <1>5, <1>2, Constants DEF Flush, TypeOK
    <3>2. PICK c \in Nat : c = Credit(max_bandwidth, d - lag)
      BY <3>1, CreditNat
    <3>3. PICK avail : avail = Repaid(d - lag)
      OBVIOUS
    <3>4. avail = [s \in Pair |-> IF max_bandwidth > 0 /\ available_bytes[s] < 0
                                  THEN available_bytes[s] + c ELSE available_bytes[s]]
      BY <3>2, <3>3 DEF Repaid
    <3>5. avail \in [Pair -> Int]
      BY <1>2, <3>4
    <3>6. \A s \in Pair : OnePacket(avail[s])
      BY <1>1, <1>2, <3>4, RepaidStill
    <3>7. Aged(msg_queue, d) \in [Pair -> Seq(Messages)]
      <4>1. \A s \in Pair : AgedSeq(msg_queue[s], d) \in Seq(Messages)
        BY <1>2, <3>1, AgedQueue
      <4> QED BY <4>1 DEF Aged
    <3>8. Flushable \in SUBSET Pair
      BY DEF Flushable
    <3> QED BY <1>1, <1>2, <2>1, <3>3, <3>5, <3>6, <3>7, <3>8, StartWritesDebt
  <2>2. CASE UNCHANGED budget
    BY <2>2
  <2> QED BY <1>5, <2>1, <2>2 DEF Flush
<1>6. ASSUME NEW d \in IpSteps, IpRoutine(d)
      PROVE  \A s \in Pair : OnePacket(available_bytes'[s]) /\ OnePacket(avail_ip'[s])
  <2> SUFFICES ASSUME NEW s \in Pair
               PROVE  OnePacket(available_bytes'[s]) /\ OnePacket(avail_ip'[s])
    OBVIOUS
  <2>1. PICK c \in Nat : c = Credit(ip_bandwidth[s], d)
    <3>1. d \in Nat /\ ip_bandwidth[s] \in Nat
      BY Constants DEF Pair
    <3> QED BY <3>1, CreditNat
  <2>2. /\ available_bytes'[s] = available_bytes[s]
        /\ avail_ip'[s] \in {avail_ip[s], avail_ip[s] + c}
    BY <1>6, <2>1 DEF IpRoutine
  <2> QED BY <1>1, <1>2, <2>2, RepaidStill
<1>7. ASSUME NEW i \in Pair, NEW size \in Sizes, IpOther(i, size)
      PROVE  \A s \in Pair : OnePacket(available_bytes'[s]) /\ OnePacket(avail_ip'[s])
  <2> SUFFICES ASSUME NEW s \in Pair
               PROVE  OnePacket(available_bytes'[s]) /\ OnePacket(avail_ip'[s])
    OBVIOUS
  <2>1. /\ available_bytes' = available_bytes /\ avail_ip[i] >= 0
        /\ avail_ip' = [avail_ip EXCEPT ![i] = @ - (size + TCP_PACKET_EXTRA_OVERHEAD)]
    BY <1>7 DEF IpOther
  <2>2. CASE s = i
    <3>1. avail_ip'[s] = avail_ip[i] - (size + TCP_PACKET_EXTRA_OVERHEAD)
      BY <1>2, <2>1, <2>2
    <3>2. avail_ip[i] \in Int
      BY <1>2
    <3> QED BY <1>1, <2>1, <3>1, <3>2, ChargedOnce
  <2>3. CASE s # i
    BY <1>1, <1>2, <2>1, <2>3
  <2> QED BY <2>2, <2>3
<1>8. CASE Handlers
  <2>1. CASE HandleConnectOk \/ HandleConnectErr
    BY <1>3, <2>1 DEF HandleConnectOk, HandleConnectErr
  <2>2. ASSUME NEW p \in Pair, NEW size \in Sizes, HandleReadOk(p, size) PROVE UNCHANGED budget
    BY <2>2 DEF HandleReadOk
  <2>3. ASSUME NEW p \in Pair, HandleReadErr(p) \/ HandleWriteErr(p) PROVE UNCHANGED budget
    BY <2>3 DEF HandleReadErr, HandleWriteErr
  <2> QED BY <1>3, <1>4, <1>8, <2>1, <2>2, <2>3 DEF Handlers
<1>9. CASE Kernel
  BY <1>3, <1>9 DEF Kernel, ConnectDone, ReadDone, WriteDone
<1>10. CASE Ticks
  <2>1. ASSUME NEW d \in Steps, TickOnly(d) PROVE UNCHANGED budget
    BY <2>1 DEF TickOnly
  <2> QED BY <1>3, <1>5, <1>10, <2>1 DEF Ticks, HandleWait
<1>11. CASE IpLimiter
  BY <1>6, <1>7, <1>11 DEF IpLimiter
<1>12. CASE ProxyClose \/ HandlerAfterErase \/ Terminated \/ UNCHANGED vars
  BY <1>3, <1>12 DEF ProxyClose, HandlerAfterErase, Terminated, vars
<1> QED BY <1>8, <1>9, <1>10, <1>11, <1>12 DEF Next

\* handleWrite and flushMsgs charge a balance that is not negative, and only for the packet
\* they write: the connection's and its address's are overdrawn by one packet at most.
THEOREM DebtStaysBounded == Spec => []DebtBound
<1>1. IInv /\ DebtBound /\ [Next]_vars => DebtBound'
  BY DebtStep
<1> QED BY <1>1, DebtInit, Inductive, PTL DEF Spec
-----------------------------------------------------------------------------
(* The connection implements RelayPipe.                                    *)

\* A function on 1..n is a sequence of length n.
LEMMA FunctionIsSeq ==
  ASSUME NEW S, NEW n \in Nat, NEW f \in [1..n -> S]
  PROVE  f \in Seq(S) /\ Len(f) = n
OBVIOUS

\* The chunk numbers of a queue, and how appending, popping and ageing change them.
LEMMA IdsSeq ==
  ASSUME NEW s \in Seq(Messages)
  PROVE  /\ Ids(s) \in Seq(1..MaxChunks)
         /\ Len(Ids(s)) = Len(s)
         /\ s # <<>> => /\ Ids(s) # <<>>
                        /\ Head(Ids(s)) = Head(s).id
                        /\ Ids(Tail(s)) = Tail(Ids(s))
<1>1. s \in [1..Len(s) -> Messages] /\ DOMAIN s = 1..Len(s) /\ Len(s) \in Nat
  BY LenProperties
<1>2. Ids(s) = [i \in 1..Len(s) |-> s[i].id]
  BY <1>1 DEF Ids
<1>3. \A i \in 1..Len(s) : s[i].id \in 1..MaxChunks
  BY <1>1 DEF Messages
<1>4. Ids(s) \in [1..Len(s) -> 1..MaxChunks]
  BY <1>2, <1>3
<1>5. Ids(s) \in Seq(1..MaxChunks) /\ Len(Ids(s)) = Len(s)
  BY <1>1, <1>4, FunctionIsSeq
<1>6. ASSUME s # <<>>
      PROVE  Ids(s) # <<>> /\ Head(Ids(s)) = Head(s).id /\ Ids(Tail(s)) = Tail(Ids(s))
  <2>1. Len(s) > 0 /\ Tail(s) \in Seq(Messages) /\ Len(Tail(s)) = Len(s) - 1
    BY <1>6, PopMessage
  <2>2. Ids(s) # <<>>
    BY <1>5, <2>1, EmptySeq
  <2>3. Head(Ids(s)) = Head(s).id
    BY <1>1, <1>2, <1>5, <2>1
  <2>4. DOMAIN Tail(s) = 1..(Len(s) - 1) /\ \A i \in 1..(Len(s) - 1) : Tail(s)[i] = s[i+1]
    BY <1>6, <2>1, HeadTailProperties, LenProperties
  <2>5. /\ Tail(Ids(s)) \in Seq(1..MaxChunks) /\ Len(Tail(Ids(s))) = Len(s) - 1
        /\ \A i \in 1..(Len(s) - 1) : Tail(Ids(s))[i] = Ids(s)[i+1]
    BY <1>5, <2>2, HeadTailProperties
  <2>6. Tail(Ids(s)) \in [1..(Len(s) - 1) -> 1..MaxChunks]
    BY <2>5, LenProperties
  <2>7. \A i \in 1..(Len(s) - 1) : i + 1 \in 1..Len(s)
    BY <1>1
  <2>8. \A i \in 1..(Len(s) - 1) : Tail(Ids(s))[i] = Tail(s)[i].id
    BY <1>2, <2>4, <2>5, <2>7
  <2>9. Ids(Tail(s)) = [i \in 1..(Len(s) - 1) |-> Tail(s)[i].id]
    BY <2>4 DEF Ids
  <2>10. Tail(Ids(s)) = [i \in 1..(Len(s) - 1) |-> Tail(Ids(s))[i]]
    BY <2>6
  <2> QED BY <2>2, <2>3, <2>8, <2>9, <2>10
<1> QED BY <1>5, <1>6

\* The numbers of a queue after a push.
LEMMA IdsAppend ==
  ASSUME NEW s \in Seq(Messages), NEW m \in Messages
  PROVE  Ids(Append(s, m)) = Append(Ids(s), m.id)
<1>1. /\ Append(s, m) \in Seq(Messages) /\ Len(Append(s, m)) = Len(s) + 1
      /\ \A i \in 1..Len(s) : Append(s, m)[i] = s[i]
      /\ Append(s, m)[Len(s) + 1] = m
  BY AppendProperties
<1>2. Ids(s) \in Seq(1..MaxChunks) /\ Len(Ids(s)) = Len(s) /\ m.id \in 1..MaxChunks
      /\ Len(s) \in Nat
  BY IdsSeq, LenProperties DEF Messages
<1>3. /\ Append(Ids(s), m.id) \in Seq(1..MaxChunks)
      /\ Len(Append(Ids(s), m.id)) = Len(s) + 1
      /\ \A i \in 1..Len(s) : Append(Ids(s), m.id)[i] = Ids(s)[i]
      /\ Append(Ids(s), m.id)[Len(s) + 1] = m.id
  BY <1>2, AppendProperties
<1>4. DOMAIN Append(s, m) = 1..(Len(s) + 1) /\ DOMAIN Append(Ids(s), m.id) = 1..(Len(s) + 1)
      /\ DOMAIN s = 1..Len(s)
  BY <1>1, <1>3, LenProperties
<1>5. \A i \in 1..Len(s) : Ids(s)[i] = s[i].id
  BY <1>4 DEF Ids
<1>6. \A i \in 1..(Len(s) + 1) : Append(Ids(s), m.id)[i] = Append(s, m)[i].id
  <2>1. \A i \in 1..(Len(s) + 1) : i \in 1..Len(s) \/ i = Len(s) + 1
    BY <1>2
  <2> QED BY <1>1, <1>3, <1>5, <2>1
<1>7. Append(Ids(s), m.id) = [i \in 1..(Len(s) + 1) |-> Append(Ids(s), m.id)[i]]
  BY <1>3, <1>4
<1>8. Ids(Append(s, m)) = [i \in 1..(Len(s) + 1) |-> Append(s, m)[i].id]
  BY <1>4 DEF Ids
<1> QED BY <1>6, <1>7, <1>8
------------------------------------------------------------------------------
(* The refinements.                                                          *)

\* Neither pipe changes: the connection at most closes them.
LEMMA QuietStep ==
  ASSUME got' = got, sent' = sent, close_flag \in BOOLEAN, close_flag' \in BOOLEAN,
         \A p \in Pair : InTransit(p)' = InTransit(p), close_flag => close_flag'
  PROVE  Pipe!PipeNext \/ UNCHANGED Pipe!pipeVars
<1>1. [p \in Pair |-> InTransit(p)]' = [p \in Pair |-> InTransit(p)]
  OBVIOUS
<1>2. CASE close_flag' = close_flag
  BY <1>1, <1>2 DEF Pipe!pipeVars
<1>3. CASE ~close_flag /\ close_flag'
  BY <1>1, <1>3 DEF Pipe!PipeNext, Pipe!Close
<1> QED BY <1>2, <1>3

\* A step that keeps the messages of a queue and does not end or handle its write.
LEMMA SameTransit ==
  ASSUME IInv, NEW p \in Pair, msg_queue'[p] = msg_queue[p],
         write_op'[p] = "ok" <=> write_op[p] = "ok"
  PROVE  InTransit(p)' = InTransit(p)
BY DEF InTransit

\* Ageing the messages of a queue changes nothing in transit.
LEMMA AgedTransit ==
  ASSUME IInv, NEW p \in Pair, NEW d \in Steps, msg_queue' = Aged(msg_queue, d),
         write_op'[p] = "ok" <=> write_op[p] = "ok"
  PROVE  InTransit(p)' = InTransit(p)
<1>1. msg_queue[p] \in Seq(Messages) /\ d \in Int /\ MaxLag \in Int
  BY Constants DEF IInv, TypeOK
<1>2. msg_queue'[p] = AgedSeq(msg_queue[p], d)
  BY DEF Aged
<1>3. /\ msg_queue'[p] \in Seq(Messages) /\ Ids(msg_queue'[p]) = Ids(msg_queue[p])
      /\ Len(msg_queue'[p]) = Len(msg_queue[p])
  BY <1>1, <1>2, AgedQueue
<1>4. ASSUME write_op[p] = "ok"
      PROVE  Ids(Tail(msg_queue'[p])) = Ids(Tail(msg_queue[p]))
  <2>1. msg_queue[p] # <<>>
    BY <1>4 DEF IInv, WriteInFlight
  <2>2. msg_queue'[p] # <<>>
    BY <1>1, <1>3, <2>1, EmptyLen
  <2>3. Ids(Tail(msg_queue'[p])) = Tail(Ids(msg_queue'[p]))
    BY <1>3, <2>2, IdsSeq
  <2>4. Ids(Tail(msg_queue[p])) = Tail(Ids(msg_queue[p]))
    BY <1>1, <2>1, IdsSeq
  <2> QED BY <1>3, <2>3, <2>4
<1> QED BY <1>3, <1>4 DEF InTransit

\* stop() ends no write.
LEMMA StopWrites ==
  ASSUME NEW c, NEW r, NEW w, Stop(c, r, w), NEW p \in Pair
  PROVE  close_flag' = TRUE /\ (write_op'[p] = "ok" <=> w[p] = "ok")
BY DEF Stop, Cancelled

\* A new connection is two empty, open pipes.
LEMMA PipeInitHolds == Init => Pipe!PipeInit
<1> SUFFICES ASSUME Init PROVE Pipe!PipeInit
  OBVIOUS
<1>1. \A p \in Pair : InTransit(p) = <<>>
  <2>1. \A p \in Pair : msg_queue[p] = <<>> /\ write_op[p] = "none"
    BY DEF Init, Both
  <2>2. Ids(<<>>) = <<>>
    <3>1. <<>> \in Seq(Messages) /\ Len(<<>>) = 0
      OBVIOUS
    <3>2. Ids(<<>>) \in Seq(1..MaxChunks) /\ Len(Ids(<<>>)) = 0
      BY <3>1, IdsSeq
    <3> QED BY <3>2, EmptySeq
  <2> QED BY <2>1, <2>2 DEF InTransit
<1>2. [p \in Pair |-> InTransit(p)] = [p \in Pair |-> <<>>]
  BY <1>1
<1> QED BY <1>2 DEF Init, Both, Pipe!PipeInit, Pipe!Sides, Pair

\* A chunk read is accepted into the pipe to the other side.
LEMMA ReadAccepts ==
  ASSUME IInv, NEW p \in Pair, NEW size \in Sizes, HandleReadOk(p, size)
  PROVE  Pipe!Accept(p)
<1> DEFINE age == IF full_open THEN 0 ELSE idle
           msg == [id |-> got[p] + 1, size |-> size, wait |-> AtLeast(delay_ms - age, -MaxLag)]
<1>1. /\ msg_queue' = [msg_queue EXCEPT ![1-p] = Append(@, msg)]
      /\ got' = [got EXCEPT ![p] = @ + 1]
      /\ read_op[p] = "ok"
      /\ close_flag' = close_flag /\ write_op' = write_op /\ sent' = sent
  BY DEF HandleReadOk, flags, world
<1>2. 1-p \in Pair /\ p # 1-p /\ \A s \in Pair : s = p \/ s = 1-p
  BY DEF Pair
<1>3. got[p] < MaxChunks /\ got \in [Pair -> 0..MaxChunks] /\ got[p] + 1 \in 1..MaxChunks
  BY <1>1, Constants DEF IInv, ReadsBounded, TypeOK
<1>4. msg \in Messages /\ msg.id = got[p] + 1
  <2>1. delay_ms - age \in Int /\ -MaxLag \in Int
    BY Constants DEF IInv, TypeOK
  <2>2. AtLeast(delay_ms - age, -MaxLag) \in Int
    BY <2>1, AtLeastInt
  <2> QED BY <1>3, <2>2 DEF Messages
<1> HIDE DEF msg
<1>5. msg_queue \in [Pair -> Seq(Messages)] /\ Len(msg_queue[1-p]) \in Nat
  BY <1>2, EmptyLen DEF IInv, TypeOK
<1>6. InTransit(p)' = InTransit(p)
  BY <1>1, <1>2, <1>5, SameTransit
<1>7. InTransit(1-p)' = Append(InTransit(1-p), got[p] + 1)
  <2> DEFINE s == msg_queue[1-p]
  <2>1. s \in Seq(Messages) /\ msg_queue'[1-p] = Append(s, msg)
    BY <1>1, <1>2, <1>5
  <2>2. Ids(Append(s, msg)) = Append(Ids(s), got[p] + 1)
    BY <1>4, <2>1, IdsAppend
  <2>3. ASSUME write_op[1-p] = "ok"
        PROVE  Ids(Tail(Append(s, msg))) = Append(Ids(Tail(s)), got[p] + 1)
    <3>1. s # <<>>
      BY <1>2, <2>3 DEF IInv, WriteInFlight
    <3>2. Tail(s) \in Seq(Messages)
      BY <2>1, <3>1, PopMessage
    <3>3. Tail(Append(s, msg)) = Append(Tail(s), msg)
      BY <1>4, <2>1, <3>1
    <3> QED BY <1>4, <3>2, <3>3, IdsAppend
  <2> QED BY <1>1, <2>1, <2>2, <2>3 DEF InTransit
<1>8. Len(InTransit(1-p)) < MAX_TCP_MSG_QUEUE_SIZE + 1
  <2>1. Len(msg_queue[1-p]) <= MAX_TCP_MSG_QUEUE_SIZE
    BY <1>1, <1>5, Constants DEF IInv, Backpressure, QueueFull
  <2>2. Len(InTransit(1-p)) \in Nat /\ Len(InTransit(1-p)) <= Len(msg_queue[1-p])
    <3>1. CASE write_op[1-p] = "ok"
      <4>1. msg_queue[1-p] # <<>>
        BY <1>2, <3>1 DEF IInv, WriteInFlight
      <4>2. Tail(msg_queue[1-p]) \in Seq(Messages)
            /\ Len(Tail(msg_queue[1-p])) = Len(msg_queue[1-p]) - 1
            /\ Len(Tail(msg_queue[1-p])) \in Nat
        BY <1>2, <1>5, <4>1, PopMessage, LenProperties
      <4>3. Len(Ids(Tail(msg_queue[1-p]))) = Len(Tail(msg_queue[1-p]))
        BY <4>2, IdsSeq
      <4> QED BY <1>5, <3>1, <4>2, <4>3 DEF InTransit
    <3>2. CASE write_op[1-p] # "ok"
      BY <1>2, <1>5, <3>2, IdsSeq DEF InTransit
    <3> QED BY <3>1, <3>2
  <2> QED BY <1>5, <2>1, <2>2, Constants
<1> DEFINE B == [s \in Pair |-> InTransit(s)]
<1>9. [s \in Pair |-> InTransit(s)]' = [B EXCEPT ![1-p] = Append(@, got[p] + 1)]
  BY <1>2, <1>6, <1>7
<1>10. Len(B[1-p]) < MAX_TCP_MSG_QUEUE_SIZE + 1
  BY <1>2, <1>8
<1> QED BY <1>1, <1>3, <1>9, <1>10 DEF Pipe!Accept

\* A write that the kernel took delivers the front chunk.
LEMMA WriteDelivers ==
  ASSUME IInv, NEW p \in Pair, WriteDone(p, "ok")
  PROVE  Pipe!Deliver(p)
<1> DEFINE s == msg_queue[p]
           B == [x \in Pair |-> InTransit(x)]
<1>1. /\ write_op[p] = "pending" /\ write_op' = [write_op EXCEPT ![p] = "ok"]
      /\ sent' = [sent EXCEPT ![p] = Append(@, Head(s).id)]
      /\ got' = got /\ msg_queue' = msg_queue /\ close_flag' = close_flag
  BY DEF WriteDone, flags
<1>2. ~close_flag
  BY <1>1 DEF IInv, ClosedIsQuiet
<1>3. s \in Seq(Messages) /\ s # <<>> /\ write_op \in [Pair -> Ops]
  BY <1>1 DEF IInv, WriteInFlight, TypeOK
<1>4. Ids(s) # <<>> /\ Head(Ids(s)) = Head(s).id /\ Ids(Tail(s)) = Tail(Ids(s))
  BY <1>3, IdsSeq
<1>5. InTransit(p) = Ids(s) /\ InTransit(p)' = Tail(Ids(s))
  BY <1>1, <1>3, <1>4 DEF InTransit
<1>6. \A x \in Pair \ {p} : InTransit(x)' = InTransit(x)
  BY <1>1, <1>3, SameTransit
<1>7. [x \in Pair |-> InTransit(x)]' = [B EXCEPT ![p] = Tail(@)]
  BY <1>5, <1>6
<1>8. B[p] # <<>> /\ Head(B[p]) = Head(s).id
  BY <1>4, <1>5
<1> QED BY <1>1, <1>2, <1>7, <1>8 DEF Pipe!Deliver

\* Popping a written message changes nothing in transit: it was delivered before.
LEMMA PopIsQuiet ==
  ASSUME IInv, NEW p \in Pair, HandleWriteOk(p)
  PROVE  Pipe!PipeNext \/ UNCHANGED Pipe!pipeVars
<1> DEFINE q == [msg_queue EXCEPT ![p] = Tail(@)]
           w == [write_op EXCEPT ![p] = "none"]
<1>1. write_op[p] = "ok" /\ msg_queue' = q /\ got' = got /\ sent' = sent
  BY DEF HandleWriteOk
<1>2. /\ msg_queue \in [Pair -> Seq(Messages)] /\ write_op \in [Pair -> Ops]
      /\ close_flag \in BOOLEAN /\ TypeOK /\ available_bytes \in [Pair -> Int]
  BY DEF IInv, TypeOK
<1>3. q \in [Pair -> Seq(Messages)]
  <2>1. Tail(msg_queue[p]) \in Seq(Messages)
    <3>1. msg_queue[p] # <<>>
      BY <1>1 DEF IInv, WriteInFlight
    <3> QED BY <1>2, <3>1, PopMessage
  <2> QED BY <1>2, <2>1
<1>4. close_flag' \in BOOLEAN /\ (close_flag => close_flag')
  BY <1>2 DEF HandleWriteOk, Stop
<1>5. write_op'[p] # "ok" /\ \A s \in Pair \ {p} : write_op'[s] = "ok" <=> write_op[s] = "ok"
  <2>1. CASE LastWrite(q)
    <3>1. Stop(connect_op, read_op, w)
      BY <2>1 DEF HandleWriteOk
    <3>2. w[p] = "none" /\ \A s \in Pair \ {p} : w[s] = write_op[s]
      BY <1>2
    <3> HIDE DEF w
    <3>3. \A s \in Pair : write_op'[s] = "ok" <=> w[s] = "ok"
      BY <3>1, StopWrites
    <3> QED BY <3>2, <3>3
  <2>2. CASE ~LastWrite(q)
    <3>1. StartWrites({p}, q, available_bytes)
      BY <2>2 DEF HandleWriteOk
    <3> HIDE DEF q
    <3>2. /\ \A s \in {p} : write_op'[s] \in {"none", NewOp}
          /\ \A s \in Pair \ {p} : write_op'[s] = write_op[s]
      <4>1. {p} \in SUBSET Pair
        OBVIOUS
      <4> QED BY <1>2, <1>3, <3>1, <4>1, StartWritesEffect, Zenon
    <3>3. NewOp # "ok"
      BY DEF NewOp
    <3> QED BY <3>2, <3>3
  <2> QED BY <2>1, <2>2
<1>6. \A s \in Pair : InTransit(s)' = InTransit(s)
  <2>1. InTransit(p)' = InTransit(p)
    BY <1>1, <1>2, <1>5 DEF InTransit
  <2>2. \A s \in Pair \ {p} : msg_queue'[s] = msg_queue[s]
    BY <1>1, <1>2
  <2>3. \A s \in Pair \ {p} : InTransit(s)' = InTransit(s)
    BY <1>5, <2>2, SameTransit
  <2> QED BY <2>1, <2>3
<1> QED BY <1>1, <1>2, <1>4, <1>6, QuietStep

\* A tick only ages messages, starts writes, or closes.
LEMMA TickIsQuiet ==
  ASSUME IInv, NEW d \in Steps, HandleWait(d)
  PROVE  Pipe!PipeNext \/ UNCHANGED Pipe!pipeVars
<1>1. msg_queue' = Aged(msg_queue, d) /\ got' = got /\ sent' = sent
  BY DEF HandleWait, TickOnly, Flush
<1>2. /\ msg_queue \in [Pair -> Seq(Messages)] /\ write_op \in [Pair -> Ops]
      /\ close_flag \in BOOLEAN /\ TypeOK
  BY DEF IInv, TypeOK
<1>3. close_flag' \in BOOLEAN /\ (close_flag => close_flag')
  BY <1>2 DEF HandleWait, TickOnly, Flush, flags, Stop
<1>4. \A p \in Pair : write_op'[p] = "ok" <=> write_op[p] = "ok"
  <2>1. CASE write_op' = write_op
    BY <2>1
  <2>2. CASE Stop(connect_op, read_op, write_op)
    BY <2>2, StopWrites
  <2>3. CASE Flush(d) /\ StartWrites(Flushable, Aged(msg_queue, d), Repaid(d - lag))
    <3>1. Repaid(d - lag) \in [Pair -> Int]
      <4>1. d - lag \in Int /\ max_bandwidth \in Int
        BY Constants DEF IInv, TypeOK
      <4>2. Credit(max_bandwidth, d - lag) \in Int
        BY <4>1, CreditInt
      <4> QED BY <4>2 DEF IInv, TypeOK, Repaid
    <3>2. Flushable \in SUBSET Pair /\ Aged(msg_queue, d) \in [Pair -> Seq(Messages)]
      <4>1. msg_queue' \in [Pair -> Seq(Messages)]
        BY <1>1, <2>3, TickTypes DEF Flush
      <4> QED BY <1>1, <4>1 DEF Flushable
    <3>3. /\ \A p \in Flushable : write_op'[p] \in {"none", NewOp}
          /\ \A p \in Pair \ Flushable : write_op'[p] = write_op[p]
      BY <1>2, <2>3, <3>1, <3>2, StartWritesEffect, Zenon
    <3>4. NewOp # "ok"
      BY DEF NewOp
    <3>5. \A p \in Flushable : write_op[p] # "ok"
      BY DEF Flushable, IInv, WriteInFlight
    <3> QED BY <3>3, <3>4, <3>5
  <2> QED BY <2>1, <2>2, <2>3 DEF HandleWait, TickOnly, Flush, ops
<1>5. \A p \in Pair : InTransit(p)' = InTransit(p)
  BY <1>1, <1>4, AgedTransit
<1> QED BY <1>1, <1>2, <1>3, <1>5, QuietStep

\* Every other step keeps the queues, the finished writes and the counters.
LEMMA OtherIsQuiet ==
  ASSUME IInv, got' = got, sent' = sent, msg_queue' = msg_queue,
         \A p \in Pair : write_op'[p] = "ok" <=> write_op[p] = "ok",
         close_flag' \in BOOLEAN, close_flag => close_flag'
  PROVE  Pipe!PipeNext \/ UNCHANGED Pipe!pipeVars
<1>1. \A p \in Pair : InTransit(p)' = InTransit(p)
  BY SameTransit
<1>2. close_flag \in BOOLEAN
  BY DEF IInv, TypeOK
<1> QED BY <1>1, <1>2, QuietStep

\* Every step is a step of the pipes or leaves them alone.
LEMMA PipeStep == IInv /\ [Next]_vars => [Pipe!PipeNext]_(Pipe!pipeVars)
<1> SUFFICES ASSUME IInv, [Next]_vars
             PROVE  Pipe!PipeNext \/ UNCHANGED Pipe!pipeVars
  OBVIOUS
<1>1. close_flag \in BOOLEAN /\ write_op \in [Pair -> Ops]
  BY DEF IInv, TypeOK
<1>2. ASSUME /\ got' = got /\ sent' = sent /\ msg_queue' = msg_queue
             /\ write_op' = write_op /\ close_flag' = close_flag
      PROVE  Pipe!PipeNext \/ UNCHANGED Pipe!pipeVars
  BY <1>1, <1>2, OtherIsQuiet
<1>3. ASSUME NEW c, NEW r, Stop(c, r, write_op),
             got' = got, sent' = sent, msg_queue' = msg_queue
      PROVE  Pipe!PipeNext \/ UNCHANGED Pipe!pipeVars
  <2>1. \A p \in Pair : close_flag' = TRUE /\ (write_op'[p] = "ok" <=> write_op[p] = "ok")
    BY <1>3, StopWrites
  <2>2. close_flag' = TRUE
    BY <1>3 DEF Stop
  <2> QED BY <1>3, <2>1, <2>2, OtherIsQuiet
<1>4. CASE UNCHANGED vars \/ Terminated \/ HandlerAfterErase
  BY <1>2, <1>4 DEF vars, flags, ops, Terminated, HandlerAfterErase
<1>5. CASE Handlers
  <2>1. CASE HandleConnectOk
    BY <1>2, <2>1 DEF HandleConnectOk
  <2>2. CASE HandleConnectErr
    BY <1>3, <2>2 DEF HandleConnectErr
  <2>3. ASSUME NEW p \in Pair, NEW size \in Sizes, HandleReadOk(p, size)
        PROVE  Pipe!PipeNext \/ UNCHANGED Pipe!pipeVars
    BY <2>3, ReadAccepts DEF Pipe!PipeNext, Pipe!Sides, Pair
  <2>4. ASSUME NEW p \in Pair, HandleReadErr(p)
        PROVE  Pipe!PipeNext \/ UNCHANGED Pipe!pipeVars
    BY <1>2, <1>3, <2>4 DEF HandleReadErr
  <2>5. ASSUME NEW p \in Pair, HandleWriteOk(p)
        PROVE  Pipe!PipeNext \/ UNCHANGED Pipe!pipeVars
    BY <2>5, PopIsQuiet
  <2>6. ASSUME NEW p \in Pair, HandleWriteErr(p)
        PROVE  Pipe!PipeNext \/ UNCHANGED Pipe!pipeVars
    <3>1. CASE UNCHANGED <<close_flag, ops>>
      BY <1>2, <2>6, <3>1 DEF HandleWriteErr, ops
    <3>2. CASE Stop(connect_op, read_op, [write_op EXCEPT ![p] = "none"])
      <4> DEFINE w == [write_op EXCEPT ![p] = "none"]
      <4>1. \A s \in Pair : w[s] = "ok" <=> write_op[s] = "ok"
        BY <1>1, <2>6 DEF HandleWriteErr
      <4>2. Stop(connect_op, read_op, w)
        BY <3>2
      <4> HIDE DEF w
      <4>3. \A s \in Pair : write_op'[s] = "ok" <=> w[s] = "ok"
        BY <4>2, StopWrites
      <4>4. close_flag' = TRUE
        BY <4>2 DEF Stop
      <4>5. got' = got /\ sent' = sent /\ msg_queue' = msg_queue
        BY <2>6 DEF HandleWriteErr
      <4> QED BY <4>1, <4>3, <4>4, <4>5, OtherIsQuiet
    <3> QED BY <2>6, <3>1, <3>2 DEF HandleWriteErr
  <2> QED BY <1>5, <2>1, <2>2, <2>3, <2>4, <2>5, <2>6 DEF Handlers
<1>6. CASE Kernel
  <2>1. ASSUME NEW r \in {"ok", "err"}, ConnectDone(r)
        PROVE  Pipe!PipeNext \/ UNCHANGED Pipe!pipeVars
    BY <1>2, <2>1 DEF ConnectDone, flags
  <2>2. ASSUME NEW p \in Pair, NEW r \in {"ok", "eof", "err"}, ReadDone(p, r)
        PROVE  Pipe!PipeNext \/ UNCHANGED Pipe!pipeVars
    BY <1>2, <2>2 DEF ReadDone, flags
  <2>3. ASSUME NEW p \in Pair, WriteDone(p, "ok")
        PROVE  Pipe!PipeNext \/ UNCHANGED Pipe!pipeVars
    BY <2>3, WriteDelivers DEF Pipe!PipeNext, Pipe!Sides, Pair
  <2>4. ASSUME NEW p \in Pair, WriteDone(p, "err")
        PROVE  Pipe!PipeNext \/ UNCHANGED Pipe!pipeVars
    <3>1. got' = got /\ sent' = sent /\ msg_queue' = msg_queue /\ close_flag' = close_flag
      BY <2>4 DEF WriteDone, flags
    <3>2. \A s \in Pair : write_op'[s] = "ok" <=> write_op[s] = "ok"
      BY <1>1, <2>4 DEF WriteDone
    <3> QED BY <1>1, <3>1, <3>2, OtherIsQuiet
  <2> QED BY <1>6, <2>1, <2>2, <2>3, <2>4 DEF Kernel
<1>7. CASE Ticks
  BY <1>7, TickIsQuiet DEF Ticks
<1>8. CASE ProxyClose
  BY <1>3, <1>8 DEF ProxyClose
<1>9. CASE IpLimiter
  BY <1>2, <1>9 DEF IpLimiter, IpRoutine, IpOther, flags, ops
<1> QED BY <1>4, <1>5, <1>6, <1>7, <1>8, <1>9 DEF Next

\* Every connection relays in order, each chunk once, from bounded buffers.
THEOREM ImplementsRelayPipe == Spec => RelaysInOrder
<1>1. Init => Pipe!PipeInit
  BY PipeInitHolds
<1>2. IInv /\ [Next]_vars => [Pipe!PipeNext]_(Pipe!pipeVars)
  BY PipeStep
<1> QED BY <1>1, <1>2, Inductive, PTL DEF Spec, RelaysInOrder, Pipe!PipeSpec
-----------------------------------------------------------------------------
(* Each direction is a Throttle.                                           *)

\* LargestCost is what its name says.
LEMMA LargestCostIs ==
  /\ LargestCost \in Nat
  /\ \A m \in Messages : Cost(m) \in 0..LargestCost
<1>1. PICK largest \in Sizes : \A size \in Sizes : size <= largest
  BY RateAssumption
<1>2. /\ Sizes \subseteq Nat /\ TCP_PACKET_EXTRA_OVERHEAD \in Nat
  BY Constants
<1>3. \A size \in Sizes : size + TCP_PACKET_EXTRA_OVERHEAD
                            <= largest + TCP_PACKET_EXTRA_OVERHEAD
  BY <1>1, <1>2
<1>4. \E c \in {size + TCP_PACKET_EXTRA_OVERHEAD : size \in Sizes} :
        \A size \in Sizes : size + TCP_PACKET_EXTRA_OVERHEAD <= c
  BY <1>3
<1>5. /\ LargestCost \in {size + TCP_PACKET_EXTRA_OVERHEAD : size \in Sizes}
      /\ \A size \in Sizes : size + TCP_PACKET_EXTRA_OVERHEAD <= LargestCost
  BY <1>4 DEF LargestCost
<1>6. LargestCost \in Nat
  BY <1>2, <1>5
<1>7. ASSUME NEW m \in Messages PROVE Cost(m) \in 0..LargestCost
  <2>1. Cost(m) \in Nat /\ Cost(m) = m.size + TCP_PACKET_EXTRA_OVERHEAD /\ m.size \in Sizes
    BY CostInt
  <2> QED BY <1>5, <1>6, <2>1
<1> QED BY <1>6, <1>7

\* The step charges balance b of socket p for the write that it starts, if it starts one.
ChargedFrom(b, p) ==
  \E c \in 0..LargestCost :
    /\ c = IF Starts(p) THEN Cost(Head(msg_queue'[p])) ELSE 0
    /\ c > 0 => b >= 0
    /\ available_bytes'[p] = b - c

\* handleWrite charges the message that it writes, and nothing without a write.
LEMMA StartWritesCharge ==
  ASSUME TypeOK, max_bandwidth > 0, NEW S \in SUBSET Pair,
         NEW q \in [Pair -> Seq(Messages)], NEW avail \in [Pair -> Int],
         StartWrites(S, q, avail), msg_queue' = q,
         \A s \in S : write_op[s] \in {"none", "ok"},
         NEW p \in Pair
  PROVE  ChargedFrom(avail[p], p)
<1>1. PICK go : /\ go = {s \in S : MayWrite(s, q, avail) /\ IpAllows(s)}
                /\ available_bytes'[p] = IF p \in go THEN avail[p] - Cost(Head(q[p]))
                                         ELSE avail[p]
                /\ write_op'[p] = IF p \in go THEN NewOp
                                  ELSE IF p \in S THEN "none" ELSE write_op[p]
  BY DEF StartWrites
<1>2. NewOp \in {"pending", "err"}
  BY DEF NewOp
<1>3. CASE p \in go
  <2>1. p \in S /\ q[p] # <<>> /\ avail[p] >= 0 /\ Starts(p)
    BY <1>1, <1>2, <1>3 DEF MayWrite, Starts
  <2>2. Cost(Head(q[p])) \in 0..LargestCost
    <3>1. Head(q[p]) \in Messages
      BY <2>1, PopMessage
    <3> QED BY <3>1, LargestCostIs
  <2> QED BY <1>1, <1>3, <2>1, <2>2 DEF ChargedFrom
<1>4. CASE p \notin go
  <2>1. ~Starts(p)
    BY <1>1, <1>4 DEF Starts
  <2>2. 0 \in 0..LargestCost /\ avail[p] - 0 = avail[p]
    BY LargestCostIs
  <2> QED BY <1>1, <1>4, <2>1, <2>2 DEF ChargedFrom
<1> QED BY <1>3, <1>4

\* Nothing is started and nothing charged.
LEMMA NothingCharged ==
  ASSUME TypeOK, NEW p \in Pair, UNCHANGED available_bytes, ~Starts(p)
  PROVE  ChargedFrom(available_bytes[p], p)
<1>1. 0 \in 0..LargestCost /\ available_bytes[p] - 0 = available_bytes[p]
  BY LargestCostIs DEF TypeOK
<1> QED BY <1>1 DEF ChargedFrom

\* stop() starts no write.
LEMMA StopStartsNone ==
  ASSUME NEW c, NEW r, NEW w, Stop(c, r, w), NEW p \in Pair, w[p] \in {"none", write_op[p]}
  PROVE  ~Starts(p)
BY DEF Stop, Cancelled, Starts

\* A tick charges the balance as it is after the credit of the time that it accounts for.
LEMMA FlushCharge ==
  ASSUME IInv, max_bandwidth > 0, NEW d \in Steps, Flush(d), NEW p \in Pair
  PROVE  \/ ChargedFrom(available_bytes[p], p)
         \/ ChargedFrom(Repaid(d - lag)[p], p)
<1>1. /\ TypeOK /\ available_bytes \in [Pair -> Int] /\ msg_queue \in [Pair -> Seq(Messages)]
  BY DEF IInv, TypeOK
<1>2. CASE StartWrites(Flushable, Aged(msg_queue, d), Repaid(d - lag))
  <2>1. d \in Int /\ lag \in Int /\ d - lag \in Int /\ max_bandwidth \in Int /\ MaxLag \in Int
    BY <1>1, Constants DEF TypeOK
  <2>2. PICK k \in Int : k = Credit(max_bandwidth, d - lag)
    BY <2>1, CreditInt
  <2>3. Repaid(d - lag) \in [Pair -> Int]
    BY <1>1, <2>2 DEF Repaid
  <2>4. Aged(msg_queue, d) \in [Pair -> Seq(Messages)]
    <3>1. \A s \in Pair : AgedSeq(msg_queue[s], d) \in Seq(Messages)
      BY <1>1, <2>1, AgedQueue
    <3> QED BY <3>1 DEF Aged
  <2>5. \A s \in Flushable : write_op[s] \in {"none", "ok"}
    BY DEF Flushable, IInv, WriteInFlight
  <2>6. Flushable \in SUBSET Pair /\ msg_queue' = Aged(msg_queue, d)
    BY DEF Flushable, Flush
  <2>7. PICK avail : avail = Repaid(d - lag)
    OBVIOUS
  <2> QED BY <1>1, <1>2, <2>3, <2>4, <2>5, <2>6, <2>7, StartWritesCharge
<1>3. CASE UNCHANGED <<budget, write_op>>
  <2>1. ~Starts(p)
    BY <1>3 DEF Starts
  <2> QED BY <1>1, <1>3, <2>1, NothingCharged DEF budget
<1>4. CASE Stop(connect_op, read_op, write_op) /\ UNCHANGED budget
  <2>1. ~Starts(p)
    BY <1>4, StopStartsNone
  <2> QED BY <1>1, <1>4, <2>1, NothingCharged DEF budget
<1> QED BY <1>2, <1>3, <1>4 DEF Flush, ops

\* The handlers charge the balance as they find it.
LEMMA HandlersCharge ==
  ASSUME IInv, max_bandwidth > 0, Handlers, NEW p \in Pair
  PROVE  ChargedFrom(available_bytes[p], p)
<1>1. /\ TypeOK /\ available_bytes \in [Pair -> Int] /\ msg_queue \in [Pair -> Seq(Messages)]
      /\ write_op \in [Pair -> Ops]
  BY DEF IInv, TypeOK
<1>2. CASE UNCHANGED <<budget, write_op>>
  <2>1. ~Starts(p)
    BY <1>2 DEF Starts
  <2> QED BY <1>1, <1>2, <2>1, NothingCharged DEF budget
<1>3. ASSUME NEW r, NEW c, NEW w, Stop(c, r, w), UNCHANGED budget,
             w[p] \in {"none", write_op[p]}
      PROVE  ChargedFrom(available_bytes[p], p)
  <2>1. ~Starts(p)
    BY <1>3, StopStartsNone
  <2> QED BY <1>1, <1>3, <2>1, NothingCharged DEF budget
<1>4. CASE HandleConnectOk
  BY <1>2, <1>4 DEF HandleConnectOk
<1>5. CASE HandleConnectErr
  BY <1>3, <1>5 DEF HandleConnectErr
<1>6. ASSUME NEW s \in Pair, NEW size \in Sizes, HandleReadOk(s, size)
      PROVE  ChargedFrom(available_bytes[p], p)
  BY <1>2, <1>6 DEF HandleReadOk
<1>7. ASSUME NEW s \in Pair, HandleReadErr(s)
      PROVE  ChargedFrom(available_bytes[p], p)
  BY <1>2, <1>3, <1>7 DEF HandleReadErr
<1>8. ASSUME NEW s \in Pair, HandleWriteErr(s)
      PROVE  ChargedFrom(available_bytes[p], p)
  <2>1. [write_op EXCEPT ![s] = "none"][p] \in {"none", write_op[p]}
    BY <1>1
  <2> QED BY <1>2, <1>3, <1>8, <2>1 DEF HandleWriteErr, ops
<1>9. ASSUME NEW s \in Pair, HandleWriteOk(s)
      PROVE  ChargedFrom(available_bytes[p], p)
  <2>1. PICK q : q = [msg_queue EXCEPT ![s] = Tail(@)]
    OBVIOUS
  <2>2. msg_queue' = q /\ write_op[s] = "ok"
    BY <1>9, <2>1 DEF HandleWriteOk
  <2>3. q \in [Pair -> Seq(Messages)]
    <3>1. msg_queue[s] # <<>>
      BY <2>2 DEF IInv, WriteInFlight
    <3> QED BY <1>1, <2>1, <3>1, PopMessage
  <2>4. CASE StartWrites({s}, q, available_bytes)
    <3>1. {s} \in SUBSET Pair /\ \A t \in {s} : write_op[t] \in {"none", "ok"}
      BY <2>2
    <3> QED BY <1>1, <2>2, <2>3, <2>4, <3>1, StartWritesCharge
  <2>5. CASE Stop(connect_op, read_op, [write_op EXCEPT ![s] = "none"]) /\ UNCHANGED budget
    <3>1. [write_op EXCEPT ![s] = "none"][p] \in {"none", write_op[p]}
      BY <1>1
    <3> QED BY <1>3, <2>5, <3>1
  <2> QED BY <1>9, <2>1, <2>4, <2>5 DEF HandleWriteOk
<1> QED BY <1>4, <1>5, <1>6, <1>7, <1>8, <1>9 DEF Handlers

\* What else happens charges no balance of the connection.
LEMMA OthersCharge ==
  ASSUME IInv, NEW p \in Pair,
         Kernel \/ ProxyClose \/ IpLimiter \/ HandlerAfterErase \/ Terminated
  PROVE  ChargedFrom(available_bytes[p], p)
<1>1. TypeOK /\ write_op \in [Pair -> Ops]
  BY DEF IInv, TypeOK
<1>2. UNCHANGED available_bytes
  BY DEF Kernel, ConnectDone, ReadDone, WriteDone, ProxyClose, IpLimiter, IpRoutine, IpOther,
         HandlerAfterErase, Terminated, vars, budget
<1>3. UNCHANGED write_op => ~Starts(p)
  BY DEF Starts
<1>4. ASSUME NEW s \in Pair, NEW r \in {"ok", "err"}, WriteDone(s, r) PROVE ~Starts(p)
  BY <1>1, <1>4 DEF WriteDone, Starts
<1>5. ASSUME Kernel PROVE ~Starts(p)
  <2>1. ASSUME NEW r \in {"ok", "err"}, ConnectDone(r) PROVE UNCHANGED write_op
    BY <2>1 DEF ConnectDone
  <2>2. ASSUME NEW s \in Pair, NEW r \in {"ok", "eof", "err"}, ReadDone(s, r)
        PROVE  UNCHANGED write_op
    BY <2>2 DEF ReadDone
  <2> QED BY <1>3, <1>4, <1>5, <2>1, <2>2 DEF Kernel
<1>6. ASSUME IpLimiter \/ HandlerAfterErase \/ Terminated PROVE ~Starts(p)
  BY <1>3, <1>6 DEF IpLimiter, IpRoutine, IpOther, HandlerAfterErase, Terminated, vars, ops
<1>7. ASSUME ProxyClose PROVE ~Starts(p)
  BY <1>7, StopStartsNone DEF ProxyClose
<1>8. ~Starts(p)
  BY <1>5, <1>6, <1>7
<1> QED BY <1>1, <1>2, <1>8, NothingCharged

\* What a step accounts for and charges, as one step of a Throttle.
LEMMA RateStep ==
  ASSUME IInv, max_bandwidth > 0, elapsed \in Nat, RateNext, NEW p \in Pair
  PROVE  /\ elapsed' \in Nat
         /\ \E d \in 0..MaxElapsed :
              /\ elapsed' = elapsed + d
              /\ \E b \in {available_bytes[p],
                           IF available_bytes[p] < 0
                           THEN available_bytes[p] + (d * max_bandwidth) \div 1000
                           ELSE available_bytes[p]} : ChargedFrom(b, p)
<1>1. TypeOK /\ lag \in Int /\ MaxElapsed \in Nat /\ available_bytes \in [Pair -> Int]
  BY RateAssumption, Constants DEF IInv, TypeOK
<1>2. CASE RateOther
  <2>1. ChargedFrom(available_bytes[p], p)
    BY <1>2, HandlersCharge, OthersCharge DEF RateOther
  <2>2. elapsed' = elapsed + 0 /\ 0 \in 0..MaxElapsed /\ elapsed' \in Nat
    BY <1>1, <1>2 DEF RateOther
  <2> QED BY <2>1, <2>2
<1>3. ASSUME NEW d \in Steps, RateTick(d), TickOnly(d)
      PROVE  /\ elapsed' = elapsed + 0 /\ 0 \in 0..MaxElapsed /\ elapsed' \in Nat
             /\ ChargedFrom(available_bytes[p], p)
  <2>1. d \in Int /\ d <= lag
    BY <1>3, Constants DEF TickOnly
  <2>2. elapsed' = elapsed + 0
    BY <1>1, <1>3, <2>1 DEF RateTick, AtLeast
  <2>3. UNCHANGED available_bytes /\ ~Starts(p)
    BY <1>3 DEF TickOnly, budget, ops, Starts
  <2> QED BY <1>1, <2>2, <2>3, NothingCharged
<1>4. ASSUME NEW d \in Steps, RateTick(d), Flush(d)
      PROVE  /\ elapsed' = elapsed + (d - lag) /\ d - lag \in 0..MaxElapsed /\ elapsed' \in Nat
             /\ \/ ChargedFrom(available_bytes[p], p)
                \/ ChargedFrom(Repaid(d - lag)[p], p)
  <2>1. d \in Int /\ d > lag
    BY <1>4, Constants DEF Flush
  <2>2. elapsed' = elapsed + (d - lag) /\ elapsed' <= MaxElapsed
    BY <1>1, <1>4, <2>1 DEF RateTick, AtLeast
  <2>3. d - lag \in 0..MaxElapsed /\ elapsed' \in Nat
    BY <1>1, <2>1, <2>2
  <2> QED BY <1>4, <2>2, <2>3, FlushCharge
<1>5. \A d : Repaid(d)[p] = IF available_bytes[p] < 0
                            THEN available_bytes[p] + (d * max_bandwidth) \div 1000
                            ELSE available_bytes[p]
  BY DEF Repaid, Credit
<1>6. CASE \E d \in Steps : RateTick(d)
  <2>1. PICK d \in Steps : RateTick(d)
    BY <1>6
  <2>2. CASE TickOnly(d)
    BY <1>3, <2>1, <2>2
  <2>3. CASE Flush(d)
    <3>1. PICK e \in 0..MaxElapsed : e = d - lag
      BY <1>4, <2>1, <2>3
    <3> QED BY <1>4, <1>5, <2>1, <2>3, <3>1
  <2> QED BY <2>1, <2>2, <2>3 DEF RateTick, HandleWait
<1> QED BY <1>2, <1>6 DEF RateNext

\* The history does not change what the connection does.
LEMMA RateInductive == RateSpec => [](IInv /\ elapsed \in Nat)
<1>1. RateInit => IInv /\ elapsed \in Nat
  BY InitIInv DEF RateInit
<1>2. ASSUME RateNext PROVE Next
  BY <1>2 DEF RateNext, RateOther, RateTick, Next, Ticks
<1>3. IInv /\ elapsed \in Nat /\ [RateNext]_rateVars => (IInv /\ elapsed \in Nat)'
  <2> SUFFICES ASSUME IInv, elapsed \in Nat, [RateNext]_rateVars
               PROVE  IInv' /\ elapsed' \in Nat
    OBVIOUS
  <2>1. IInv'
    BY <1>2, NextIInv DEF rateVars
  <2>2. elapsed' \in Nat
    <3>1. CASE RateOther \/ UNCHANGED rateVars
      BY <3>1 DEF RateOther, rateVars
    <3>2. ASSUME NEW d \in Steps, RateTick(d) PROVE elapsed' \in Nat
      <4>1. d - lag \in Int /\ elapsed' = elapsed + AtLeast(d - lag, 0)
        BY <3>2, Constants DEF RateTick, IInv, TypeOK
      <4>2. AtLeast(d - lag, 0) \in Nat
        BY <4>1, AtLeastInt
      <4> QED BY <4>1, <4>2
    <3> QED BY <3>1, <3>2 DEF RateNext
  <2> QED BY <2>1, <2>2
<1> QED BY <1>1, <1>3, PTL DEF RateSpec

\* One step of the connection is one step of the Throttle of each direction.
LEMMA ToClientStep ==
  ASSUME max_bandwidth > 0, IInv, elapsed \in Nat, [RateNext]_rateVars
  PROVE  [ToClient!ThrottleNext]_(ToClient!throttleVars)
<1>1. CASE UNCHANGED rateVars
  BY <1>1 DEF rateVars, vars, budget, ToClient!throttleVars
<1>2. CASE RateNext
  <2>1. 0 \in Pair
    BY DEF Pair
  <2>2. PICK d \in 0..MaxElapsed :
          /\ elapsed' = elapsed + d
          /\ \E b \in {available_bytes[0],
                       IF available_bytes[0] < 0
                       THEN available_bytes[0] + (d * max_bandwidth) \div 1000
                       ELSE available_bytes[0]} : ChargedFrom(b, 0)
    BY <1>2, <2>1, RateStep
  <2>3. PICK b \in {available_bytes[0], ToClient!Credited(available_bytes[0], d)} :
          ChargedFrom(b, 0)
    BY <2>2 DEF ToClient!Credited
  <2>4. PICK c \in 0..LargestCost :
          /\ c = IF Starts(0) THEN Cost(Head(msg_queue'[0])) ELSE 0
          /\ c > 0 => b >= 0
          /\ available_bytes'[0] = b - c
    BY <2>3 DEF ChargedFrom
  <2>5. spent'[0] = spent[0] + c
    BY <1>2, <2>1, <2>4 DEF RateNext, RateOther, RateTick, Charge
  <2>6. ToClient!Step(d, c)
    BY <2>2, <2>3, <2>4, <2>5 DEF ToClient!Step
  <2> QED BY <2>6 DEF ToClient!ThrottleNext
<1> QED BY <1>1, <1>2

LEMMA ToServerStep ==
  ASSUME max_bandwidth > 0, IInv, elapsed \in Nat, [RateNext]_rateVars
  PROVE  [ToServer!ThrottleNext]_(ToServer!throttleVars)
<1>1. CASE UNCHANGED rateVars
  BY <1>1 DEF rateVars, vars, budget, ToServer!throttleVars
<1>2. CASE RateNext
  <2>1. 1 \in Pair
    BY DEF Pair
  <2>2. PICK d \in 0..MaxElapsed :
          /\ elapsed' = elapsed + d
          /\ \E b \in {available_bytes[1],
                       IF available_bytes[1] < 0
                       THEN available_bytes[1] + (d * max_bandwidth) \div 1000
                       ELSE available_bytes[1]} : ChargedFrom(b, 1)
    BY <1>2, <2>1, RateStep
  <2>3. PICK b \in {available_bytes[1], ToServer!Credited(available_bytes[1], d)} :
          ChargedFrom(b, 1)
    BY <2>2 DEF ToServer!Credited
  <2>4. PICK c \in 0..LargestCost :
          /\ c = IF Starts(1) THEN Cost(Head(msg_queue'[1])) ELSE 0
          /\ c > 0 => b >= 0
          /\ available_bytes'[1] = b - c
    BY <2>3 DEF ChargedFrom
  <2>5. spent'[1] = spent[1] + c
    BY <1>2, <2>1, <2>4 DEF RateNext, RateOther, RateTick, Charge
  <2>6. ToServer!Step(d, c)
    BY <2>2, <2>3, <2>4, <2>5 DEF ToServer!Step
  <2> QED BY <2>6 DEF ToServer!ThrottleNext
<1> QED BY <1>1, <1>2

\* flushMsgs and handleWrite: with a bandwidth each direction of a connection is a Throttle.
THEOREM ImplementsThrottle == ASSUME max_bandwidth > 0 PROVE RateSpec => TcpThrottled
<1>1. RateInit => ToClient!ThrottleInit /\ ToServer!ThrottleInit
  BY DEF RateInit, Init, Both, Pair, ToClient!ThrottleInit, ToServer!ThrottleInit
<1>2. IInv /\ elapsed \in Nat /\ [RateNext]_rateVars
        => /\ [ToClient!ThrottleNext]_(ToClient!throttleVars)
           /\ [ToServer!ThrottleNext]_(ToServer!throttleVars)
  BY ToClientStep, ToServerStep
<1> QED BY <1>1, <1>2, RateInductive, PTL
        DEF RateSpec, TcpThrottled, ToClient!ThrottleSpec, ToServer!ThrottleSpec

\* The proof of the rate bound, for each direction.
ClientRate == INSTANCE ThrottleProofs
  WITH bandwidth <- max_bandwidth, MaxCost <- LargestCost, Intervals <- 0..MaxElapsed,
       balance <- available_bytes[0], spent <- spent[0]
ServerRate == INSTANCE ThrottleProofs
  WITH bandwidth <- max_bandwidth, MaxCost <- LargestCost, Intervals <- 0..MaxElapsed,
       balance <- available_bytes[1], spent <- spent[1]

\* MAX_BANDWIDTH of proxy.conf: whatever the bandwidth, each direction of a connection exceeds
\* it by one packet at most, over its whole life.
THEOREM ConnectionRateHolds == ASSUME max_bandwidth > 0 PROVE RateSpec => []RateBounded
<1>1. ClientRate!Sound /\ ServerRate!Sound
  BY Constants, LargestCostIs DEF ClientRate!Sound, ServerRate!Sound
<1>2. ClientRate!ThrottleSpec => []ClientRate!RateBound
  BY <1>1, ClientRate!RateHolds
<1>3. ServerRate!ThrottleSpec => []ServerRate!RateBound
  BY <1>1, ServerRate!RateHolds
<1>4. /\ ToClient!ThrottleInit => ClientRate!ThrottleInit
      /\ [ToClient!ThrottleNext]_(ToClient!throttleVars) => [ClientRate!ThrottleNext]_(ClientRate!throttleVars)
      /\ ClientRate!RateBound => ToClient!RateBound
  BY DEF ToClient!ThrottleInit, ClientRate!ThrottleInit, ToClient!throttleVars, ClientRate!throttleVars,
         ToClient!ThrottleNext, ClientRate!ThrottleNext, ToClient!Step, ClientRate!Step,
         ToClient!Credited, ClientRate!Credited, ToClient!RateBound, ClientRate!RateBound
<1>5. /\ ToServer!ThrottleInit => ServerRate!ThrottleInit
      /\ [ToServer!ThrottleNext]_(ToServer!throttleVars) => [ServerRate!ThrottleNext]_(ServerRate!throttleVars)
      /\ ServerRate!RateBound => ToServer!RateBound
  BY DEF ToServer!ThrottleInit, ServerRate!ThrottleInit, ToServer!throttleVars, ServerRate!throttleVars,
         ToServer!ThrottleNext, ServerRate!ThrottleNext, ToServer!Step, ServerRate!Step,
         ToServer!Credited, ServerRate!Credited, ToServer!RateBound, ServerRate!RateBound
<1> QED BY <1>2, <1>3, <1>4, <1>5, ImplementsThrottle, PTL
        DEF TcpThrottled, RateBounded, ToClient!ThrottleSpec, ToServer!ThrottleSpec,
            ClientRate!ThrottleSpec, ServerRate!ThrottleSpec
=============================================================================
