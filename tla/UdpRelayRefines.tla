--------------------------- MODULE UdpRelayRefines ---------------------------
(***************************************************************************)
(* UdpRelay implements LossyFifo, for any peers, flows, limits, times and  *)
(* numbers of datagrams and errors.                                        *)
(***************************************************************************)
EXTENDS UdpRelayProofs

\* The queues of an endpoint as lines of <<peer, number>>; one that does not exist has
\* empty ones.  The datagram in recving_msg is a line of its own.
NoLine   == [i \in 1..0 |-> <<None, 0>>]
Sends(o) == IF o = Gone THEN NoLine
            ELSE [i \in DOMAIN o.send_queue |-> <<o.send_queue[i].dst, o.send_queue[i].num>>]
Recvs(o) == IF o = Gone THEN NoLine
            ELSE [i \in DOMAIN o.recv_queue |-> <<o.recv_queue[i].src, o.recv_queue[i].num>>]
Holds(o) == IF o = Gone \/ o.recving_msg = None THEN NoLine
            ELSE [i \in 1..1 |-> <<o.recving_msg.src, o.recving_msg.num>>]

\* The numbers in a line that are of p, and that they rise along the line.
Of(q, p)     == {q[i][2] : i \in {k \in DOMAIN q : q[k][1] = p}}
Climbs(q, p) == \A i, j \in DOMAIN q :
                  i < j /\ q[i][1] = p /\ q[j][1] = p => q[i][2] < q[j][2]

\* How a line changes: some of its front and of its end is lost, its first goes, or one
\* is added.
Thinned(r, q) ==
  \E K, L, M \in Nat : /\ DOMAIN q = 1..L /\ DOMAIN r = 1..M /\ M + K <= L
                       /\ \A i \in 1..M : r[i] = q[i + K]
Shortened(r, q, e) ==
  \E L \in Nat : /\ DOMAIN q = 1..(L + 1) /\ DOMAIN r = 1..L /\ q[1] = e
                 /\ \A i \in 1..L : r[i] = q[i + 1]
Extended(r, q, e) ==
  \E L \in Nat : /\ DOMAIN q = 1..L /\ DOMAIN r = 1..(L + 1) /\ r[L + 1] = e
                 /\ \A i \in 1..L : r[i] = q[i]

LEMMA ThinnedIs ==
  ASSUME NEW q, NEW r, Thinned(r, q), NEW p
  PROVE  Of(r, p) \subseteq Of(q, p) /\ (Climbs(q, p) => Climbs(r, p))
<1>1. PICK K \in Nat, L \in Nat, M \in Nat :
           /\ DOMAIN q = 1..L /\ DOMAIN r = 1..M /\ M + K <= L
           /\ \A i \in 1..M : r[i] = q[i + K]
  BY DEF Thinned
<1>2. \A i \in 1..M : i + K \in 1..L
  BY <1>1
<1>3. Of(r, p) \subseteq Of(q, p)
  BY <1>1, <1>2 DEF Of
<1>4. ASSUME Climbs(q, p) PROVE Climbs(r, p)
  <2> SUFFICES ASSUME NEW i \in 1..M, NEW j \in 1..M, i < j, r[i][1] = p, r[j][1] = p
               PROVE  r[i][2] < r[j][2]
    BY <1>1 DEF Climbs
  <2>1. /\ i + K \in DOMAIN q /\ j + K \in DOMAIN q /\ i + K < j + K
        /\ r[i] = q[i + K] /\ r[j] = q[j + K]
    BY <1>1, <1>2
  <2> QED BY <2>1, <1>4 DEF Climbs
<1> QED BY <1>3, <1>4

LEMMA ShortenedIs ==
  ASSUME NEW q, NEW r, NEW p, NEW k, Shortened(r, q, <<p, k>>)
  PROVE  /\ Thinned(r, q)
         /\ Of(q, p) = Of(r, p) \cup {k}
         /\ Climbs(q, p) => \A n \in Of(r, p) : k < n
         /\ \A x : x # p => Of(r, x) = Of(q, x)
<1>1. PICK L \in Nat : /\ DOMAIN q = 1..(L + 1) /\ DOMAIN r = 1..L /\ q[1] = <<p, k>>
                       /\ \A i \in 1..L : r[i] = q[i + 1]
  BY DEF Shortened
<1>2. /\ \A i \in 1..L : i + 1 \in 1..(L + 1) /\ 1 < i + 1
      /\ \A i \in 1..(L + 1) : i = 1 \/ (i - 1 \in 1..L /\ (i - 1) + 1 = i)
      /\ 1 \in 1..(L + 1) /\ q[1][1] = p /\ q[1][2] = k
  BY <1>1
<1>3. Thinned(r, q)
  <2>1. 1 \in Nat /\ L + 1 \in Nat /\ L + 1 <= L + 1
    OBVIOUS
  <2> QED BY <1>1, <2>1 DEF Thinned
<1>4. ASSUME NEW i \in DOMAIN q
      PROVE  i = 1 \/ \E j \in DOMAIN r : r[j] = q[i]
  <2>1. i \in 1..(L + 1)
    BY <1>1
  <2>2. i = 1 \/ (i - 1 \in 1..L /\ r[i - 1] = q[i])
    BY <2>1, <1>1, <1>2
  <2> QED BY <2>2, <1>1
<1>5. \A x : Of(q, x) \subseteq Of(r, x) \cup {q[1][2]}
  BY <1>4 DEF Of
<1>6. \A x : x # p => Of(q, x) \subseteq Of(r, x)
  BY <1>2, <1>4 DEF Of
<1>7. \A x : Of(r, x) \subseteq Of(q, x)
  BY <1>3, ThinnedIs
<1>8. k \in Of(q, p)
  BY <1>1, <1>2 DEF Of
<1>9. ASSUME Climbs(q, p), NEW n \in Of(r, p) PROVE k < n
  <2>1. PICK i \in 1..L : r[i][1] = p /\ r[i][2] = n
    BY <1>1 DEF Of
  <2>2. /\ i + 1 \in DOMAIN q /\ 1 \in DOMAIN q /\ 1 < i + 1
        /\ q[i + 1][1] = p /\ q[i + 1][2] = n
    BY <2>1, <1>1, <1>2
  <2> QED BY <2>2, <1>2, <1>9 DEF Climbs
<1>10. Of(q, p) = Of(r, p) \cup {k}
  <2>1. Of(q, p) \subseteq Of(r, p) \cup {k} /\ Of(r, p) \subseteq Of(q, p)
    BY <1>2, <1>5, <1>7
  <2> QED BY <2>1, <1>8
<1>11. ASSUME NEW x, x # p PROVE Of(r, x) = Of(q, x)
  <2>1. Of(q, x) \subseteq Of(r, x) /\ Of(r, x) \subseteq Of(q, x)
    BY <1>6, <1>7, <1>11
  <2> QED BY <2>1
<1>12. Climbs(q, p) => \A n \in Of(r, p) : k < n
  BY <1>9
<1> QED BY <1>3, <1>10, <1>11, <1>12

LEMMA ExtendedIs ==
  ASSUME NEW q, NEW r, NEW p, NEW k, Extended(r, q, <<p, k>>)
  PROVE  /\ Of(r, p) = Of(q, p) \cup {k}
         /\ Climbs(q, p) /\ (\A n \in Of(q, p) : n < k) => Climbs(r, p)
         /\ \A x : x # p => Of(r, x) = Of(q, x) /\ (Climbs(q, x) => Climbs(r, x))
<1>1. PICK L \in Nat : /\ DOMAIN q = 1..L /\ DOMAIN r = 1..(L + 1) /\ r[L + 1] = <<p, k>>
                       /\ \A i \in 1..L : r[i] = q[i]
  BY DEF Extended
<1>2. /\ \A i \in 1..L : i \in 1..(L + 1) /\ i # L + 1
      /\ \A i \in 1..(L + 1) : i = L + 1 \/ i \in 1..L
      /\ L + 1 \in 1..(L + 1) /\ r[L + 1][1] = p /\ r[L + 1][2] = k
  BY <1>1
<1>3. \A x : Of(q, x) \subseteq Of(r, x)
  BY <1>1, <1>2 DEF Of
<1>4. \A x : Of(r, x) \subseteq Of(q, x) \cup {k}
  BY <1>1, <1>2 DEF Of
<1>5. \A x : x # p => Of(r, x) \subseteq Of(q, x)
  BY <1>1, <1>2 DEF Of
<1>6. k \in Of(r, p)
  BY <1>1, <1>2 DEF Of
<1>7. ASSUME NEW x, Climbs(q, x), x # p \/ \A n \in Of(q, p) : n < k
      PROVE  Climbs(r, x)
  <2> SUFFICES ASSUME NEW i \in 1..(L + 1), NEW j \in 1..(L + 1), i < j,
                      r[i][1] = x, r[j][1] = x
               PROVE  r[i][2] < r[j][2]
    BY <1>1 DEF Climbs
  <2>1. i \in 1..L /\ r[i] = q[i]
    BY <1>1
  <2>2. CASE j \in 1..L
    <3>1. r[j] = q[j] /\ i \in DOMAIN q /\ j \in DOMAIN q
      BY <1>1, <2>1, <2>2
    <3> QED BY <3>1, <2>1, <1>7 DEF Climbs
  <2>3. CASE j = L + 1
    <3>1. x = p /\ r[j][2] = k
      BY <1>2, <2>3
    <3>2. r[i][2] \in Of(q, p)
      BY <1>1, <2>1, <3>1 DEF Of
    <3> QED BY <3>1, <3>2, <1>7
  <2> QED BY <1>2, <2>2, <2>3
<1>8. Of(r, p) = Of(q, p) \cup {k}
  <2>1. Of(r, p) \subseteq Of(q, p) \cup {k} /\ Of(q, p) \subseteq Of(r, p)
    BY <1>3, <1>4
  <2> QED BY <2>1, <1>6
<1>9. ASSUME NEW x, x # p PROVE Of(r, x) = Of(q, x) /\ (Climbs(q, x) => Climbs(r, x))
  <2>1. Of(q, x) \subseteq Of(r, x) /\ Of(r, x) \subseteq Of(q, x)
    BY <1>3, <1>5, <1>9
  <2>2. Climbs(q, x) => Climbs(r, x)
    BY <1>7, <1>9
  <2> QED BY <2>1, <2>2
<1>10. Climbs(q, p) /\ (\A n \in Of(q, p) : n < k) => Climbs(r, p)
  BY <1>7
<1> QED BY <1>8, <1>9, <1>10
-----------------------------------------------------------------------------
\* The lines of an endpoint grow less.
Lessens(r, o) ==
  Thinned(Sends(r), Sends(o)) /\ Thinned(Recvs(r), Recvs(o)) /\ Thinned(Holds(r), Holds(o))

\* Lines have a length.
LEMMA LineLengths ==
  ASSUME NEW o \in Objects \cup {Gone}
  PROVE  /\ \E L \in Nat : DOMAIN Sends(o) = 1..L
         /\ \E L \in Nat : DOMAIN Recvs(o) = 1..L
         /\ \E L \in Nat : DOMAIN Holds(o) = 1..L
<1>1. CASE o = Gone
  BY <1>1 DEF Sends, Recvs, Holds, NoLine
<1>2. CASE o # Gone
  <2>1. o.send_queue \in Seq([dst : Peers, num : Nat]) /\ o.recv_queue \in Seq(Messages)
    BY <1>2 DEF Objects
  <2>2. /\ Len(o.send_queue) \in Nat /\ DOMAIN Sends(o) = 1..Len(o.send_queue)
        /\ Len(o.recv_queue) \in Nat /\ DOMAIN Recvs(o) = 1..Len(o.recv_queue)
    BY <1>2, <2>1 DEF Sends, Recvs
  <2>3. DOMAIN Holds(o) = 1..0 \/ DOMAIN Holds(o) = 1..1
    BY DEF Holds, NoLine
  <2> QED BY <2>2, <2>3
<1> QED BY <1>1, <1>2

LEMMA ThinnedSame ==
  ASSUME NEW q, \E L \in Nat : DOMAIN q = 1..L PROVE Thinned(q, q)
<1>1. PICK L \in Nat : DOMAIN q = 1..L
  OBVIOUS
<1>2. 0 \in Nat /\ L + 0 <= L /\ \A i \in 1..L : q[i] = q[i + 0]
  OBVIOUS
<1> QED BY <1>1, <1>2 DEF Thinned

LEMMA ThinnedAway ==
  ASSUME NEW q, \E L \in Nat : DOMAIN q = 1..L, NEW r, DOMAIN r = 1..0
  PROVE  Thinned(r, q)
<1>1. PICK L \in Nat : DOMAIN q = 1..L
  OBVIOUS
<1>2. 0 \in Nat /\ 0 + 0 <= L /\ \A i \in 1..0 : r[i] = q[i + 0]
  OBVIOUS
<1> QED BY <1>1, <1>2 DEF Thinned

LEMMA LessensSame == ASSUME NEW o \in Objects \cup {Gone} PROVE Lessens(o, o)
BY LineLengths, ThinnedSame DEF Lessens

LEMMA LessensAway ==
  ASSUME NEW o \in Objects \cup {Gone}, NEW r,
         \/ r = Gone
         \/ r.send_queue = <<>> /\ r.recv_queue = <<>> /\ r.recving_msg = None
  PROVE  Lessens(r, o)
<1>1. DOMAIN Sends(r) = 1..0 /\ DOMAIN Recvs(r) = 1..0 /\ DOMAIN Holds(r) = 1..0
  BY DEF Sends, Recvs, Holds, NoLine
<1> QED BY <1>1, LineLengths, ThinnedAway DEF Lessens

\* The first of a queue goes, or one is added.
LEMMA TailSends ==
  ASSUME NEW o \in Objects, NEW r \in Objects, o.send_queue # <<>>,
         r.send_queue = Tail(o.send_queue)
  PROVE  Shortened(Sends(r), Sends(o), <<Head(o.send_queue).dst, Head(o.send_queue).num>>)
<1>1. o.send_queue \in Seq([dst : Peers, num : Nat]) /\ o # Gone /\ r # Gone
  BY NothingAssumption DEF Objects, NothingAssumption
<1>2. PICK L \in Nat : Len(o.send_queue) = L + 1
  <2>1. Len(o.send_queue) \in Nat /\ Len(o.send_queue) > 0
    BY <1>1
  <2>2. Len(o.send_queue) - 1 \in Nat /\ Len(o.send_queue) = (Len(o.send_queue) - 1) + 1
    BY <2>1
  <2> QED BY <2>2
<1>3. /\ DOMAIN o.send_queue = 1..(L + 1) /\ DOMAIN r.send_queue = 1..L
      /\ Head(o.send_queue) = o.send_queue[1]
      /\ \A i \in 1..L : r.send_queue[i] = o.send_queue[i + 1]
  BY <1>1, <1>2
<1>4. DOMAIN Sends(o) = 1..(L + 1) /\ DOMAIN Sends(r) = 1..L
  BY <1>1, <1>3 DEF Sends
<1>5. /\ \A i \in 1..(L + 1) : Sends(o)[i] = <<o.send_queue[i].dst, o.send_queue[i].num>>
      /\ \A i \in 1..L : Sends(r)[i] = <<r.send_queue[i].dst, r.send_queue[i].num>>
  BY <1>1, <1>3 DEF Sends
<1>6. 1 \in 1..(L + 1) /\ \A i \in 1..L : i + 1 \in 1..(L + 1)
  OBVIOUS
<1>7. Sends(o)[1] = <<Head(o.send_queue).dst, Head(o.send_queue).num>>
  BY <1>3, <1>5, <1>6
<1>8. \A i \in 1..L : Sends(r)[i] = Sends(o)[i + 1]
  BY <1>3, <1>5, <1>6
<1> QED BY <1>4, <1>7, <1>8 DEF Shortened

LEMMA TailRecvs ==
  ASSUME NEW o \in Objects, NEW r \in Objects, o.recv_queue # <<>>,
         r.recv_queue = Tail(o.recv_queue)
  PROVE  Shortened(Recvs(r), Recvs(o), <<Head(o.recv_queue).src, Head(o.recv_queue).num>>)
<1>1. o.recv_queue \in Seq(Messages) /\ o # Gone /\ r # Gone
  BY NothingAssumption DEF Objects, NothingAssumption
<1>2. PICK L \in Nat : Len(o.recv_queue) = L + 1
  <2>1. Len(o.recv_queue) \in Nat /\ Len(o.recv_queue) > 0
    BY <1>1
  <2>2. Len(o.recv_queue) - 1 \in Nat /\ Len(o.recv_queue) = (Len(o.recv_queue) - 1) + 1
    BY <2>1
  <2> QED BY <2>2
<1>3. /\ DOMAIN o.recv_queue = 1..(L + 1) /\ DOMAIN r.recv_queue = 1..L
      /\ Head(o.recv_queue) = o.recv_queue[1]
      /\ \A i \in 1..L : r.recv_queue[i] = o.recv_queue[i + 1]
  BY <1>1, <1>2
<1>4. DOMAIN Recvs(o) = 1..(L + 1) /\ DOMAIN Recvs(r) = 1..L
  BY <1>1, <1>3 DEF Recvs
<1>5. /\ \A i \in 1..(L + 1) : Recvs(o)[i] = <<o.recv_queue[i].src, o.recv_queue[i].num>>
      /\ \A i \in 1..L : Recvs(r)[i] = <<r.recv_queue[i].src, r.recv_queue[i].num>>
  BY <1>1, <1>3 DEF Recvs
<1>6. 1 \in 1..(L + 1) /\ \A i \in 1..L : i + 1 \in 1..(L + 1)
  OBVIOUS
<1>7. Recvs(o)[1] = <<Head(o.recv_queue).src, Head(o.recv_queue).num>>
  BY <1>3, <1>5, <1>6
<1>8. \A i \in 1..L : Recvs(r)[i] = Recvs(o)[i + 1]
  BY <1>3, <1>5, <1>6
<1> QED BY <1>4, <1>7, <1>8 DEF Shortened

LEMMA MoreSends ==
  ASSUME NEW o \in Objects, NEW r \in Objects, NEW m \in [dst : Peers, num : Nat],
         r.send_queue = Append(o.send_queue, m)
  PROVE  Extended(Sends(r), Sends(o), <<m.dst, m.num>>)
<1>1. o.send_queue \in Seq([dst : Peers, num : Nat]) /\ o # Gone /\ r # Gone
  BY NothingAssumption DEF Objects, NothingAssumption
<1>2. PICK L \in Nat : Len(o.send_queue) = L
  BY <1>1
<1>3. /\ DOMAIN o.send_queue = 1..L /\ DOMAIN r.send_queue = 1..(L + 1)
      /\ r.send_queue[L + 1] = m
      /\ \A i \in 1..L : r.send_queue[i] = o.send_queue[i]
  BY <1>1, <1>2
<1>4. DOMAIN Sends(o) = 1..L /\ DOMAIN Sends(r) = 1..(L + 1)
  BY <1>1, <1>3 DEF Sends
<1>5. /\ \A i \in 1..L : Sends(o)[i] = <<o.send_queue[i].dst, o.send_queue[i].num>>
      /\ \A i \in 1..(L + 1) : Sends(r)[i] = <<r.send_queue[i].dst, r.send_queue[i].num>>
  BY <1>1, <1>3 DEF Sends
<1>6. L + 1 \in 1..(L + 1) /\ \A i \in 1..L : i \in 1..(L + 1)
  OBVIOUS
<1>7. Sends(r)[L + 1] = <<m.dst, m.num>>
  BY <1>3, <1>5, <1>6
<1>8. \A i \in 1..L : Sends(r)[i] = Sends(o)[i]
  BY <1>3, <1>5, <1>6
<1> QED BY <1>4, <1>7, <1>8 DEF Extended

LEMMA MoreRecvs ==
  ASSUME NEW o \in Objects, NEW r \in Objects, NEW m \in Messages,
         r.recv_queue = Append(o.recv_queue, m)
  PROVE  Extended(Recvs(r), Recvs(o), <<m.src, m.num>>)
<1>1. o.recv_queue \in Seq(Messages) /\ o # Gone /\ r # Gone
  BY NothingAssumption DEF Objects, NothingAssumption
<1>2. PICK L \in Nat : Len(o.recv_queue) = L
  BY <1>1
<1>3. /\ DOMAIN o.recv_queue = 1..L /\ DOMAIN r.recv_queue = 1..(L + 1)
      /\ r.recv_queue[L + 1] = m
      /\ \A i \in 1..L : r.recv_queue[i] = o.recv_queue[i]
  BY <1>1, <1>2
<1>4. DOMAIN Recvs(o) = 1..L /\ DOMAIN Recvs(r) = 1..(L + 1)
  BY <1>1, <1>3 DEF Recvs
<1>5. /\ \A i \in 1..L : Recvs(o)[i] = <<o.recv_queue[i].src, o.recv_queue[i].num>>
      /\ \A i \in 1..(L + 1) : Recvs(r)[i] = <<r.recv_queue[i].src, r.recv_queue[i].num>>
  BY <1>1, <1>3 DEF Recvs
<1>6. L + 1 \in 1..(L + 1) /\ \A i \in 1..L : i \in 1..(L + 1)
  OBVIOUS
<1>7. Recvs(r)[L + 1] = <<m.src, m.num>>
  BY <1>3, <1>5, <1>6
<1>8. \A i \in 1..L : Recvs(r)[i] = Recvs(o)[i]
  BY <1>3, <1>5, <1>6
<1> QED BY <1>4, <1>7, <1>8 DEF Extended

\* The queues stay, or their first go, and recving_msg stays or is taken.
LEMMA LessensTail ==
  ASSUME NEW o \in Objects, NEW r \in Objects,
         \/ r.send_queue = o.send_queue
         \/ o.send_queue # <<>> /\ r.send_queue = Tail(o.send_queue),
         \/ r.recv_queue = o.recv_queue
         \/ o.recv_queue # <<>> /\ r.recv_queue = Tail(o.recv_queue),
         r.recving_msg \in {o.recving_msg, None}
  PROVE  Lessens(r, o)
<1>0. o # Gone /\ r # Gone
  BY NothingAssumption DEF NothingAssumption
<1>1. Thinned(Sends(r), Sends(o))
  <2>1. CASE r.send_queue = o.send_queue
    <3>1. Sends(r) = Sends(o)
      BY <1>0, <2>1 DEF Sends
    <3> QED BY <3>1, LineLengths, ThinnedSame
  <2>2. CASE o.send_queue # <<>> /\ r.send_queue = Tail(o.send_queue)
    BY <2>2, TailSends, ShortenedIs
  <2> QED BY <2>1, <2>2
<1>2. Thinned(Recvs(r), Recvs(o))
  <2>1. CASE r.recv_queue = o.recv_queue
    <3>1. Recvs(r) = Recvs(o)
      BY <1>0, <2>1 DEF Recvs
    <3> QED BY <3>1, LineLengths, ThinnedSame
  <2>2. CASE o.recv_queue # <<>> /\ r.recv_queue = Tail(o.recv_queue)
    BY <2>2, TailRecvs, ShortenedIs
  <2> QED BY <2>1, <2>2
<1>3. Thinned(Holds(r), Holds(o))
  <2>1. CASE r.recving_msg = o.recving_msg
    <3>1. Holds(r) = Holds(o)
      BY <1>0, <2>1 DEF Holds
    <3> QED BY <3>1, LineLengths, ThinnedSame
  <2>2. CASE r.recving_msg = None
    <3>1. DOMAIN Holds(r) = 1..0
      BY <1>0, <2>2 DEF Holds, NoLine
    <3> QED BY <3>1, LineLengths, ThinnedAway
  <2> QED BY <2>1, <2>2
<1> QED BY <1>1, <1>2, <1>3 DEF Lessens
-----------------------------------------------------------------------------
\* Of a flow: of what was received, what was sent on is the oldest, then what waits to be
\* sent, then what waits to be passed on, then what is in recving_msg.
Ordered(A, B, C, D, n) ==
  /\ A \cup B \cup C \cup D \subseteq 1..n
  /\ \A d \in D : \A k \in A \cup B \cup C : d < k
  /\ \A a \in A : \A k \in B \cup C : a < k
  /\ \A b \in B : \A c \in C : b < c

FlowOk(f) ==
  /\ Climbs(Sends(ept[f[1]]), f[2]) /\ Climbs(Recvs(ept[f[2]]), f[1])
  /\ Ordered(Of(Sends(ept[f[1]]), f[2]), Of(Recvs(ept[f[2]]), f[1]),
             Of(Holds(ept[f[2]]), f[1]), delivered[f], received[f])

\* recving_msg is taken by the handler of the receive that filled it.
MsgInUse == \A e \in Made : ept[e].recving_msg # None => ept[e].ops["ok"] > 0

FlowsOk == (\A f \in Flows : FlowOk(f)) /\ MsgInUse

LEMMA OrderedLess ==
  ASSUME NEW A, NEW B, NEW C, NEW D, NEW n, Ordered(A, B, C, D, n),
         NEW A2 \in SUBSET A, NEW B2 \in SUBSET B, NEW C2 \in SUBSET C
  PROVE  Ordered(A2, B2, C2, D, n)
BY DEF Ordered

\* What is on its way, by its lines.
Lines(f) == Of(Sends(ept[f[1]]), f[2]) \cup Of(Recvs(ept[f[2]]), f[1])
              \cup Of(Holds(ept[f[2]]), f[1])

LEMMA FlowPeers == ASSUME NEW f \in Flows PROVE f[1] \in Peers /\ f[2] \in Peers
BY UdpAssumption DEF UdpAssumption

LEMMA OnTheirLines == \A f \in Flows : OnTheirWay(f) = Lines(f)
<1> SUFFICES ASSUME NEW f \in Flows PROVE OnTheirWay(f) = Lines(f)
  OBVIOUS
<1>0. f[1] \in Peers /\ f[2] \in Peers
  BY FlowPeers
<1>1. PICK y : y = f[1]
  OBVIOUS
<1>2. PICK x : x = f[2]
  OBVIOUS
<1>3. Of(Sends(ept[y]), x) = IF y \in Made THEN NumsTo(ept[y].send_queue, x) ELSE {}
  <2>1. CASE ept[y] = Gone
    BY <2>1, <1>0, <1>1 DEF Made, Sends, NoLine, Of
  <2>2. CASE ept[y] # Gone
    BY <2>2, <1>0, <1>1 DEF Made, Sends, Of, NumsTo
  <2> QED BY <2>1, <2>2
<1>4. Of(Recvs(ept[x]), y) = IF x \in Made THEN NumsFrom(ept[x].recv_queue, y) ELSE {}
  <2>1. CASE ept[x] = Gone
    BY <2>1, <1>0, <1>2 DEF Made, Recvs, NoLine, Of
  <2>2. CASE ept[x] # Gone
    BY <2>2, <1>0, <1>2 DEF Made, Recvs, Of, NumsFrom
  <2> QED BY <2>1, <2>2
<1>5. Of(Holds(ept[x]), y) =
        IF x \in Made /\ ept[x].recving_msg # None /\ ept[x].recving_msg.src = y
        THEN {ept[x].recving_msg.num} ELSE {}
  <2>1. CASE ept[x] = Gone \/ ept[x].recving_msg = None
    BY <2>1, <1>0, <1>2 DEF Made, Holds, NoLine, Of
  <2>2. CASE ~(ept[x] = Gone \/ ept[x].recving_msg = None)
    <3>1. PICK m : m = ept[x].recving_msg
      OBVIOUS
    <3>2. /\ DOMAIN Holds(ept[x]) = 1..1 /\ 1 \in 1..1 /\ \A i \in 1..1 : i = 1
          /\ Holds(ept[x])[1] = <<m.src, m.num>>
      BY <2>2, <3>1 DEF Holds
    <3>3. Of(Holds(ept[x]), y) = IF m.src = y THEN {m.num} ELSE {}
      BY <3>2 DEF Of
    <3> QED BY <3>1, <3>3, <2>2, <1>0, <1>2 DEF Made
  <2> QED BY <2>1, <2>2
<1>6. OnTheirWay(f) = UNION {Of(Sends(ept[y]), x), Of(Recvs(ept[x]), y), Of(Holds(ept[x]), y)}
  BY <1>1, <1>2, <1>3, <1>4, <1>5 DEF OnTheirWay
<1> QED BY <1>1, <1>2, <1>6 DEF Lines

LEMMA OnTheirLinesNext == (\A f \in Flows : OnTheirWay(f) = Lines(f))'
BY OnTheirLines, PTL

\* What each step of LossyFifo is, by the lines of the flows.
LEMMA LosesIs ==
  ASSUME UNCHANGED <<received, delivered>>,
         \A f \in Flows : Lines(f)' \subseteq Lines(f)
  PROVE  Channels!Lose
<1> DEFINE ch == [f \in Flows |-> OnTheirWay(f)]
<1>1. \A f \in Flows : OnTheirWay(f)' \subseteq OnTheirWay(f)
  BY OnTheirLines, OnTheirLinesNext
<1>2. \A f \in Flows : ch'[f] \subseteq ch[f]
  BY <1>1
<1>3. \A f \in Flows : ch'[f] \in SUBSET UNION {ch[g] : g \in Flows}
  BY <1>2
<1>4. ch' \in [Flows -> SUBSET UNION {ch[g] : g \in Flows}]
  BY <1>3
<1> QED BY <1>2, <1>4 DEF Channels!Lose

LEMMA ReceivesIs ==
  ASSUME NEW f \in Flows, received' = [received EXCEPT ![f] = @ + 1], delivered' = delivered,
         Lines(f)' = Lines(f) \cup {received[f] + 1},
         \A g \in Flows \ {f} : Lines(g)' = Lines(g)
  PROVE  Channels!Receive(f)
<1> DEFINE ch == [g \in Flows |-> OnTheirWay(g)]
<1>1. /\ OnTheirWay(f)' = OnTheirWay(f) \cup {received[f] + 1}
      /\ \A g \in Flows \ {f} : OnTheirWay(g)' = OnTheirWay(g)
  BY OnTheirLines, OnTheirLinesNext
<1>2. ch' = [ch EXCEPT ![f] = @ \cup {received[f] + 1}]
  BY <1>1
<1> QED BY <1>2 DEF Channels!Receive

LEMMA DeliversIs ==
  ASSUME NEW f \in Flows, received' = received, NEW n \in Lines(f),
         \A k \in Lines(f) : n <= k, \A k \in delivered[f] : k < n,
         delivered' = [delivered EXCEPT ![f] = @ \cup {n}],
         Lines(f)' = Lines(f) \ {n},
         \A g \in Flows \ {f} : Lines(g)' = Lines(g)
  PROVE  Channels!Deliver(f)
<1> DEFINE ch == [g \in Flows |-> OnTheirWay(g)]
<1>1. /\ OnTheirWay(f)' = OnTheirWay(f) \ {n} /\ OnTheirWay(f) = Lines(f)
      /\ \A g \in Flows \ {f} : OnTheirWay(g)' = OnTheirWay(g)
  BY OnTheirLines, OnTheirLinesNext
<1>2. ch' = [ch EXCEPT ![f] = @ \ {n}]
  BY <1>1
<1>3. ch[f] = Lines(f)
  BY <1>1
<1> QED BY <1>2, <1>3 DEF Channels!Deliver

\* A flow whose lines have changed into less.
LEMMA FlowLess ==
  ASSUME NEW f \in Flows, FlowOk(f),
         received'[f] = received[f], delivered'[f] = delivered[f],
         Thinned(Sends(ept'[f[1]]), Sends(ept[f[1]])),
         Thinned(Recvs(ept'[f[2]]), Recvs(ept[f[2]])),
         Thinned(Holds(ept'[f[2]]), Holds(ept[f[2]]))
  PROVE  FlowOk(f)' /\ Lines(f)' \subseteq Lines(f)
<1>1. PICK s, r, h : /\ s = Sends(ept[f[1]]) /\ r = Recvs(ept[f[2]])
                     /\ h = Holds(ept[f[2]])
  OBVIOUS
<1>2. PICK s2, r2, h2 : /\ s2 = Sends(ept'[f[1]]) /\ r2 = Recvs(ept'[f[2]])
                        /\ h2 = Holds(ept'[f[2]])
  OBVIOUS
<1>3. Thinned(s2, s) /\ Thinned(r2, r) /\ Thinned(h2, h)
  BY <1>1, <1>2
<1>4. /\ Climbs(s, f[2]) /\ Climbs(r, f[1])
      /\ Ordered(Of(s, f[2]), Of(r, f[1]), Of(h, f[1]), delivered[f], received[f])
  BY <1>1 DEF FlowOk
<1>5. /\ Climbs(s2, f[2]) /\ Of(s2, f[2]) \subseteq Of(s, f[2])
      /\ Climbs(r2, f[1]) /\ Of(r2, f[1]) \subseteq Of(r, f[1])
      /\ Of(h2, f[1]) \subseteq Of(h, f[1])
  BY <1>3, <1>4, ThinnedIs
<1>6. Ordered(Of(s2, f[2]), Of(r2, f[1]), Of(h2, f[1]), delivered[f], received[f])
  BY <1>4, <1>5, OrderedLess
<1>7. FlowOk(f)'
  BY <1>2, <1>5, <1>6 DEF FlowOk
<1>8. Lines(f) = Of(s, f[2]) \cup Of(r, f[1]) \cup Of(h, f[1])
      /\ Lines(f)' = Of(s2, f[2]) \cup Of(r2, f[1]) \cup Of(h2, f[1])
  BY <1>1, <1>2 DEF Lines
<1> QED BY <1>5, <1>7, <1>8

\* Of a step, what is to be shown.
Flowed == FlowsOk' /\ (Channels!FlowNext \/ UNCHANGED Channels!flowVars)

\* A step that only loses datagrams, if any.
LEMMA Lost ==
  ASSUME FlowsOk, UNCHANGED <<received, delivered>>, MsgInUse',
         \A e \in Peers : Lessens(ept'[e], ept[e])
  PROVE  Flowed
<1>1. \A f \in Flows : FlowOk(f)' /\ Lines(f)' \subseteq Lines(f)
  BY FlowLess, FlowPeers DEF FlowsOk, Lessens
<1>2. Channels!Lose
  BY <1>1, LosesIs
<1> QED BY <1>1, <1>2 DEF Flowed, FlowsOk, Channels!FlowNext

\* One that changes one endpoint.
LEMMA LostOne ==
  ASSUME UdpInv, FlowsOk, UNCHANGED <<received, delivered>>,
         NEW e \in Peers, NEW o \in Objects \cup {Gone}, ept' = [ept EXCEPT ![e] = o],
         Lessens(o, ept[e]), o # Gone /\ o.recving_msg # None => o.ops["ok"] > 0
  PROVE  Flowed
<1>1. ept \in [Peers -> Objects \cup {Gone}]
  BY DEF UdpInv, AllSound
<1>2. /\ ept'[e] = o /\ \A d \in Peers \ {e} : ept'[d] = ept[d]
  BY <1>1
<1>3. \A d \in Peers : Lessens(ept'[d], ept[d])
  BY <1>1, <1>2, LessensSame
<1>4. \A d \in Peers : ept'[d] # Gone /\ ept'[d].recving_msg # None => ept'[d].ops["ok"] > 0
  BY <1>2 DEF FlowsOk, MsgInUse, Made
<1>5. MsgInUse'
  BY <1>4 DEF MsgInUse, Made
<1> QED BY <1>3, <1>5, Lost

\* One that leaves the queues and recving_msg of an endpoint alone.
LEMMA LostKept ==
  ASSUME UdpInv, FlowsOk, UNCHANGED <<received, delivered>>,
         NEW e \in Peers, ept[e] # Gone, NEW o \in Objects, ept' = [ept EXCEPT ![e] = o],
         Untouched(ept[e], o), o.ops["ok"] = ept[e].ops["ok"]
  PROVE  Flowed
<1>1. e \in Made /\ ept[e] \in Objects
  BY Known
<1>2. Lessens(o, ept[e])
  BY <1>1, LessensTail DEF Untouched
<1>3. o.recving_msg # None => o.ops["ok"] > 0
  BY <1>1 DEF Untouched, FlowsOk, MsgInUse
<1> QED BY <1>2, <1>3, LostOne
-----------------------------------------------------------------------------
(* The steps that lose datagrams or do nothing to them.                    *)

LEMMA RecvFailsFlows ==
  ASSUME UdpInv, FlowsOk, NEW e \in Peers, NEW r \in {"refused", "err"}, RecvFails(e, r)
  PROVE  Flowed
<1> DEFINE o == Ended(ept[e], r)
<1>1. /\ ept[e] # Gone /\ ept[e].ops["pending"] > 0 /\ ept' = [ept EXCEPT ![e] = o]
      /\ UNCHANGED <<received, delivered>>
  BY DEF RecvFails, Becomes, flowHistory
<1>2. ept[e] \in Objects
  BY <1>1, Known
<1>3. o \in Objects /\ SameButOps(ept[e], o) /\ o.ops["ok"] = ept[e].ops["ok"]
  BY <1>1, <1>2, EndedIs DEF Results
<1> HIDE DEF o
<1> QED BY <1>1, <1>3, LostKept DEF SameButOps

LEMMA HandleRecvRefusedFlows ==
  ASSUME UdpInv, FlowsOk, NEW e \in Peers, HandleRecvRefused(e) PROVE Flowed
<1> DEFINE h == Handled(ept[e], "refused")
           o == AsyncRecv(h)
<1>1. /\ ept[e] # Gone /\ ept[e].ops["refused"] > 0 /\ ept' = [ept EXCEPT ![e] = o]
      /\ UNCHANGED <<received, delivered>>
  BY DEF HandleRecvRefused, Handles, Becomes, flowHistory
<1>2. ept[e] \in Objects
  BY <1>1, Known
<1>3. h \in Objects /\ SameButOps(ept[e], h) /\ h.ops["ok"] = ept[e].ops["ok"]
  BY <1>1, <1>2, HandledIs DEF Results
<1> HIDE DEF h
<1>4. o \in Objects /\ SameButOps(h, o) /\ o.ops["ok"] = h.ops["ok"]
  BY <1>3, AsyncRecvIs
<1> HIDE DEF o
<1>5. Untouched(ept[e], o)
  BY <1>3, <1>4 DEF SameButOps, Untouched
<1> QED BY <1>1, <1>3, <1>4, <1>5, LostKept

\* stop() and init() leave the queues alone.
LEMMA RestartsKeep ==
  ASSUME NEW h \in Objects, NEW r \in {Restarted(h)} \cup RestartFailures(h)
  PROVE  r \in Objects /\ Untouched(h, r) /\ r.ops["ok"] = h.ops["ok"]
<1> DEFINE s == Stopped(h)
<1>1. s \in Objects /\ Untouched(h, s) /\ s.ops["ok"] = h.ops["ok"]
  BY StoppedIs
<1>2. r = s \/ r = Inited(s) \/ \E k \in {"closed", "unbound"} : r = [s EXCEPT !.socket = k]
  BY DEF Restarted, RestartFailures, InitFailures
<1> HIDE DEF s
<1>3. CASE r = Inited(s)
  <2>1. r \in Objects /\ Untouched(s, r) /\ r.ops["ok"] = s.ops["ok"]
    BY <1>1, <1>3, InitedIs
  <2> QED BY <1>1, <2>1 DEF Untouched
<1>4. CASE \E k \in {"closed", "unbound"} : r = [s EXCEPT !.socket = k]
  <2>1. r \in Objects /\ Untouched(s, r) /\ r.ops = s.ops
    BY <1>1, <1>4 DEF Objects, Untouched
  <2> QED BY <1>1, <2>1 DEF Untouched
<1> QED BY <1>1, <1>2, <1>3, <1>4

LEMMA RestartFlows ==
  ASSUME UdpInv, FlowsOk, UNCHANGED <<received, delivered>>,
         NEW e \in Peers, ept[e] # Gone, NEW h \in Objects, Restart(e, h),
         Untouched(ept[e], h), h.ops["ok"] = ept[e].ops["ok"]
  PROVE  Flowed
<1>1. PICK r \in {Restarted(h)} \cup RestartFailures(h) : ept' = [ept EXCEPT ![e] = r]
  BY DEF Restart, Becomes
<1>2. r \in Objects /\ Untouched(h, r) /\ r.ops["ok"] = h.ops["ok"]
  BY RestartsKeep
<1>3. Untouched(ept[e], r)
  BY <1>2 DEF Untouched
<1> QED BY <1>1, <1>2, <1>3, LostKept

LEMMA HandleRecvErrFlows ==
  ASSUME UdpInv, FlowsOk, NEW e \in Peers, HandleRecvErr(e) PROVE Flowed
<1> DEFINE h == Handled(ept[e], "err")
<1>1. /\ ept[e] # Gone /\ ept[e].ops["err"] > 0 /\ Restart(e, h)
      /\ UNCHANGED <<received, delivered>>
  BY DEF HandleRecvErr, Handles, flowHistory
<1>2. ept[e] \in Objects
  BY <1>1, Known
<1>3. h \in Objects /\ SameButOps(ept[e], h) /\ h.ops["ok"] = ept[e].ops["ok"]
  BY <1>1, <1>2, HandledIs DEF Results
<1> HIDE DEF h
<1> QED BY <1>1, <1>3, RestartFlows DEF SameButOps

LEMMA SendFailsFlows == ASSUME UdpInv, FlowsOk, SendFails PROVE Flowed
<1>1. /\ cur # None /\ cur \in endpoints \cup {None} /\ Restart(cur, ept[cur])
      /\ UNCHANGED <<received, delivered>>
  BY DEF SendFails, flowHistory, UdpInv, Rest
<1>2. cur \in Made /\ cur \in Peers
  BY <1>1, Errors DEF Made
<1>3. ept[cur] # Gone /\ ept[cur] \in Objects /\ Untouched(ept[cur], ept[cur])
  BY <1>2, Known DEF Made, Untouched
<1> QED BY <1>1, <1>2, <1>3, RestartFlows

LEMMA StopFlows == ASSUME UdpInv, FlowsOk, NEW e \in Peers, Stop(e) PROVE Flowed
<1> DEFINE o == Stopped(ept[e])
<1>1. /\ e \in todo /\ ept' = [ept EXCEPT ![e] = o] /\ UNCHANGED <<received, delivered>>
  BY DEF Stop, flowHistory
<1>2. e \in Made /\ ept[e] # Gone
  BY <1>1, Errors DEF UdpInv, Rest, Made
<1>3. ept[e] \in Objects
  BY <1>2, Known
<1>4. o \in Objects /\ Untouched(ept[e], o) /\ o.ops["ok"] = ept[e].ops["ok"]
  BY <1>3, StoppedIs
<1> HIDE DEF o
<1> QED BY <1>1, <1>2, <1>4, LostKept

LEMMA EraseFlows == ASSUME UdpInv, FlowsOk, NEW e \in Peers, Erase(e) PROVE Flowed
<1>1. ept' = [ept EXCEPT ![e] = Gone] /\ UNCHANGED <<received, delivered>>
  BY DEF Erase, flowHistory
<1>2. ept[e] \in Objects \cup {Gone}
  BY DEF UdpInv, AllSound
<1>3. Lessens(Gone, ept[e])
  BY <1>2, LessensAway
<1> QED BY <1>1, <1>3, LostOne

LEMMA UnchangedFlows ==
  ASSUME UdpInv, FlowsOk, UNCHANGED <<ept, received, delivered>> PROVE Flowed
<1>1. \A e \in Peers : Lessens(ept'[e], ept[e])
  BY LessensSame DEF UdpInv, AllSound
<1>2. MsgInUse'
  BY DEF FlowsOk, MsgInUse, Made
<1> QED BY <1>1, <1>2, Lost

LEMMA EnterFlows == ASSUME UdpInv, FlowsOk, NEW e \in Peers, Enter(e) PROVE Flowed
<1>1. /\ e \in todo /\ UNCHANGED <<received, delivered>>
      /\ ept' = [ept EXCEPT ![e] = Credited(ept[e])] \/ UNCHANGED ept
  BY DEF Enter, flowHistory
<1>2. e \in Made /\ ept[e] # Gone
  BY <1>1, Errors DEF UdpInv, Rest, Made
<1>3. ept[e] \in Objects /\ interval \in Nat
  BY <1>2, Known DEF UdpInv, Rest
<1>4. PICK o : o = Credited(ept[e])
  OBVIOUS
<1>5. o \in Objects /\ Quiet(ept[e], o) /\ o.send_queue = ept[e].send_queue
  BY <1>3, <1>4, CreditedIs
<1>6. o.recv_queue = ept[e].recv_queue
  BY <1>3, <1>4 DEF Credited, Objects
<1>7. Untouched(ept[e], o) /\ o.ops["ok"] = ept[e].ops["ok"]
  BY <1>5, <1>6 DEF Quiet, Calm, Untouched
<1>8. CASE ept' = [ept EXCEPT ![e] = o]
  BY <1>1, <1>2, <1>5, <1>7, <1>8, LostKept
<1>9. CASE UNCHANGED ept
  BY <1>1, <1>9, UnchangedFlows
<1> QED BY <1>1, <1>4, <1>8, <1>9
-----------------------------------------------------------------------------
(* The steps that move datagrams on.                                       *)

\* The line of recving_msg.
LEMMA HoldsIs ==
  ASSUME NEW o \in Objects, NEW p
  PROVE  /\ o.recving_msg = None => Of(Holds(o), p) = {}
         /\ o.recving_msg # None /\ o.recving_msg.src = p => Of(Holds(o), p) = {o.recving_msg.num}
         /\ o.recving_msg # None /\ o.recving_msg.src # p => Of(Holds(o), p) = {}
<1>0. o # Gone
  BY NothingAssumption DEF NothingAssumption
<1>1. CASE o.recving_msg = None
  <2>1. DOMAIN Holds(o) = 1..0
    BY <1>1 DEF Holds, NoLine
  <2> QED BY <1>1, <2>1 DEF Of
<1>2. CASE o.recving_msg # None
  <2>1. PICK m : m = o.recving_msg
    OBVIOUS
  <2>2. /\ DOMAIN Holds(o) = 1..1 /\ 1 \in 1..1 /\ \A i \in 1..1 : i = 1
        /\ Holds(o)[1][1] = m.src /\ Holds(o)[1][2] = m.num
    BY <1>0, <1>2, <2>1 DEF Holds
  <2>3. Of(Holds(o), p) = IF m.src = p THEN {m.num} ELSE {}
    BY <2>2 DEF Of
  <2> QED BY <1>2, <2>1, <2>3
<1> QED BY <1>1, <1>2

\* A flow whose lines are known after a step.
LEMMA FlowBecomes ==
  ASSUME NEW f \in Flows, NEW s, NEW r, NEW h,
         s = Sends(ept'[f[1]]), r = Recvs(ept'[f[2]]), h = Holds(ept'[f[2]]),
         Climbs(s, f[2]), Climbs(r, f[1]),
         Ordered(Of(s, f[2]), Of(r, f[1]), Of(h, f[1]), delivered'[f], received'[f])
  PROVE  FlowOk(f)' /\ Lines(f)' = Of(s, f[2]) \cup Of(r, f[1]) \cup Of(h, f[1])
BY DEF FlowOk, Lines

\* A datagram goes from recving_msg to the queue.
LEMMA QueuedFlows ==
  ASSUME UdpInv, FlowsOk, UNCHANGED <<received, delivered>>,
         NEW e \in Peers, ept[e] \in Objects, ept[e].recving_msg # None,
         NEW m \in Messages, m.src = ept[e].recving_msg.src, m.num = ept[e].recving_msg.num,
         NEW o \in Objects, ept' = [ept EXCEPT ![e] = o],
         o.send_queue = ept[e].send_queue, o.recv_queue = Append(ept[e].recv_queue, m),
         o.recving_msg = None
  PROVE  Flowed
<1>0. PICK a \in Objects : a = ept[e]
  OBVIOUS
<1>1. /\ ept'[e] = o /\ \A d \in Peers \ {e} : ept'[d] = ept[d]
      /\ \A d \in Peers : ept[d] \in Objects \cup {Gone}
  BY DEF UdpInv, AllSound
<1>2. Extended(Recvs(o), Recvs(a), <<m.src, m.num>>)
  BY <1>0, MoreRecvs
<1>3. Sends(o) = Sends(a)
  BY <1>0, NothingAssumption DEF Sends, NothingAssumption
<1>4. \A p : /\ Of(Holds(o), p) = {}
             /\ p = m.src => Of(Holds(a), p) = {m.num}
             /\ p # m.src => Of(Holds(a), p) = {}
  BY <1>0, HoldsIs
<1>5. \A d \in Peers : Sends(ept'[d]) = Sends(ept[d])
  BY <1>0, <1>1, <1>3
<1>6. ASSUME NEW f \in Flows PROVE FlowOk(f)' /\ Lines(f)' \subseteq Lines(f)
  <2>0. /\ f[1] \in Peers /\ f[2] \in Peers /\ FlowOk(f)
        /\ received'[f] = received[f] /\ delivered'[f] = delivered[f]
    BY FlowPeers DEF FlowsOk
  <2>1. CASE f[2] # e
    <3>1. Thinned(Sends(ept'[f[1]]), Sends(ept[f[1]]))
      <4>1. Sends(ept'[f[1]]) = Sends(ept[f[1]]) /\ ept[f[1]] \in Objects \cup {Gone}
        BY <1>1, <1>5, <2>0
      <4> QED BY <4>1, LessensSame DEF Lessens
    <3>2. Thinned(Recvs(ept'[f[2]]), Recvs(ept[f[2]]))
          /\ Thinned(Holds(ept'[f[2]]), Holds(ept[f[2]]))
      <4>1. ept'[f[2]] = ept[f[2]] /\ ept[f[2]] \in Objects \cup {Gone}
        BY <1>1, <2>0, <2>1
      <4> QED BY <4>1, LessensSame DEF Lessens
    <3> QED BY <2>0, <3>1, <3>2, FlowLess
  <2>2. CASE f[2] = e
    <3>1. PICK s : s = Sends(ept[f[1]]) /\ s = Sends(ept'[f[1]])
      BY <1>5, <2>0
    <3>2. /\ Climbs(s, e) /\ Climbs(Recvs(a), f[1])
          /\ Ordered(Of(s, e), Of(Recvs(a), f[1]), Of(Holds(a), f[1]), delivered[f], received[f])
          /\ Lines(f) = Of(s, e) \cup Of(Recvs(a), f[1]) \cup Of(Holds(a), f[1])
      BY <1>0, <2>0, <2>2, <3>1 DEF FlowOk, Lines
    <3>3. CASE f[1] = m.src
      <4>1. Of(Recvs(o), f[1]) = Of(Recvs(a), f[1]) \cup {m.num}
        BY <1>2, <3>3, ExtendedIs
      <4>2. \A n \in Of(Recvs(a), f[1]) : n < m.num
        BY <1>4, <3>2, <3>3 DEF Ordered
      <4>3. Climbs(Recvs(o), f[1])
        BY <1>2, <3>2, <3>3, <4>2, ExtendedIs
      <4>4. Ordered(Of(s, e), Of(Recvs(o), f[1]), Of(Holds(o), f[1]), delivered[f], received[f])
        BY <1>4, <3>2, <3>3, <4>1 DEF Ordered
      <4>5. FlowOk(f)' /\ Lines(f)' = Of(s, e) \cup Of(Recvs(o), f[1]) \cup Of(Holds(o), f[1])
        BY <1>1, <2>0, <2>2, <3>1, <3>2, <4>3, <4>4, FlowBecomes
      <4> QED BY <1>4, <3>2, <3>3, <4>1, <4>5
    <3>4. CASE f[1] # m.src
      <4>1. Of(Recvs(o), f[1]) = Of(Recvs(a), f[1]) /\ Climbs(Recvs(o), f[1])
        BY <1>2, <3>2, <3>4, ExtendedIs
      <4>2. Of(Holds(o), f[1]) = Of(Holds(a), f[1])
        BY <1>4, <3>4
      <4>3. FlowOk(f)' /\ Lines(f)' = Of(s, e) \cup Of(Recvs(o), f[1]) \cup Of(Holds(o), f[1])
        BY <1>1, <2>0, <2>2, <3>1, <3>2, <4>1, <4>2, FlowBecomes
      <4> QED BY <3>2, <4>1, <4>2, <4>3
    <3> QED BY <3>3, <3>4
  <2> QED BY <2>1, <2>2
<1>7. Channels!Lose
  BY <1>6, LosesIs
<1>8. MsgInUse'
  <2>1. \A d \in Peers : ept'[d] # Gone /\ ept'[d].recving_msg # None => ept'[d].ops["ok"] > 0
    BY <1>1 DEF FlowsOk, MsgInUse, Made
  <2> QED BY <2>1 DEF MsgInUse, Made
<1> QED BY <1>6, <1>7, <1>8 DEF Flowed, FlowsOk, Channels!FlowNext

\* handleRecv: dropped, or queued.
LEMMA HandleRecvOkFlows ==
  ASSUME UdpInv, FlowsOk, NEW e \in Peers, HandleRecvOk(e) PROVE Flowed
<1> DEFINE h == Handled(ept[e], "ok")
           o == [h EXCEPT !.active = TRUE, !.idle = 0, !.recving_msg = None]
           m == [src |-> ept[e].recving_msg.src, num |-> ept[e].recving_msg.num, wait |-> delay_ms]
           q == [o EXCEPT !.recv_queue = Append(@, m)]
           z == [q EXCEPT !.recving_flag = FALSE]
<1>1. /\ fault = "none" /\ ept[e] # Gone /\ ept[e].ops["ok"] > 0
      /\ \/ ept' = [ept EXCEPT ![e] = AsyncRecv(o)]
         \/ ept' = [ept EXCEPT ![e] = z]
         \/ ept' = [ept EXCEPT ![e] = AsyncRecv(q)]
      /\ UNCHANGED <<received, delivered>>
  BY DEF HandleRecvOk, Handles, Becomes, flowHistory
<1>2. ept[e] \in Objects /\ Fresh(ept[e])
  BY <1>1, Known
<1>3. h \in Objects /\ SameButOps(ept[e], h)
  BY <1>1, <1>2, HandledIs DEF Results
<1>4. ept[e].recving_msg # None /\ m \in Messages
      /\ m.src = ept[e].recving_msg.src /\ m.num = ept[e].recving_msg.num
  <2>1. ept[e].recving_msg # None /\ ept[e].recving_msg \in [src : Peers, num : Nat]
    BY <1>1, <1>2 DEF Fresh, Objects
  <2> QED BY <2>1, UdpAssumption DEF Messages, UdpAssumption
<1>5. 0 \in 0..MaxIdle
  BY UdpAssumption DEF UdpAssumption
<1> HIDE DEF h, m
<1>6. /\ o \in Objects /\ o.send_queue = ept[e].send_queue
      /\ o.recv_queue = ept[e].recv_queue /\ o.recving_msg = None
  BY <1>3, <1>5 DEF Objects, SameButOps, Untouched
<1> HIDE DEF o
<1>7. /\ q \in Objects /\ q.send_queue = ept[e].send_queue
      /\ q.recv_queue = Append(ept[e].recv_queue, m) /\ q.recving_msg = None
  <2>1. Append(o.recv_queue, m) \in Seq(Messages)
    BY <1>4, <1>6 DEF Objects
  <2> QED BY <1>6, <2>1 DEF Objects
<1> HIDE DEF q
<1>8. CASE ept' = [ept EXCEPT ![e] = AsyncRecv(o)]
  <2>1. PICK r : r = AsyncRecv(o)
    OBVIOUS
  <2>2. r \in Objects /\ Untouched(o, r)
    BY <1>6, <2>1, AsyncRecvIs DEF SameButOps
  <2>3. Lessens(r, ept[e]) /\ r.recving_msg = None
    BY <1>2, <1>6, <2>2, LessensTail DEF Untouched
  <2> QED BY <1>1, <1>8, <2>1, <2>2, <2>3, LostOne
<1>9. CASE ept' = [ept EXCEPT ![e] = z]
  <2>1. /\ z \in Objects /\ z.send_queue = ept[e].send_queue
        /\ z.recv_queue = Append(ept[e].recv_queue, m) /\ z.recving_msg = None
    BY <1>7 DEF Objects
  <2> HIDE DEF z
  <2> QED BY <1>1, <1>2, <1>4, <1>9, <2>1, QueuedFlows
<1>10. CASE ept' = [ept EXCEPT ![e] = AsyncRecv(q)]
  <2>1. PICK r : r = AsyncRecv(q)
    OBVIOUS
  <2>2. r \in Objects /\ Untouched(q, r)
    BY <1>7, <2>1, AsyncRecvIs DEF SameButOps
  <2>3. /\ r.send_queue = ept[e].send_queue /\ r.recv_queue = Append(ept[e].recv_queue, m)
        /\ r.recving_msg = None
    BY <1>7, <2>2 DEF Untouched
  <2> QED BY <1>1, <1>2, <1>4, <1>10, <2>1, <2>2, <2>3, QueuedFlows
<1> QED BY <1>1, <1>8, <1>9, <1>10

\* A datagram comes: recving_msg is free for it.
LEMMA ArriveFlows == ASSUME UdpInv, FlowsOk, NEW f \in Flows, Arrive(f) PROVE Flowed
<1>1. PICK e \in Peers : e = f[2] /\ f[1] \in Peers
  BY FlowPeers
<1> DEFINE m == [src |-> f[1], num |-> received[f] + 1]
           d == Ended(ept[e], "ok")
           o == [d EXCEPT !.recving_msg = m]
<1>2. /\ fault = "none" /\ ept[e] # Gone /\ ept[e].ops["pending"] > 0
      /\ received' = [received EXCEPT ![f] = @ + 1] /\ delivered' = delivered
      /\ ept' = [ept EXCEPT ![e] = o]
  BY <1>1 DEF Arrive, Becomes
<1>3. ept[e] \in Objects /\ Fresh(ept[e]) /\ e \in Made
  BY <1>2, Known
<1>4. m \in [src : Peers, num : Nat] /\ m # None /\ m.src = f[1] /\ m.num = received[f] + 1
      /\ received[f] \in Nat /\ received \in [Flows -> Nat]
  BY <1>1, NothingAssumption DEF NothingAssumption, UdpInv, Rest
<1>5. d \in Objects /\ SameButOps(ept[e], d)
  BY <1>2, <1>3, EndedIs DEF Results
<1>6. d.ops["ok"] > 0 /\ ept[e].ops["ok"] = 0
  <2>1. PICK a \in Objects : a = ept[e]
    BY <1>3
  <2>2. /\ a.ops["pending"] \in Nat /\ a.ops["ok"] \in Nat /\ a.ops["refused"] \in Nat
        /\ a.ops["pending"] > 0 /\ Live(a) <= 1
    BY <2>1, <1>2, <1>3, OpsType DEF Fresh
  <2>3. a.ops["ok"] = 0
    BY <2>2 DEF Live
  <2>4. a.ops \in [{"pending"} \cup Results -> Nat]
    BY DEF Objects
  <2>5. Ended(a, "ok").ops["ok"] = a.ops["ok"] + 1
    BY <2>4 DEF Ended, Objects, Results
  <2> QED BY <2>1, <2>3, <2>5
<1> HIDE DEF m, d
<1>7. /\ o \in Objects /\ o.ops = d.ops /\ o.recving_msg = m
      /\ o.recv_queue = ept[e].recv_queue /\ o.send_queue = ept[e].send_queue
  BY <1>4, <1>5 DEF Objects, SameButOps, Untouched
<1> HIDE DEF o
<1>8. ept[e].recving_msg = None
  BY <1>3, <1>6 DEF FlowsOk, MsgInUse
<1>9. /\ ept'[e] = o /\ \A c \in Peers \ {e} : ept'[c] = ept[c]
      /\ \A c \in Peers : ept[c] \in Objects \cup {Gone}
  BY <1>2 DEF UdpInv, AllSound
<1>10. Sends(o) = Sends(ept[e]) /\ Recvs(o) = Recvs(ept[e])
  BY <1>2, <1>7, NothingAssumption DEF Sends, Recvs, NothingAssumption
<1>11. /\ \A c \in Peers : Sends(ept'[c]) = Sends(ept[c]) /\ Recvs(ept'[c]) = Recvs(ept[c])
       /\ \A c \in Peers \ {e} : Holds(ept'[c]) = Holds(ept[c])
  BY <1>9, <1>10
<1>12. \A p : /\ Of(Holds(ept[e]), p) = {}
              /\ p = f[1] => Of(Holds(o), p) = {received[f] + 1}
              /\ p # f[1] => Of(Holds(o), p) = {}
  <2>1. \A p : Of(Holds(ept[e]), p) = {}
    BY <1>3, <1>8, HoldsIs
  <2>2. \A p : /\ p = f[1] => Of(Holds(o), p) = {received[f] + 1}
               /\ p # f[1] => Of(Holds(o), p) = {}
    BY <1>4, <1>7, HoldsIs
  <2> QED BY <2>1, <2>2
<1>13. ASSUME NEW g \in Flows
       PROVE  /\ FlowOk(g)'
              /\ g = f => Lines(g)' = Lines(g) \cup {received[f] + 1}
              /\ g # f => Lines(g)' = Lines(g)
  <2>1. /\ g[1] \in Peers /\ g[2] \in Peers /\ FlowOk(g) /\ delivered'[g] = delivered[g]
        /\ g # f => received'[g] = received[g]
        /\ g = f => received'[g] = received[g] + 1
        /\ received[g] \in Nat
    BY <1>2, <1>4, FlowPeers DEF FlowsOk
  <2>2. PICK s, r, h : /\ s = Sends(ept[g[1]]) /\ r = Recvs(ept[g[2]]) /\ h = Holds(ept'[g[2]])
    OBVIOUS
  <2>3. s = Sends(ept'[g[1]]) /\ r = Recvs(ept'[g[2]])
    BY <1>11, <2>1, <2>2
  <2>4. /\ Climbs(s, g[2]) /\ Climbs(r, g[1])
        /\ Ordered(Of(s, g[2]), Of(r, g[1]), Of(Holds(ept[g[2]]), g[1]), delivered[g], received[g])
        /\ Lines(g) = Of(s, g[2]) \cup Of(r, g[1]) \cup Of(Holds(ept[g[2]]), g[1])
    BY <2>1, <2>2 DEF FlowOk, Lines
  <2>5. CASE g = f
    <3>1. Of(h, g[1]) = {received[g] + 1} /\ Of(Holds(ept[g[2]]), g[1]) = {}
      BY <1>1, <1>9, <1>12, <2>2, <2>5
    <3>2. Ordered(Of(s, g[2]), Of(r, g[1]), Of(h, g[1]), delivered[g], received[g] + 1)
      BY <2>1, <2>4, <3>1 DEF Ordered
    <3>3. Ordered(Of(s, g[2]), Of(r, g[1]), Of(h, g[1]), delivered'[g], received'[g])
      BY <2>1, <2>5, <3>2
    <3>4. FlowOk(g)' /\ Lines(g)' = Of(s, g[2]) \cup Of(r, g[1]) \cup Of(h, g[1])
      BY <2>2, <2>3, <2>4, <3>3, FlowBecomes
    <3> QED BY <2>4, <2>5, <3>1, <3>4
  <2>6. CASE g # f
    <3>1. Of(h, g[1]) = Of(Holds(ept[g[2]]), g[1])
      <4>1. CASE g[2] # e
        BY <1>11, <2>1, <2>2, <4>1
      <4>2. CASE g[2] = e
        <5>1. g[1] # f[1]
          BY <1>1, <2>6, <4>2, UdpAssumption DEF UdpAssumption
        <5> QED BY <1>9, <1>12, <2>2, <4>2, <5>1
      <4> QED BY <4>1, <4>2
    <3>2. Ordered(Of(s, g[2]), Of(r, g[1]), Of(h, g[1]), delivered'[g], received'[g])
      BY <2>1, <2>4, <2>6, <3>1
    <3>3. FlowOk(g)' /\ Lines(g)' = Of(s, g[2]) \cup Of(r, g[1]) \cup Of(h, g[1])
      BY <2>2, <2>3, <2>4, <3>2, FlowBecomes
    <3> QED BY <2>4, <2>6, <3>1, <3>3
  <2> QED BY <2>5, <2>6
<1>14. Channels!Receive(f)
  BY <1>2, <1>13, ReceivesIs
<1>15. MsgInUse'
  <2>1. \A c \in Peers : ept'[c] # Gone /\ ept'[c].recving_msg # None => ept'[c].ops["ok"] > 0
    BY <1>6, <1>7, <1>9 DEF FlowsOk, MsgInUse, Made
  <2> QED BY <2>1 DEF MsgInUse, Made
<1> QED BY <1>13, <1>14, <1>15 DEF Flowed, FlowsOk, Channels!FlowNext

\* A datagram goes out: the oldest on its way.
LEMMA SendFlows == ASSUME UdpInv, FlowsOk, Send PROVE Flowed
<1>1. PICK c \in Peers : c = cur /\ ept[c] \in Objects /\ c \in Made
  <2>1. cur # None /\ cur \in endpoints \cup {None}
    BY DEF Send, UdpInv, Rest
  <2>2. cur \in Made /\ cur \in Peers
    BY <2>1, Errors DEF Made
  <2> QED BY <2>2, Known DEF Made
<1>2. PICK a \in Objects : a = ept[c]
  BY <1>1
<1>3. PICK msg : msg = Head(a.send_queue)
  OBVIOUS
<1>4. /\ a.send_queue # <<>> /\ ept' = [ept EXCEPT ![c] = Sent(a)] /\ received' = received
      /\ delivered' = [delivered EXCEPT ![<<c, msg.dst>>] = @ \cup {msg.num}]
  BY <1>1, <1>2, <1>3 DEF Send, MaySend
<1>5. PICK o : o = Sent(a)
  OBVIOUS
<1>6. o \in Objects /\ Calm(a, o)
  BY <1>4, <1>5, SentIs
<1>7. o.send_queue = Tail(a.send_queue) /\ o.recv_queue = a.recv_queue
  BY <1>5 DEF Sent, Objects
<1>8. Shortened(Sends(o), Sends(a), <<msg.dst, msg.num>>)
  BY <1>3, <1>4, <1>6, <1>7, TailSends
<1>9. Recvs(o) = Recvs(a) /\ Holds(o) = Holds(a)
  BY <1>6, <1>7, NothingAssumption DEF Recvs, Holds, Quiet, Calm, NothingAssumption
<1>10. /\ ept'[c] = o /\ \A d \in Peers \ {c} : ept'[d] = ept[d]
       /\ \A d \in Peers : ept[d] \in Objects \cup {Gone}
       /\ delivered \in [Flows -> SUBSET Nat]
  BY <1>4, <1>5 DEF UdpInv, AllSound, Rest
<1>11. \A d \in Peers : Recvs(ept'[d]) = Recvs(ept[d]) /\ Holds(ept'[d]) = Holds(ept[d])
  BY <1>2, <1>9, <1>10
<1>12. ASSUME NEW g \in Flows
       PROVE  /\ FlowOk(g)'
              /\ g # <<c, msg.dst>> => Lines(g)' = Lines(g)
              /\ g = <<c, msg.dst>> =>
                   /\ Lines(g)' = Lines(g) \ {msg.num} /\ msg.num \in Lines(g)
                   /\ \A k \in Lines(g) : msg.num <= k
                   /\ \A k \in delivered[g] : k < msg.num
  <2>0. g[1] \in Peers /\ g[2] \in Peers /\ FlowOk(g) /\ received'[g] = received[g]
    BY <1>4, FlowPeers DEF FlowsOk
  <2>8. /\ g # <<c, msg.dst>> => delivered'[g] = delivered[g]
        /\ g = <<c, msg.dst>> => delivered'[g] = delivered[g] \cup {msg.num}
    BY <1>4, <1>10
  <2>9. g = <<g[1], g[2]>>
    BY UdpAssumption DEF UdpAssumption
  <2>1. /\ g[1] \in Peers /\ g[2] \in Peers /\ FlowOk(g) /\ received'[g] = received[g]
        /\ g # <<c, msg.dst>> => delivered'[g] = delivered[g]
        /\ g = <<c, msg.dst>> => delivered'[g] = delivered[g] \cup {msg.num}
        /\ g = <<g[1], g[2]>>
    BY <2>0, <2>8, <2>9
  <2>2. PICK s, r, h : /\ s = Sends(ept'[g[1]]) /\ r = Recvs(ept[g[2]]) /\ h = Holds(ept[g[2]])
    OBVIOUS
  <2>3. r = Recvs(ept'[g[2]]) /\ h = Holds(ept'[g[2]])
    BY <1>11, <2>1, <2>2
  <2>4. PICK t : t = Sends(ept[g[1]])
    OBVIOUS
  <2>5. /\ Climbs(t, g[2]) /\ Climbs(r, g[1])
        /\ Ordered(Of(t, g[2]), Of(r, g[1]), Of(h, g[1]), delivered[g], received[g])
        /\ Lines(g) = Of(t, g[2]) \cup Of(r, g[1]) \cup Of(h, g[1])
    BY <2>1, <2>2, <2>4 DEF FlowOk, Lines
  <2>6. CASE g # <<c, msg.dst>>
    <3>1. Of(s, g[2]) = Of(t, g[2]) /\ Climbs(s, g[2])
      <4>1. CASE g[1] # c
        <5>1. s = t
          BY <1>10, <2>1, <2>2, <2>4, <4>1
        <5> QED BY <5>1, <2>5
      <4>2. CASE g[1] = c
        <5>1. g[2] # msg.dst
          BY <2>1, <2>6, <4>2
        <5>2. s = Sends(o) /\ t = Sends(a)
          BY <1>2, <1>10, <2>2, <2>4, <4>2
        <5>3. Of(s, g[2]) = Of(t, g[2]) /\ Thinned(s, t)
          BY <1>8, <5>1, <5>2, ShortenedIs
        <5> QED BY <5>3, <2>5, ThinnedIs
      <4> QED BY <4>1, <4>2
    <3>2. Ordered(Of(s, g[2]), Of(r, g[1]), Of(h, g[1]), delivered'[g], received'[g])
      BY <2>1, <2>5, <2>6, <3>1
    <3>3. FlowOk(g)' /\ Lines(g)' = Of(s, g[2]) \cup Of(r, g[1]) \cup Of(h, g[1])
      BY <2>2, <2>3, <2>5, <3>1, <3>2, FlowBecomes
    <3> QED BY <2>5, <2>6, <3>1, <3>3
  <2>7. CASE g = <<c, msg.dst>>
    <3>0. g[1] = c /\ g[2] = msg.dst
      BY <2>7
    <3>1. s = Sends(o) /\ t = Sends(a)
      BY <1>2, <1>10, <2>2, <2>4, <3>0
    <3>2. /\ Thinned(s, t) /\ Of(t, g[2]) = Of(s, g[2]) \cup {msg.num}
          /\ \A k \in Of(s, g[2]) : msg.num < k
      BY <1>8, <2>5, <3>0, <3>1, ShortenedIs
    <3>3. Climbs(s, g[2])
      BY <2>5, <3>2, ThinnedIs
    <3>4. \A k \in Of(s, g[2]) \cup Of(r, g[1]) \cup Of(h, g[1]) : msg.num < k
      BY <2>5, <3>2 DEF Ordered
    <3>5. \A k \in delivered[g] : k < msg.num
      BY <2>5, <3>2 DEF Ordered
    <3>6. Ordered(Of(s, g[2]), Of(r, g[1]), Of(h, g[1]), delivered[g] \cup {msg.num}, received[g])
      <4>1. Of(s, g[2]) \cup Of(r, g[1]) \cup Of(h, g[1]) \cup (delivered[g] \cup {msg.num})
              \subseteq 1..received[g]
        BY <2>5, <3>2 DEF Ordered
      <4>2. /\ \A b \in Of(s, g[2]) : \A k \in Of(r, g[1]) \cup Of(h, g[1]) : b < k
            /\ \A b \in Of(r, g[1]) : \A k \in Of(h, g[1]) : b < k
        BY <2>5, <3>2 DEF Ordered
      <4>3. \A b \in delivered[g] \cup {msg.num} :
              \A k \in Of(s, g[2]) \cup Of(r, g[1]) \cup Of(h, g[1]) : b < k
        BY <2>5, <3>2, <3>4 DEF Ordered
      <4> QED BY <4>1, <4>2, <4>3 DEF Ordered
    <3>12. Ordered(Of(s, g[2]), Of(r, g[1]), Of(h, g[1]), delivered'[g], received'[g])
      BY <2>1, <2>7, <3>6
    <3>7. FlowOk(g)' /\ Lines(g)' = Of(s, g[2]) \cup Of(r, g[1]) \cup Of(h, g[1])
      BY <2>2, <2>3, <2>5, <3>3, <3>12, FlowBecomes
    <3>8. msg.num \in Nat
      BY <2>5, <3>2 DEF Ordered
    <3>9. msg.num \in Lines(g) /\ \A k \in Lines(g) : msg.num <= k
      <4>1. Lines(g) = {msg.num} \cup (Of(s, g[2]) \cup Of(r, g[1]) \cup Of(h, g[1]))
        BY <2>5, <3>2
      <4>2. \A k \in Of(s, g[2]) \cup Of(r, g[1]) \cup Of(h, g[1]) : k \in Nat
        BY <3>6 DEF Ordered
      <4> QED BY <4>1, <4>2, <3>4, <3>8
    <3>10. msg.num \notin Of(s, g[2]) \cup Of(r, g[1]) \cup Of(h, g[1])
      BY <3>4, <3>8
    <3>11. Lines(g)' = Lines(g) \ {msg.num}
      BY <2>5, <3>2, <3>7, <3>10
    <3> QED BY <2>7, <3>5, <3>7, <3>9, <3>11
  <2> QED BY <2>6, <2>7
<1>13. Channels!FlowNext
  <2>1. CASE <<c, msg.dst>> \in Flows
    <3>1. PICK f \in Flows : f = <<c, msg.dst>>
      BY <2>1
    <3>2. Channels!Deliver(f)
      BY <1>4, <1>12, <3>1, DeliversIs
    <3> QED BY <3>2 DEF Channels!FlowNext
  <2>2. CASE <<c, msg.dst>> \notin Flows
    <3>1. delivered' = delivered
      BY <1>4, <1>10, <2>2
    <3>2. \A g \in Flows : Lines(g)' \subseteq Lines(g)
      BY <1>12, <2>2
    <3>3. Channels!Lose
      BY <1>4, <3>1, <3>2, LosesIs
    <3> QED BY <3>3 DEF Channels!FlowNext
  <2> QED BY <2>1, <2>2
<1>14. MsgInUse'
  <2>1. \A d \in Peers : ept'[d] # Gone /\ ept'[d].recving_msg # None => ept'[d].ops["ok"] > 0
    BY <1>1, <1>2, <1>6, <1>10 DEF FlowsOk, MsgInUse, Made, Quiet, Calm
  <2> QED BY <2>1 DEF MsgInUse, Made
<1> QED BY <1>12, <1>13, <1>14 DEF Flowed, FlowsOk

\* A datagram m goes from the queue of c, which was a and is o, to that of its sender s,
\* which is b before and x after it, or is dropped there.
Passes(c, a, m, s, o, b, x) ==
  /\ c \in Peers /\ s \in Peers /\ s = m.src /\ s # c /\ m \in Messages
  /\ a \in Objects /\ a = ept[c] /\ a.recv_queue # <<>> /\ m = Head(a.recv_queue)
  /\ o \in Objects /\ o.recv_queue = Tail(a.recv_queue) /\ o.send_queue = a.send_queue
  /\ o.recving_msg = a.recving_msg /\ o.ops["ok"] = a.ops["ok"]
  /\ b \in Objects /\ Lessens(b, ept[s]) /\ (b.recving_msg # None => b.ops["ok"] > 0)
  /\ x \in Objects /\ x.recv_queue = b.recv_queue /\ x.recving_msg = b.recving_msg
  /\ x.ops["ok"] = b.ops["ok"]
  /\ \/ x.send_queue = b.send_queue
     \/ x.send_queue = Append(b.send_queue, [dst |-> c, num |-> m.num])
  /\ ept' = [ept EXCEPT ![c] = o, ![s] = x] /\ received' = received /\ delivered' = delivered

LEMMA PassedFlows ==
  ASSUME UdpInv, FlowsOk, NEW c, NEW a, NEW m, NEW s, NEW o, NEW b, NEW x,
         Passes(c, a, m, s, o, b, x)
  PROVE  Flowed
<1> USE DEF Passes
<1>0. PICK k \in Nat : k = m.num
  BY DEF Messages
<1>1. /\ ept'[c] = o /\ ept'[s] = x /\ \A d \in Peers \ {c, s} : ept'[d] = ept[d]
      /\ \A d \in Peers : ept[d] \in Objects \cup {Gone}
      /\ a # Gone /\ b # Gone /\ o # Gone /\ x # Gone
  BY NothingAssumption DEF UdpInv, AllSound, NothingAssumption
<1>2. Shortened(Recvs(o), Recvs(a), <<s, k>>)
  BY <1>0, TailRecvs
<1>3. Lessens(o, a)
  BY LessensTail
<1>4. Recvs(x) = Recvs(b) /\ Holds(x) = Holds(b)
  BY <1>1 DEF Recvs, Holds
<1>5. \A d \in Peers : /\ Thinned(Recvs(ept'[d]), Recvs(ept[d]))
                       /\ Thinned(Holds(ept'[d]), Holds(ept[d]))
                       /\ d # s => Thinned(Sends(ept'[d]), Sends(ept[d]))
  <2> SUFFICES ASSUME NEW d \in Peers
               PROVE  /\ Thinned(Recvs(ept'[d]), Recvs(ept[d]))
                      /\ Thinned(Holds(ept'[d]), Holds(ept[d]))
                      /\ d # s => Thinned(Sends(ept'[d]), Sends(ept[d]))
    OBVIOUS
  <2>1. CASE d = c
    BY <2>1, <1>1, <1>3 DEF Lessens
  <2>2. CASE d = s
    BY <2>2, <1>1, <1>4 DEF Lessens
  <2>3. CASE d # c /\ d # s
    BY <2>3, <1>1, LessensSame DEF Lessens
  <2> QED BY <2>1, <2>2, <2>3
<1>6. MsgInUse'
  <2>1. \A d \in Peers : ept'[d] # Gone /\ ept'[d].recving_msg # None => ept'[d].ops["ok"] > 0
    <3>1. \A d \in Peers : ept[d] # Gone /\ ept[d].recving_msg # None => ept[d].ops["ok"] > 0
      BY DEF FlowsOk, MsgInUse, Made
    <3>2. a.recving_msg # None => a.ops["ok"] > 0
      BY <1>1, <3>1
    <3>3. o.recving_msg # None => o.ops["ok"] > 0
      BY <3>2
    <3>4. x.recving_msg # None => x.ops["ok"] > 0
      OBVIOUS
    <3>5. ASSUME NEW d \in Peers, ept'[d] # Gone, ept'[d].recving_msg # None
          PROVE  ept'[d].ops["ok"] > 0
      <4>1. ept'[d] = o \/ ept'[d] = x \/ ept'[d] = ept[d]
        BY <1>1
      <4> QED BY <4>1, <3>1, <3>3, <3>4, <3>5
    <3> QED BY <3>5
  <2> QED BY <2>1 DEF MsgInUse, Made
<1>7. CASE x.send_queue = b.send_queue
  <2>1. Sends(x) = Sends(b)
    BY <1>1, <1>7 DEF Sends
  <2>2. Thinned(Sends(ept'[s]), Sends(ept[s]))
    BY <1>1, <2>1 DEF Lessens
  <2>3. \A d \in Peers : Lessens(ept'[d], ept[d])
    BY <1>5, <2>2 DEF Lessens
  <2> QED BY <1>6, <2>3, Lost
<1>8. CASE x.send_queue = Append(b.send_queue, [dst |-> c, num |-> m.num])
  <2>1. Extended(Sends(x), Sends(b), <<c, k>>)
    <3>1. PICK e \in [dst : Peers, num : Nat] : e = [dst |-> c, num |-> m.num]
      BY <1>0
    <3>2. e.dst = c /\ e.num = k
      BY <1>0, <3>1
    <3> QED BY <1>8, <3>1, <3>2, MoreSends
  <2>2. ASSUME NEW f \in Flows PROVE FlowOk(f)' /\ Lines(f)' \subseteq Lines(f)
    <3>0. /\ f[1] \in Peers /\ f[2] \in Peers /\ FlowOk(f)
          /\ received'[f] = received[f] /\ delivered'[f] = delivered[f]
      BY FlowPeers DEF FlowsOk
    <3>1. CASE f[1] # s
      BY <3>0, <3>1, <1>5, FlowLess
    <3>2. CASE f[1] = s
      <4>1. PICK t, r, h : t = Sends(ept[s]) /\ r = Recvs(ept[f[2]]) /\ h = Holds(ept[f[2]])
        OBVIOUS
      <4>2. PICK t2, r2, h2 : t2 = Sends(x) /\ r2 = Recvs(ept'[f[2]]) /\ h2 = Holds(ept'[f[2]])
        OBVIOUS
      <4>3. t2 = Sends(ept'[f[1]])
        BY <1>1, <3>2, <4>2
      <4>4. /\ Climbs(t, f[2]) /\ Climbs(r, s)
            /\ Ordered(Of(t, f[2]), Of(r, s), Of(h, s), delivered[f], received[f])
            /\ Lines(f) = Of(t, f[2]) \cup Of(r, s) \cup Of(h, s)
        BY <3>0, <3>2, <4>1 DEF FlowOk, Lines
      <4>5. /\ Climbs(Sends(b), f[2]) /\ Of(Sends(b), f[2]) \subseteq Of(t, f[2])
            /\ Climbs(r2, s) /\ Of(r2, s) \subseteq Of(r, s) /\ Of(h2, s) \subseteq Of(h, s)
        <5>1. Thinned(Sends(b), t) /\ Thinned(r2, r) /\ Thinned(h2, h)
          BY <1>5, <3>0, <4>1, <4>2 DEF Lessens
        <5> QED BY <5>1, <4>4, ThinnedIs
      <4>6. CASE f[2] # c
        <5>1. Of(t2, f[2]) = Of(Sends(b), f[2]) /\ Climbs(t2, f[2])
          BY <2>1, <4>2, <4>5, <4>6, ExtendedIs
        <5>2. Ordered(Of(t2, f[2]), Of(r2, s), Of(h2, s), delivered[f], received[f])
          BY <4>4, <4>5, <5>1, OrderedLess
        <5>3. Ordered(Of(t2, f[2]), Of(r2, f[1]), Of(h2, f[1]), delivered'[f], received'[f])
          BY <3>0, <3>2, <5>2
        <5>4. FlowOk(f)' /\ Lines(f)' = Of(t2, f[2]) \cup Of(r2, s) \cup Of(h2, s)
          <6>1. Climbs(r2, f[1])
            BY <3>2, <4>5
          <6>2. FlowOk(f)' /\ Lines(f)' = Of(t2, f[2]) \cup Of(r2, f[1]) \cup Of(h2, f[1])
            BY <4>2, <4>3, <5>1, <5>3, <6>1, FlowBecomes
          <6> QED BY <3>2, <6>2
        <5> QED BY <4>4, <4>5, <5>1, <5>4
      <4>7. CASE f[2] = c
        <5>1. r2 = Recvs(o) /\ r = Recvs(a)
          BY <1>1, <4>1, <4>2, <4>7
        <5>2. Of(r, s) = Of(r2, s) \cup {k} /\ \A n \in Of(r2, s) : k < n
          BY <1>2, <4>4, <5>1, ShortenedIs
        <5>3. /\ Of(t2, c) = Of(Sends(b), c) \cup {k}
              /\ Climbs(Sends(b), c) /\ (\A n \in Of(Sends(b), c) : n < k) => Climbs(t2, c)
          BY <2>1, <4>2, ExtendedIs
        <5>4. \A n \in Of(Sends(b), c) : n < k
          BY <4>4, <4>5, <4>7, <5>2 DEF Ordered
        <5>5. Climbs(t2, c)
          BY <4>5, <4>7, <5>3, <5>4
        <5>6. Ordered(Of(t2, c), Of(r2, s), Of(h2, s), delivered[f], received[f])
          <6>1. Ordered(Of(t, c), Of(r, s), Of(h, s), delivered[f], received[f])
            BY <4>4, <4>7
          <6>2. PICK A, B, C, A1, B1, C1, D, n :
                   /\ A = Of(t, c) /\ B = Of(r, s) /\ C = Of(h, s) /\ D = delivered[f]
                   /\ A1 = Of(Sends(b), c) /\ B1 = Of(r2, s) /\ C1 = Of(h2, s) /\ n = received[f]
            OBVIOUS
          <6>3. /\ Ordered(A, B, C, D, n) /\ A1 \subseteq A /\ B = B1 \cup {k} /\ C1 \subseteq C
                /\ \A i \in B1 : k < i
            BY <4>5, <4>7, <5>2, <6>1, <6>2
          <6>4. Ordered(A1 \cup {k}, B1, C1, D, n)
            <7>1. (A1 \cup {k}) \cup B1 \cup C1 \cup D \subseteq 1..n
              BY <6>3 DEF Ordered
            <7>2. \A d \in D : \A i \in (A1 \cup {k}) \cup B1 \cup C1 : d < i
              BY <6>3 DEF Ordered
            <7>3. \A j \in A1 \cup {k} : \A i \in B1 \cup C1 : j < i
              BY <6>3 DEF Ordered
            <7>4. \A j \in B1 : \A i \in C1 : j < i
              BY <6>3 DEF Ordered
            <7> QED BY <7>1, <7>2, <7>3, <7>4 DEF Ordered
          <6> QED BY <5>3, <6>2, <6>4
        <5>7. Ordered(Of(t2, f[2]), Of(r2, f[1]), Of(h2, f[1]), delivered'[f], received'[f])
          BY <3>0, <3>2, <4>7, <5>6
        <5>8. FlowOk(f)' /\ Lines(f)' = Of(t2, c) \cup Of(r2, s) \cup Of(h2, s)
          <6>1. Climbs(r2, f[1]) /\ Climbs(t2, f[2])
            BY <3>2, <4>5, <4>7, <5>5
          <6>2. FlowOk(f)' /\ Lines(f)' = Of(t2, f[2]) \cup Of(r2, f[1]) \cup Of(h2, f[1])
            BY <4>2, <4>3, <5>7, <6>1, FlowBecomes
          <6> QED BY <3>2, <4>7, <6>2
        <5> QED BY <4>4, <4>5, <4>7, <5>2, <5>3, <5>8
      <4> QED BY <4>6, <4>7
    <3> QED BY <3>1, <3>2
  <2>3. Channels!Lose
    BY <2>2, LosesIs
  <2> QED BY <1>6, <2>2, <2>3 DEF Flowed, FlowsOk, Channels!FlowNext
<1> QED BY <1>7, <1>8

\* What Popped and Given do to the queues.
LEMMA PoppedFlow ==
  ASSUME NEW o \in Objects, o.recv_queue # <<>>, NEW r, r = Popped(o)
  PROVE  r.recv_queue = Tail(o.recv_queue) /\ r.send_queue = o.send_queue
<1> DEFINE c == Charged(o)
           q == [c EXCEPT !.recv_queue = Tail(@), !.recving_flag = TRUE]
<1>1. c \in Objects /\ c.recv_queue = o.recv_queue /\ c.send_queue = o.send_queue
  BY ChargedIs
<1>2. q \in Objects /\ q.recv_queue = Tail(o.recv_queue) /\ q.send_queue = o.send_queue
  <2>1. Tail(o.recv_queue) \in Seq(Messages)
    BY DEF Objects
  <2> HIDE DEF c
  <2> QED BY <1>1, <2>1 DEF Objects
<1>3. r = q \/ r = AsyncRecv(q)
  BY DEF Popped
<1> HIDE DEF q, c
<1>4. CASE r = AsyncRecv(q)
  <2>1. Untouched(q, r)
    BY <1>2, <1>4, AsyncRecvIs DEF SameButOps
  <2> QED BY <1>2, <2>1 DEF Untouched
<1> QED BY <1>2, <1>3, <1>4

LEMMA GivenFlow ==
  ASSUME NEW o \in Objects, NEW m \in Messages, NEW e \in Peers, NEW r, r = Given(o, m, e),
         Len(o.send_queue) <= MAX_UDP_MSG_QUEUE_SIZE
  PROVE  /\ r \in Objects /\ r.recv_queue = o.recv_queue /\ r.recving_msg = o.recving_msg
         /\ r.ops["ok"] = o.ops["ok"]
         /\ \/ r.send_queue = o.send_queue
            \/ r.send_queue = Append(o.send_queue, [dst |-> e, num |-> m.num])
<1>1. r \in Objects /\ Quiet(o, r)
  BY GivenIs
<1>2. \/ r = o
      \/ r = [o EXCEPT !.send_queue = Append(o.send_queue, [dst |-> e, num |-> m.num])]
  BY DEF Given
<1>3. /\ r.recv_queue = o.recv_queue
      /\ \/ r.send_queue = o.send_queue
         \/ r.send_queue = Append(o.send_queue, [dst |-> e, num |-> m.num])
  BY <1>2 DEF Objects
<1> QED BY <1>1, <1>3 DEF Quiet, Calm

LEMMA PassOnFlows == ASSUME UdpInv, FlowsOk, PassOn PROVE Flowed
<1>1. PICK c, m : c = cur /\ m = Head(ept[c].recv_queue)
  OBVIOUS
<1>2. PICK s : s = m.src
  OBVIOUS
<1>3. PICK o, b : o = Popped(ept[c]) /\ b = Used(ept[s])
  OBVIOUS
<1>4. PICK x : x = Given(b, m, c)
  OBVIOUS
<1>5. /\ cur # None /\ MayRecv(ept[cur]) /\ s # c /\ s \in endpoints
      /\ ept' = [ept EXCEPT ![c] = o, ![s] = x] /\ UNCHANGED <<received, delivered>>
  <2>1. [ept EXCEPT ![cur] = Popped(@), ![m.src] = Given(Used(@), m, cur)]
        = [ept EXCEPT ![c] = o, ![s] = x]
    BY <1>1, <1>2, <1>3, <1>4 DEF PassOn
  <2> QED BY <1>1, <1>2, <2>1 DEF PassOn, Becomes, flowHistory
<1>6. /\ c \in Peers /\ ept[c] # Gone /\ ept[c].recv_queue # <<>> /\ m \in Messages
  BY <1>1, <1>5, Front
<1>7. s \in Peers /\ ept[s] # Gone
  BY <1>5, Errors DEF Made
<1>8. /\ ept[c] \in Objects /\ Sound(ept[c], errors, pass) /\ errors \in Nat
      /\ ept[s] \in Objects /\ Sound(ept[s], errors, pass) /\ c \in Made /\ s \in Made
  BY <1>6, <1>7, Known, Errors
<1>9. /\ o \in Objects /\ o.recving_msg = ept[c].recving_msg /\ o.ops["ok"] = ept[c].ops["ok"]
      /\ o.recv_queue = Tail(ept[c].recv_queue) /\ o.send_queue = ept[c].send_queue
  BY <1>3, <1>6, <1>8, PoppedIs, PoppedFlow
<1>10. b \in Objects /\ Quiet(ept[s], b) /\ b.send_queue = ept[s].send_queue
       /\ b.recv_queue = ept[s].recv_queue
  <2>1. b \in Objects /\ Quiet(ept[s], b) /\ b.send_queue = ept[s].send_queue
    BY <1>3, <1>8, UsedIs
  <2>2. b.recv_queue = ept[s].recv_queue
    BY <1>3, <1>8 DEF Used, Objects
  <2> QED BY <2>1, <2>2
<1>11. Lessens(b, ept[s]) /\ (b.recving_msg # None => b.ops["ok"] > 0)
  <2>1. Lessens(b, ept[s])
    BY <1>8, <1>10, LessensTail DEF Quiet, Calm
  <2>2. b.recving_msg # None => b.ops["ok"] > 0
    BY <1>8, <1>10 DEF Quiet, Calm, FlowsOk, MsgInUse
  <2> QED BY <2>1, <2>2
<1>12. /\ x \in Objects /\ x.recv_queue = b.recv_queue /\ x.recving_msg = b.recving_msg
       /\ x.ops["ok"] = b.ops["ok"]
       /\ \/ x.send_queue = b.send_queue
          \/ x.send_queue = Append(b.send_queue, [dst |-> c, num |-> m.num])
  <2>1. Len(b.send_queue) <= MAX_UDP_MSG_QUEUE_SIZE
    BY <1>8, <1>10 DEF Sound
  <2> QED BY <1>4, <1>6, <1>10, <2>1, GivenFlow
<1>13. PICK a \in Objects : a = ept[c]
  BY <1>8
<1>14. /\ a.recv_queue # <<>> /\ m = Head(a.recv_queue) /\ o.recv_queue = Tail(a.recv_queue)
       /\ o.send_queue = a.send_queue /\ o.recving_msg = a.recving_msg
       /\ o.ops["ok"] = a.ops["ok"]
  BY <1>1, <1>6, <1>9, <1>13
<1>15. Passes(c, a, m, s, o, b, x)
  BY <1>2, <1>5, <1>6, <1>7, <1>9, <1>10, <1>11, <1>12, <1>13, <1>14 DEF Passes
<1> QED BY <1>15, PassedFlows

LEMMA PassOnToNewFlows == ASSUME UdpInv, FlowsOk, PassOnToNew PROVE Flowed
<1>1. PICK c, m : c = cur /\ m = Head(ept[c].recv_queue)
  OBVIOUS
<1>2. PICK s : s = m.src
  OBVIOUS
<1>3. PICK o : o = Popped(ept[c])
  OBVIOUS
<1>4. PICK a, z : /\ a = Inited(Blank(FALSE))
                  /\ z = [Stopped(Inited(Blank(FALSE))) EXCEPT !.active = TRUE]
  OBVIOUS
<1>5. /\ cur # None /\ MayRecv(ept[cur]) /\ s # c
      /\ \/ \E b \in {a, z} : ept' = [ept EXCEPT ![c] = o, ![s] = Given(b, m, c)]
         \/ ept' = [ept EXCEPT ![c] = o]
      /\ UNCHANGED <<received, delivered>>
  <2>1. \A b : [ept EXCEPT ![cur] = Popped(@), ![m.src] = Given(b, m, cur)]
               = [ept EXCEPT ![c] = o, ![s] = Given(b, m, c)]
    BY <1>1, <1>2, <1>3
  <2>2. [ept EXCEPT ![cur] = Popped(@)] = [ept EXCEPT ![c] = o]
    BY <1>1, <1>3
  <2> QED BY <1>1, <1>2, <1>4, <2>1, <2>2 DEF PassOnToNew, Becomes, flowHistory
<1>6. /\ c \in Peers /\ ept[c] # Gone /\ ept[c].recv_queue # <<>> /\ m \in Messages
  BY <1>1, <1>5, Front
<1>7. s \in Peers /\ ept[s] \in Objects \cup {Gone}
  BY <1>2, <1>6 DEF Messages, UdpInv, AllSound
<1>8. ept[c] \in Objects /\ Sound(ept[c], errors, pass) /\ errors \in Nat /\ c \in Made
  BY <1>6, Known, Errors
<1>9. /\ o \in Objects /\ o.recving_msg = ept[c].recving_msg /\ o.ops["ok"] = ept[c].ops["ok"]
      /\ o.recv_queue = Tail(ept[c].recv_queue) /\ o.send_queue = ept[c].send_queue
  BY <1>3, <1>6, <1>8, PoppedIs, PoppedFlow
<1>10. \A b \in {a, z} : /\ b \in Objects /\ b.send_queue = <<>> /\ b.recv_queue = <<>>
                         /\ b.recving_msg = None
  <2>1. PICK e : e = Blank(FALSE)
    OBVIOUS
  <2>2. e \in Objects /\ e.send_queue = <<>> /\ e.recv_queue = <<>> /\ e.recving_msg = None
    BY <2>1, BlankIs
  <2>3. a \in Objects /\ Untouched(e, a)
    BY <1>4, <2>1, <2>2, InitedIs
  <2>4. PICK t : t = Stopped(a)
    OBVIOUS
  <2>5. t \in Objects /\ Untouched(a, t)
    BY <2>3, <2>4, StoppedIs
  <2>6. z = [t EXCEPT !.active = TRUE]
    BY <1>4, <2>4
  <2>7. z \in Objects /\ Untouched(t, z)
    BY <2>5, <2>6 DEF Objects, Untouched
  <2> QED BY <2>2, <2>3, <2>5, <2>7 DEF Untouched
<1>11. CASE \E b \in {a, z} : ept' = [ept EXCEPT ![c] = o, ![s] = Given(b, m, c)]
  <2>1. PICK b \in Objects : /\ b.send_queue = <<>> /\ b.recv_queue = <<>>
                             /\ b.recving_msg = None
                             /\ ept' = [ept EXCEPT ![c] = o, ![s] = Given(b, m, c)]
    BY <1>10, <1>11
  <2>2. PICK x : x = Given(b, m, c)
    OBVIOUS
  <2>3. Len(b.send_queue) <= MAX_UDP_MSG_QUEUE_SIZE
    BY <2>1, UdpAssumption DEF UdpAssumption
  <2>4. /\ x \in Objects /\ x.recv_queue = b.recv_queue /\ x.recving_msg = b.recving_msg
        /\ x.ops["ok"] = b.ops["ok"]
        /\ \/ x.send_queue = b.send_queue
           \/ x.send_queue = Append(b.send_queue, [dst |-> c, num |-> m.num])
    BY <1>6, <2>2, <2>3, GivenFlow
  <2>5. Lessens(b, ept[s])
    BY <1>7, <2>1, LessensAway
  <2>6. PICK d \in Objects : d = ept[c]
    BY <1>8
  <2>7. /\ d.recv_queue # <<>> /\ m = Head(d.recv_queue) /\ o.recv_queue = Tail(d.recv_queue)
        /\ o.send_queue = d.send_queue /\ o.recving_msg = d.recving_msg
        /\ o.ops["ok"] = d.ops["ok"]
    BY <1>1, <1>6, <1>9, <2>6
  <2>8. Passes(c, d, m, s, o, b, x)
    BY <1>2, <1>5, <1>6, <1>7, <1>9, <2>1, <2>2, <2>4, <2>5, <2>6, <2>7 DEF Passes
  <2> QED BY <2>8, PassedFlows
<1>12. CASE ept' = [ept EXCEPT ![c] = o]
  <2>1. Lessens(o, ept[c])
    BY <1>6, <1>8, <1>9, LessensTail
  <2>2. o.recving_msg # None => o.ops["ok"] > 0
    BY <1>8, <1>9 DEF FlowsOk, MsgInUse
  <2> QED BY <1>5, <1>6, <1>9, <1>12, <2>1, <2>2, LostOne
<1> QED BY <1>5, <1>11, <1>12

\* A pass begins: only the times in the queues change.
LEMMA WakeFlows == ASSUME UdpInv, FlowsOk, NEW d \in Steps, Wake(d) PROVE Flowed
<1>0. d \in Nat
  BY UdpAssumption DEF UdpAssumption
<1>1. UNCHANGED <<received, delivered>> /\ \A e \in Peers : ept[e] = Gone => ept'[e] = Gone
  BY DEF Wake, flowHistory
<1>2. ASSUME NEW e \in Peers
      PROVE  /\ Lessens(ept'[e], ept[e])
             /\ ept'[e] # Gone /\ ept'[e].recving_msg # None => ept'[e].ops["ok"] > 0
  <2>1. CASE ept[e] = Gone
    BY <1>1, <2>1, LessensAway
  <2>2. CASE ept[e] # Gone
    <3>1. PICK o \in Objects : o = ept[e] /\ o \in Objects
      BY <2>2, Known
    <3>2. PICK i : i = IF ~ept[e].active THEN 0
                       ELSE IF ept[e].idle + d < MaxIdle THEN ept[e].idle + d ELSE MaxIdle
      OBVIOUS
    <3>3. i \in 0..MaxIdle
      <4>1. ept[e].idle \in 0..MaxIdle /\ MaxIdle \in Nat
        BY <3>1, UdpAssumption DEF Objects, UdpAssumption
      <4> QED BY <1>0, <3>2, <4>1
    <3>4. PICK r : r = ept'[e]
      OBVIOUS
    <3>5. r = [o EXCEPT !.idle = i, !.recv_queue = Waited(@, d)]
      BY <2>2, <3>1, <3>2, <3>4 DEF Wake
    <3>6. r \in Objects /\ Quiet(o, r) /\ r.send_queue = o.send_queue
      BY <1>0, <3>3, <3>5, AgedIs
    <3>7. r # Gone /\ o # Gone
      BY <3>1, <3>6, NothingAssumption DEF NothingAssumption
    <3>8. Sends(r) = Sends(o) /\ Holds(r) = Holds(o)
      BY <3>6, <3>7 DEF Sends, Holds, Quiet, Calm
    <3>9. Recvs(r) = Recvs(o)
      <4>1. PICK q : q = o.recv_queue
        OBVIOUS
      <4>2. q \in Seq(Messages)
        BY <3>1, <4>1 DEF Objects
      <4>3. PICK w : w = Waited(q, d)
        OBVIOUS
      <4>4. r.recv_queue = w
        BY <3>1, <3>5, <4>1, <4>3 DEF Objects
      <4>5. DOMAIN w = DOMAIN q /\ \A k \in DOMAIN q : w[k].src = q[k].src /\ w[k].num = q[k].num
        <5>1. DOMAIN w = DOMAIN q
          BY <4>3 DEF Waited
        <5>2. ASSUME NEW k \in DOMAIN q PROVE w[k].src = q[k].src /\ w[k].num = q[k].num
          <6>1. PICK m \in Messages : m = q[k]
            BY <4>2
          <6>2. w[k] = [m EXCEPT !.wait = Aged(m.wait, d)]
            BY <4>3, <6>1 DEF Waited
          <6> QED BY <6>1, <6>2 DEF Messages
        <5> QED BY <5>1, <5>2
      <4>6. /\ Recvs(r) = [k \in DOMAIN w |-> <<w[k].src, w[k].num>>]
            /\ Recvs(o) = [k \in DOMAIN q |-> <<q[k].src, q[k].num>>]
        BY <3>7, <4>1, <4>4 DEF Recvs
      <4> QED BY <4>5, <4>6
    <3>10. Lessens(r, o)
      <4>1. Lessens(o, o)
        BY <3>1, LessensSame
      <4> QED BY <3>8, <3>9, <4>1 DEF Lessens
    <3>11. r.recving_msg # None => r.ops["ok"] > 0
      <4>1. o.recving_msg # None => o.ops["ok"] > 0
        BY <2>2, <3>1 DEF FlowsOk, MsgInUse, Made
      <4> QED BY <3>6, <4>1 DEF Quiet, Calm
    <3> QED BY <3>1, <3>4, <3>10, <3>11
  <2> QED BY <2>1, <2>2
<1>3. MsgInUse'
  BY <1>2 DEF MsgInUse, Made
<1> QED BY <1>1, <1>2, <1>3, Lost

LEMMA OthersFlows ==
  ASSUME UdpInv, FlowsOk,
         \/ HandlerAfterErase \/ AssertionFails \/ Leave \/ NextLoop \/ Shutdown
         \/ StopBegins \/ UNCHANGED udpVars
  PROVE  Flowed
<1>1. UNCHANGED <<ept, received, delivered>>
  BY DEF HandlerAfterErase, AssertionFails, Leave, NextLoop, Shutdown, StopBegins, udpVars,
         flowHistory
<1> QED BY <1>1, UnchangedFlows

LEMMA FlowStep == UdpInv /\ FlowsOk /\ [Next]_udpVars => Flowed
<1> SUFFICES ASSUME UdpInv, FlowsOk, [Next]_udpVars PROVE Flowed
  OBVIOUS
<1>1. CASE \E f \in Flows : Arrive(f)
  BY <1>1, ArriveFlows
<1>2. CASE \E e \in Peers, r \in {"refused", "err"} : RecvFails(e, r)
  BY <1>2, RecvFailsFlows
<1>3. CASE \E e \in Peers : HandleRecv(e)
  BY <1>3, HandleRecvOkFlows, HandleRecvRefusedFlows, HandleRecvErrFlows DEF HandleRecv
<1>4. CASE Routine
  <2>1. CASE \E d \in Steps : Wake(d)
    BY <2>1, WakeFlows
  <2>2. CASE \E e \in Peers : Erase(e) \/ Enter(e) \/ Stop(e)
    BY <2>2, EraseFlows, EnterFlows, StopFlows
  <2>3. CASE PassOn \/ PassOnToNew \/ Send \/ SendFails
    BY <2>3, PassOnFlows, PassOnToNewFlows, SendFlows, SendFailsFlows
  <2>4. CASE AssertionFails \/ Leave \/ NextLoop \/ StopBegins
    BY <2>4, OthersFlows
  <2> QED BY <1>4, <2>1, <2>2, <2>3, <2>4 DEF Routine
<1>5. CASE HandlerAfterErase \/ Shutdown \/ UNCHANGED udpVars
  BY <1>5, OthersFlows
<1>6. CASE Terminated
  BY <1>6, OthersFlows DEF Terminated
<1> QED BY <1>1, <1>2, <1>3, <1>4, <1>5, <1>6 DEF Next

\* At start the queues are empty.
LEMMA FlowsInit == Init => FlowsOk /\ Channels!FlowInit
<1> SUFFICES ASSUME Init PROVE FlowsOk /\ Channels!FlowInit
  OBVIOUS
<1>1. \A e \in Peers : \/ ept[e] = Gone
                       \/ /\ ept[e].send_queue = <<>> /\ ept[e].recv_queue = <<>>
                          /\ ept[e].recving_msg = None
  <2>1. PICK b : b = Blank(TRUE)
    OBVIOUS
  <2>2. b \in Objects /\ b.send_queue = <<>> /\ b.recv_queue = <<>> /\ b.recving_msg = None
    BY <2>1, BlankIs
  <2>3. PICK i : i = Inited(b)
    OBVIOUS
  <2>4. i.send_queue = <<>> /\ i.recv_queue = <<>> /\ i.recving_msg = None
    BY <2>2, <2>3, InitedIs DEF Untouched
  <2>5. \A e \in Peers : ept[e] = Gone \/ ept[e] = i
    BY <2>1, <2>3 DEF Init
  <2> QED BY <2>4, <2>5
<1>2. \A e \in Peers : /\ DOMAIN Sends(ept[e]) = {} /\ DOMAIN Recvs(ept[e]) = {}
                       /\ DOMAIN Holds(ept[e]) = {}
  <2> TAKE e \in Peers
  <2>1. PICK o : o = ept[e]
    OBVIOUS
  <2>2. DOMAIN NoLine = {}
    BY DEF NoLine
  <2>3. CASE o = Gone
    BY <2>1, <2>2, <2>3 DEF Sends, Recvs, Holds
  <2>4. CASE o # Gone
    <3>1. o.send_queue = <<>> /\ o.recv_queue = <<>> /\ o.recving_msg = None
      BY <1>1, <2>1, <2>4
    <3>2. DOMAIN o.send_queue = {} /\ DOMAIN o.recv_queue = {}
      BY <3>1
    <3>3. DOMAIN Sends(o) = {} /\ DOMAIN Recvs(o) = {}
      BY <2>4, <3>2 DEF Sends, Recvs
    <3>4. DOMAIN Holds(o) = {}
      BY <2>2, <3>1 DEF Holds
    <3> QED BY <2>1, <3>3, <3>4
  <2> QED BY <2>3, <2>4
<1>3. received = [f \in Flows |-> 0] /\ delivered = [f \in Flows |-> {}]
  BY DEF Init
<1>4. \A f \in Flows : FlowOk(f) /\ Lines(f) = {}
  <2> TAKE f \in Flows
  <2>1. PICK s, r, h : s = Sends(ept[f[1]]) /\ r = Recvs(ept[f[2]]) /\ h = Holds(ept[f[2]])
    OBVIOUS
  <2>2. DOMAIN s = {} /\ DOMAIN r = {} /\ DOMAIN h = {}
    BY <1>2, <2>1, FlowPeers
  <2>3. /\ Climbs(s, f[2]) /\ Climbs(r, f[1])
        /\ Of(s, f[2]) = {} /\ Of(r, f[1]) = {} /\ Of(h, f[1]) = {}
    BY <2>2 DEF Climbs, Of
  <2>4. Ordered({}, {}, {}, delivered[f], received[f])
    BY <1>3 DEF Ordered
  <2> QED BY <2>1, <2>3, <2>4 DEF FlowOk, Lines
<1>5. MsgInUse
  BY <1>1 DEF MsgInUse, Made
<1>6. [f \in Flows |-> OnTheirWay(f)] = [f \in Flows |-> {}]
  BY <1>4, OnTheirLines
<1> QED BY <1>3, <1>4, <1>5, <1>6 DEF FlowsOk, Channels!FlowInit
-----------------------------------------------------------------------------
\* A datagram is in one place at a time and behind all older ones of its flow: of what was
\* received of a flow, what was sent on is the oldest, and of an endpoint the queue to
\* send comes before the queue to pass on, and that before recving_msg, which is
\* filled by one receive only.
THEOREM FlowsInOrder == Spec => []FlowsOk
<1>1. FlowsOk /\ UdpInv /\ [Next]_udpVars => FlowsOk'
  BY FlowStep DEF Flowed
<1> QED BY <1>1, FlowsInit, UdpInductive, PTL DEF Spec

\* The relay implements LossyFifo: whatever fails, is erased, made again or paused, no
\* datagram is sent on twice, late, after a younger one or to somebody else.
THEOREM ForwardsHold == Spec => ForwardsInOrder
<1>1. Init => Channels!FlowInit
  BY FlowsInit
<1>2. UdpInv /\ FlowsOk /\ [Next]_udpVars => [Channels!FlowNext]_(Channels!flowVars)
  BY FlowStep DEF Flowed
<1> QED BY <1>1, <1>2, UdpInductive, FlowsInOrder, PTL DEF Spec, ForwardsInOrder, Channels!FlowSpec
=============================================================================
