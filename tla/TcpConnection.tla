---------------------------- MODULE TcpConnection ----------------------------
(***************************************************************************)
(* One relayed TCP connection: class TcpConnection of tcp_proxy.cpp, with  *)
(* what TcpProxy and the IP limiter do to it.  Socket 0 is the client's,   *)
(* socket 1 the one to the configured address; msg_queue[p] holds what     *)
(* waits to be written to socket p, all of it read from socket 1-p.        *)
(*                                                                         *)
(* Every handler of a connection runs on one io_service, so a handler is   *)
(* one step.  An operation of boost::asio is "pending" until the kernel    *)
(* ends it ("ok", "err", for a read also "eof"); ended operations wait for *)
(* their handlers, which run in any order.  close() cancels the pending    *)
(* ones, and as the handler of a cancelled operation returns at once and   *)
(* touches nothing, the model forgets the operation.  An operation started *)
(* on a closed socket ends with "err".                                     *)
(*                                                                         *)
(* Times are kept relative to TcpProxy::now, the value of the last tick:   *)
(* idle is now - active_time, a message's wait its due time - now, and lag *)
(* is last_flush_tm - now, positive after the wall clock was set back.     *)
(***************************************************************************)
EXTENDS Integers, Sequences

CONSTANTS max_bandwidth,             \* TcpProxyRule, bytes per second, 0: none
          delay_ms,                  \* TcpProxyRule
          tcp_timeout,               \* args, milliseconds
          ip_bandwidth,              \* IPProxies::bandwidth, by direction
          TCP_PACKET_EXTRA_OVERHEAD, \* common.h
          MAX_TCP_MSG_QUEUE_SIZE,    \* common.h
          Sizes,                     \* bytes one read may bring
          Steps,                     \* how far the clock moves between ticks
          IpSteps,                   \* the same for the IP limiter's thread
          MaxChunks,                 \* bound: reads per socket
          MaxIdle,                   \* bound: idle saturates here
          MaxLag                     \* bound: how far the clock is set back

Pair == {0, 1}

ASSUME ConstantsAssumption ==
  /\ {max_bandwidth, delay_ms, tcp_timeout, TCP_PACKET_EXTRA_OVERHEAD,
      MAX_TCP_MSG_QUEUE_SIZE, MaxChunks, MaxIdle, MaxLag} \subseteq Nat
  /\ ip_bandwidth \in [Pair -> Nat]
  /\ Sizes \subseteq Nat \ {0} /\ Sizes # {}
  /\ Steps \subseteq Int
  /\ IpSteps \subseteq Nat
  /\ delay_ms + MaxLag <= MaxIdle    \* else a saturated idle would fake a wait

VARIABLES
  close_flag, full_open, msg_queue, available_bytes, writing_flag, reading_flag,
  idle, lag,
  avail_ip,               \* client_ip->avail_bytes, shared with other connections
  connect_op, read_op, write_op,
  listed,                 \* in TcpProxy::tcp_connections, the only owner
  proxy_closed,           \* TcpProxy::close() ran: the ticks have stopped
  fault,                  \* "thrown": an exception left the io_service;
                          \* "dangling": a handler ran on the freed connection
  got,                    \* got[p]: chunks read from socket p
  sent                    \* sent[p]: numbers of the chunks written to socket p

flags  == <<close_flag, full_open>>
clock  == <<idle, lag>>
ops    == <<connect_op, read_op, write_op>>
world  == <<listed, proxy_closed, fault>>
budget == <<available_bytes, avail_ip>>
vars   == <<flags, msg_queue, budget, writing_flag, reading_flag, clock, ops,
            world, got, sent>>

AtLeast(x, low)  == IF x < low THEN low ELSE x
AtMost(x, high)  == IF x > high THEN high ELSE x
Both(x)          == [p \in Pair |-> x]

-----------------------------------------------------------------------------
(* Decisions of the handlers, one operator each.  The variants of some of  *)
(* them, defined just before, are the slips that the checks must notice.   *)

\* What an asynchronous operation started now becomes.
NewOp == IF close_flag THEN "err" ELSE "pending"

\* close() on a socket: what is pending is cancelled, what ended stays ended.
CancelledNot(op) == op
Cancelled(op) == IF op = "pending" THEN "none" ELSE op

Cost(m) == m.size + TCP_PACKET_EXTRA_OVERHEAD

Credit(bytes, d) == (d * bytes) \div 1000

\* No data is on its way in either direction.
Drained(q) == q[0] = <<>> /\ q[1] = <<>>

\* A read that failed closes the connection, or only marks it half open.
ReadErrorNeverCloses(p) == FALSE
ReadErrorCloses(p) == msg_queue[1-p] = <<>>

\* The queue that socket p feeds is over its limit: stop reading p.
QueueFullLate(q, p) == Len(q[1-p]) > MAX_TCP_MSG_QUEUE_SIZE + 1
QueueFull(q, p) == Len(q[1-p]) > MAX_TCP_MSG_QUEUE_SIZE

\* The finished write was the last one of a half-open connection.
LastWrite(q) == ~full_open /\ Drained(q)

\* handleWrite starts a write: the front message is due, the balance not negative.
MayWriteInDebt(p, q, avail) == q[p] # <<>> /\ Head(q[p]).wait <= 0
MayWrite(p, q, avail) == q[p] # <<>> /\ avail[p] >= 0 /\ Head(q[p]).wait <= 0

\* avail_bytes[1-p] limits the writes to socket p.
IpAllowsSwapped(p) == ip_bandwidth[p] > 0 => avail_ip[p] >= 0
IpAllows(p) == ip_bandwidth[1-p] > 0 => avail_ip[1-p] >= 0

ExpiredOnlyOpen(age) == full_open /\ age > tcp_timeout
Expired(age) == age > tcp_timeout

\* The directions a flush may start: those without a write in flight.
FlushableAll == Pair
Flushable == {p \in Pair : ~writing_flag[p]}

\* writing_flag[p] after handleWrite tried the sockets of S and started those of go.
WritingAfterKept(p, S, go) == p \in go \/ writing_flag[p]
WritingAfter(p, S, go) == p \in go \/ (p \notin S /\ writing_flag[p])

\* The read on the other socket when a message of socket p has been popped.
ResumedNot(p) == read_op[1-p]
Resumed(p) == IF reading_flag[1-p] THEN read_op[1-p] ELSE NewOp
-----------------------------------------------------------------------------
Init ==
  /\ close_flag = FALSE
  /\ full_open = FALSE
  /\ msg_queue = Both(<<>>)
  /\ available_bytes = Both(0)
  /\ writing_flag = Both(FALSE)
  /\ reading_flag = Both(TRUE)
  /\ idle = 0
  /\ lag \in {0, MaxLag}
  /\ avail_ip = Both(0)
  /\ connect_op = "pending"
  /\ read_op = Both("none")
  /\ write_op = Both("none")
  /\ listed = TRUE
  /\ proxy_closed = FALSE
  /\ fault = "none"
  /\ got = Both(0)
  /\ sent = Both(<<>>)

Running == listed /\ fault = "none"

\* TcpConnection::stop, the operations being c, r and w when it is called.
Stop(c, r, w) ==
  /\ close_flag' = TRUE
  /\ connect_op' = Cancelled(c)
  /\ read_op' = [p \in Pair |-> Cancelled(r[p])]
  /\ write_op' = [p \in Pair |-> Cancelled(w[p])]

\* The second half of handleWrite, for the sockets of S.
StartWrites(S, q, avail) ==
  LET go == {p \in S : MayWrite(p, q, avail) /\ IpAllows(p)}
  IN  /\ writing_flag' = [p \in Pair |-> WritingAfter(p, S, go)]
      /\ write_op' = [p \in Pair |-> IF p \in go THEN NewOp
                                     ELSE IF p \in S THEN "none" ELSE write_op[p]]
      /\ available_bytes' =
           [p \in Pair |-> IF p \in go /\ max_bandwidth > 0
                           THEN avail[p] - Cost(Head(q[p])) ELSE avail[p]]
      /\ avail_ip' =
           [i \in Pair |-> IF (1-i) \in go /\ ip_bandwidth[i] > 0
                           THEN avail_ip[i] - Cost(Head(q[1-i])) ELSE avail_ip[i]]
-----------------------------------------------------------------------------
(* The kernel and the peers end pending operations.                        *)

ConnectDone(r) ==
  /\ fault = "none" /\ connect_op = "pending"
  /\ connect_op' = r
  /\ UNCHANGED <<flags, msg_queue, budget, writing_flag, reading_flag, clock,
                 read_op, write_op, world, got, sent>>

ReadDone(p, r) ==
  /\ fault = "none" /\ read_op[p] = "pending"
  /\ r = "ok" => got[p] < MaxChunks
  /\ read_op' = [read_op EXCEPT ![p] = r]
  /\ UNCHANGED <<flags, msg_queue, budget, writing_flag, reading_flag, clock,
                 connect_op, write_op, world, got, sent>>

WriteDone(p, r) ==
  /\ fault = "none" /\ write_op[p] = "pending"
  /\ write_op' = [write_op EXCEPT ![p] = r]
  /\ sent' = IF r = "ok" THEN [sent EXCEPT ![p] = Append(@, Head(msg_queue[p]).id)]
                         ELSE sent
  /\ UNCHANGED <<flags, msg_queue, budget, writing_flag, reading_flag, clock,
                 connect_op, read_op, world, got>>
-----------------------------------------------------------------------------
(* The completion handlers.                                                *)

HandleConnectOk ==
  /\ Running /\ connect_op = "ok"
  /\ idle' = 0
  /\ full_open' = TRUE
  /\ connect_op' = "none"
  /\ read_op' = Both(NewOp)
  /\ UNCHANGED <<close_flag, msg_queue, budget, writing_flag, reading_flag, lag,
                 write_op, world, got, sent>>

HandleConnectErr ==
  /\ Running /\ connect_op = "err"
  /\ Stop("none", read_op, write_op)
  /\ UNCHANGED <<full_open, msg_queue, budget, writing_flag, reading_flag, clock,
                 world, got, sent>>

HandleReadOk(p, size) ==
  LET age == IF full_open THEN 0 ELSE idle
      msg == [id |-> got[p] + 1, size |-> size, wait |-> AtLeast(delay_ms - age, -MaxLag)]
      q   == [msg_queue EXCEPT ![1-p] = Append(@, msg)]
  IN  /\ Running /\ read_op[p] = "ok"
      /\ idle' = age
      /\ msg_queue' = q
      /\ got' = [got EXCEPT ![p] = @ + 1]
      /\ reading_flag' = [reading_flag EXCEPT ![p] = @ /\ ~QueueFull(q, p)]
      /\ read_op' = [read_op EXCEPT ![p] = IF QueueFull(q, p) THEN "none" ELSE NewOp]
      /\ UNCHANGED <<flags, budget, writing_flag, lag, connect_op, write_op, world, sent>>

HandleReadErr(p) ==
  /\ Running /\ read_op[p] \in {"eof", "err"}
  /\ \/ /\ ReadErrorCloses(p)
        /\ Stop(connect_op, [read_op EXCEPT ![p] = "none"], write_op)
        /\ UNCHANGED full_open
     \/ /\ ~ReadErrorCloses(p)
        /\ full_open' = FALSE
        /\ read_op' = [read_op EXCEPT ![p] = "none"]
        /\ UNCHANGED <<close_flag, connect_op, write_op>>
  /\ UNCHANGED <<msg_queue, budget, writing_flag, reading_flag, clock, world, got, sent>>

HandleWriteOk(p) ==
  LET q == [msg_queue EXCEPT ![p] = Tail(@)]
  IN  /\ Running /\ write_op[p] = "ok"
      /\ msg_queue' = q
      /\ \/ /\ LastWrite(q)
            /\ Stop(connect_op, read_op, [write_op EXCEPT ![p] = "none"])
            /\ UNCHANGED <<writing_flag, reading_flag, budget>>
         \/ /\ ~LastWrite(q)
            /\ reading_flag' = [reading_flag EXCEPT ![1-p] = TRUE]
            /\ read_op' = [read_op EXCEPT ![1-p] = Resumed(p)]
            /\ StartWrites({p}, q, available_bytes)
            /\ UNCHANGED <<close_flag, connect_op>>
      /\ UNCHANGED <<full_open, clock, world, got, sent>>

\* The log line asks the socket for its remote endpoint, which throws when the
\* socket is closed and may throw when the peer has reset it.
HandleWriteErr(p) ==
  /\ Running /\ write_op[p] = "err"
  /\ \/ /\ ~close_flag
        /\ Stop(connect_op, read_op, [write_op EXCEPT ![p] = "none"])
        /\ UNCHANGED fault
     \/ /\ fault' = "thrown"
        /\ UNCHANGED <<close_flag, ops>>
  /\ UNCHANGED <<full_open, msg_queue, budget, writing_flag, reading_flag, clock,
                 listed, proxy_closed, got, sent>>
-----------------------------------------------------------------------------
(* TcpProxy::handleWait, the tick, as far as it concerns one connection:   *)
(* the clock moves by d milliseconds, then flushMsgs, unless the clock is  *)
(* not past the last flush; an erased connection is freed.                 *)

AdvanceNoFlushTime(d) ==
  /\ d + MaxLag >= lag
  /\ lag' = lag - d
  /\ idle' = AtMost(idle + d, MaxIdle)
Advance(d) ==
  /\ d + MaxLag >= lag
  /\ lag' = AtLeast(lag - d, 0)
  /\ idle' = AtMost(idle + d, MaxIdle)

AgedSeq(s, d) == [i \in DOMAIN s |-> [s[i] EXCEPT !.wait = AtLeast(@ - d, -MaxLag)]]

Aged(q, d) == [p \in Pair |-> AgedSeq(q[p], d)]

\* available_bytes after a flush that accounts for d milliseconds.
RepaidAlways(d) ==
  [p \in Pair |-> IF max_bandwidth > 0
                  THEN available_bytes[p] + Credit(max_bandwidth, d)
                  ELSE available_bytes[p]]
Repaid(d) ==
  [p \in Pair |-> IF max_bandwidth > 0 /\ available_bytes[p] < 0
                  THEN available_bytes[p] + Credit(max_bandwidth, d)
                  ELSE available_bytes[p]]

TickOnly(d) ==
  /\ Running /\ ~proxy_closed
  /\ d <= lag
  /\ Advance(d)
  /\ msg_queue' = Aged(msg_queue, d)
  /\ UNCHANGED <<flags, budget, writing_flag, reading_flag, ops, world, got, sent>>

Flush(d) ==
  LET q == Aged(msg_queue, d)
  IN  /\ Running /\ ~proxy_closed
      /\ d > lag
      /\ Advance(d)
      /\ msg_queue' = q
      /\ \/ /\ close_flag
            /\ listed' = FALSE
            /\ UNCHANGED <<flags, budget, writing_flag, ops>>
         \/ /\ ~close_flag /\ Expired(idle')
            /\ Stop(connect_op, read_op, write_op)
            /\ listed' = FALSE
            /\ UNCHANGED <<full_open, budget, writing_flag>>
         \/ /\ ~close_flag /\ ~Expired(idle')
            /\ IF ~full_open /\ Drained(q)
               THEN UNCHANGED <<budget, writing_flag, write_op>>
               ELSE StartWrites(Flushable, q, Repaid(d - lag))
            /\ UNCHANGED <<flags, connect_op, read_op, listed>>
      /\ UNCHANGED <<reading_flag, proxy_closed, fault, got, sent>>

HandleWait(d) == TickOnly(d) \/ Flush(d)

\* TcpProxy::close, at the tick after TcpProxy::stop: no timer is armed again.
ProxyClose ==
  /\ Running /\ ~proxy_closed
  /\ proxy_closed' = TRUE
  /\ Stop(connect_op, read_op, write_op)
  /\ UNCHANGED <<full_open, msg_queue, budget, writing_flag, reading_flag, clock,
                 listed, fault, got, sent>>
-----------------------------------------------------------------------------
(* The IP limiter: its thread credits the client's address, and the other  *)
(* connections of that address spend from the same balance.                *)

IpRoutine(d) ==
  /\ Running
  /\ \E i \in Pair : avail_ip[i] < 0
  /\ avail_ip' = [i \in Pair |-> IF avail_ip[i] < 0
                                 THEN avail_ip[i] + Credit(ip_bandwidth[i], d)
                                 ELSE avail_ip[i]]
  /\ UNCHANGED <<flags, msg_queue, available_bytes, writing_flag, reading_flag,
                 clock, ops, world, got, sent>>

IpOther(i, size) ==
  /\ Running
  /\ ip_bandwidth[i] > 0 /\ avail_ip[i] >= 0
  /\ avail_ip' = [avail_ip EXCEPT ![i] = @ - (size + TCP_PACKET_EXTRA_OVERHEAD)]
  /\ UNCHANGED <<flags, msg_queue, available_bytes, writing_flag, reading_flag,
                 clock, ops, world, got, sent>>
-----------------------------------------------------------------------------
\* The handler of an operation that ended before the connection was erased
\* runs on freed memory: handlers are bound to a plain this.
HandlerAfterErase ==
  /\ ~listed /\ fault = "none"
  /\ \E x \in {connect_op} \cup {read_op[p] : p \in Pair} \cup {write_op[p] : p \in Pair} :
       x # "none"
  /\ fault' = "dangling"
  /\ UNCHANGED <<flags, msg_queue, budget, writing_flag, reading_flag, clock, ops,
                 listed, proxy_closed, got, sent>>

\* The connection is gone, or the process, or the proxy has stopped ticking.
Ended == ~listed \/ fault # "none" \/ proxy_closed

Terminated == Ended /\ UNCHANGED vars

Handlers ==
  \/ HandleConnectOk \/ HandleConnectErr
  \/ \E p \in Pair : \/ \E size \in Sizes : HandleReadOk(p, size)
                     \/ HandleReadErr(p) \/ HandleWriteOk(p) \/ HandleWriteErr(p)

Kernel ==
  \/ \E r \in {"ok", "err"} : ConnectDone(r)
  \/ \E p \in Pair : \/ \E r \in {"ok", "eof", "err"} : ReadDone(p, r)
                     \/ \E r \in {"ok", "err"} : WriteDone(p, r)

Ticks == \E d \in Steps : HandleWait(d)

IpLimiter ==
  \/ \E d \in IpSteps : IpRoutine(d)
  \/ \E i \in Pair, size \in Sizes : IpOther(i, size)

Next == Handlers \/ Kernel \/ Ticks \/ ProxyClose \/ IpLimiter
        \/ HandlerAfterErase \/ Terminated

Spec == Init /\ [][Next]_vars
-----------------------------------------------------------------------------
(* Invariants.                                                             *)

Ops == {"none", "pending", "ok", "err"}

Messages == [id : 1..MaxChunks, size : Sizes, wait : Int]

\* Type correctness, with the ranges that the code relies on: last_flush_tm is
\* never before now, every queued message was read from the other side.
TypeOK ==
  /\ close_flag \in BOOLEAN /\ full_open \in BOOLEAN
  /\ msg_queue \in [Pair -> Seq(Messages)]
  /\ available_bytes \in [Pair -> Int]
  /\ avail_ip \in [Pair -> Int]
  /\ writing_flag \in [Pair -> BOOLEAN]
  /\ reading_flag \in [Pair -> BOOLEAN]
  /\ idle \in Int /\ idle <= MaxIdle
  /\ lag \in 0..MaxLag
  /\ connect_op \in Ops
  /\ read_op \in [Pair -> Ops \cup {"eof"}]
  /\ write_op \in [Pair -> Ops]
  /\ listed \in BOOLEAN
  /\ proxy_closed \in BOOLEAN
  /\ fault \in {"none", "thrown", "dangling"}
  /\ got \in [Pair -> 0..MaxChunks]
  /\ sent \in [Pair -> Seq(1..MaxChunks)]

\* The assertion of handleWrite, and its tick: a write in flight is the front of
\* its queue, which nothing else pops, and writing_flag is set exactly while
\* a write is in flight, else the tick would start a second one or none.
WriteInFlight ==
  \A p \in Pair :
    /\ write_op[p] # "none" => writing_flag[p] /\ msg_queue[p] # <<>>
    /\ writing_flag[p] => write_op[p] # "none" \/ close_flag

\* The proxy buffers at most one chunk more per direction than the limit, whatever
\* the order in which reads and writes complete.
QueueBound == \A p \in Pair : Len(msg_queue[p]) <= MAX_TCP_MSG_QUEUE_SIZE + 1

\* Backpressure: a socket is read exactly while the queue it feeds has room.
\* No re-arming of a read is lost between handleRead and handleWrite, and no
\* second read is ever started on a socket.
Backpressure ==
  \A p \in Pair :
    /\ read_op[p] # "none" => reading_flag[p] /\ ~QueueFull(msg_queue, p)
    /\ ~reading_flag[p] => close_flag \/ QueueFull(msg_queue, p)
    /\ full_open /\ ~close_flag => read_op[p] # "none" \/ ~reading_flag[p]

\* A connected socket pair that lost one side stays only while it has data to
\* write: nothing else would ever close it.
HalfOpenHasData ==
  ~full_open /\ connect_op = "none" /\ ~close_flag => ~Drained(msg_queue)

\* Closing leaves nothing pending, so that a closed connection can be freed
\* once the operations that had ended before are handled; an erased
\* connection is closed.
ClosedIsQuiet ==
  /\ close_flag => /\ connect_op # "pending"
                   /\ \A p \in Pair : read_op[p] # "pending" /\ write_op[p] # "pending"
  /\ ~listed \/ proxy_closed => close_flag

\* Until the connection to the configured address is made nothing is read.
ConnectingIsIdle ==
  connect_op # "none" =>
    /\ ~full_open /\ Drained(msg_queue)
    /\ \A p \in Pair : read_op[p] = "none" /\ write_op[p] = "none" /\ reading_flag[p]

\* A bounded peer: a read that brings a chunk was one of its MaxChunks.
ReadsBounded == \A p \in Pair : read_op[p] = "ok" => got[p] < MaxChunks

\* The inductive invariant.
IInv == /\ TypeOK /\ ReadsBounded /\ ConnectingIsIdle /\ WriteInFlight /\ QueueBound
        /\ Backpressure /\ HalfOpenHasData /\ ClosedIsQuiet

\* Each balance is overdrawn by one packet at most, per connection and, with
\* every connection of the address spending from it, per IP.
DebtBound ==
  \A p \in Pair :
    /\ \E size \in Sizes : available_bytes[p] >= -(size + TCP_PACKET_EXTRA_OVERHEAD)
    /\ \E size \in Sizes : avail_ip[p] >= -(size + TCP_PACKET_EXTRA_OVERHEAD)

\* What is on its way to socket p: a written chunk stays at the front of the queue
\* until handleWrite runs.
Ids(q) == [i \in DOMAIN q |-> q[i].id]

InTransit(p) ==
  IF write_op[p] = "ok" THEN Ids(Tail(msg_queue[p])) ELSE Ids(msg_queue[p])

Pipe == INSTANCE RelayPipe
          WITH Capacity  <- MAX_TCP_MSG_QUEUE_SIZE + 1,
               accepted  <- got,
               buffer    <- [p \in Pair |-> InTransit(p)],
               delivered <- sent,
               open      <- ~close_flag

\* Forwarding: every chunk is written to the other side once and in order,
\* from two bounded buffers, and nothing is written after stop().
RelaysInOrder == Pipe!PipeSpec
-----------------------------------------------------------------------------
(* Liveness.  An io_service thread runs every completed handler after a    *)
(* finite time, and the timer, armed again by each tick, keeps ticking.    *)

SchedulerFairness ==
  /\ WF_vars(Ticks)
  /\ WF_vars(HandleConnectOk) /\ WF_vars(HandleConnectErr)
  /\ \A p \in Pair : /\ WF_vars(\E size \in Sizes : HandleReadOk(p, size))
                     /\ WF_vars(HandleReadErr(p))
                     /\ WF_vars(HandleWriteOk(p))
                     /\ WF_vars(HandleWriteErr(p))

FairSpec == Spec /\ SchedulerFairness

\* Two peers that keep taking what they are sent.
PeersRead == \A p \in Pair : WF_vars(WriteDone(p, "ok"))

FairPeersSpec == FairSpec /\ PeersRead

\* flushMsgs: peers that have fallen silent (they send MaxChunks at most) cannot
\* hold a connection for ever, whether it never connected, is blocked in a
\* write, is half open, or has its readers paused.
Released == <>Ended

\* A chunk read is eventually written to the other side unless the connection is
\* closed: neither the delay, nor the balance, nor the tick that skips a
\* direction with a write in flight, nor a paused reader loses the last wake-up.
Forwarded ==
  \A p \in Pair : \A n \in 1..MaxChunks :
    got[1-p] >= n ~> Len(sent[p]) >= n \/ close_flag \/ Ended

\* handleWrite: a reader paused by a full queue is started again.
ReaderResumes ==
  \A p \in Pair : ~reading_flag[p] ~> read_op[p] # "none" \/ close_flag \/ Ended
-----------------------------------------------------------------------------
(* What the documentation says of the program and the code does not keep.  *)

\* README: connections are forwarded "to and from" the remote address.  A peer that
\* ends its own stream is still sent what was already read for it.
\* handleRead only looks at the queue that the ended stream feeds.
EofDrains ==
  [][\A p \in Pair : read_op[p] = "eof" /\ read_op'[p] = "none" /\ msg_queue[p] # <<>>
        => close_flag' = close_flag]_vars
=============================================================================
