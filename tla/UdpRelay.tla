------------------------------- MODULE UdpRelay -------------------------------
(***************************************************************************)
(* The UDP relay: classes UdpEndpointProxy and UdpProxyServer of           *)
(* udp_proxy.cpp.                                                          *)
(*                                                                         *)
(* An endpoint is a socket that stands for a peer: what y sends to the     *)
(* socket of x is passed on to x from the socket of y.  The endpoint of a  *)
(* rule's destination is made at start (server_flag) and listens on the    *)
(* port of the rule; the others are made when a peer is first heard of.    *)
(*                                                                         *)
(* One routine thread passes datagrams on, makes and erases endpoints; the *)
(* receive handlers run on io_service threads.  Both lock an endpoint.     *)
(* The routine keeps the lock of cur while it empties a queue, one         *)
(* datagram per step; a handler is one step.                               *)
(***************************************************************************)
EXTENDS Integers, Sequences

CONSTANTS Peers,
          Servers,          \* the destinations of the rules
          Flows,            \* <<y, x>>: y sends to the socket of x
          MAX_UDP_MSG_QUEUE_SIZE,
          max_bandwidth, delay_ms, udp_timeout,
          drop_prob,        \* 0, or what may drop a datagram
          ip_limit,         \* an address may have no credit left
          Cost,             \* bytes of a datagram, overhead included
          Steps             \* milliseconds that the clock may move in one pass

CONSTANTS MaxMsgs,          \* bound: datagrams of each flow
          MaxErrors,        \* bound: operations that fail on an open socket
          MaxIdle           \* bound: where idle saturates

CONSTANTS None, Gone

ASSUME UdpAssumption ==
  /\ Servers \subseteq Peers /\ Flows \subseteq Peers \X Peers
  /\ MAX_UDP_MSG_QUEUE_SIZE \in Nat \ {0}
  /\ max_bandwidth \in Nat /\ delay_ms \in Nat /\ udp_timeout \in Nat
  /\ drop_prob \in Nat /\ ip_limit \in BOOLEAN
  /\ Cost \in Nat \ {0} /\ Steps \subseteq Nat \ {0}
  /\ MaxMsgs \in [Flows -> Nat] /\ MaxErrors \in Nat /\ MaxIdle \in Nat
  /\ None \notin Peers

VARIABLES
  ept,          \* the endpoint of a peer, or Gone
  endpoints,    \* the peers in the table
  new_epts,     \* those found in this pass
  running_flag,
  pass, todo,   \* of the routine thread: where in its loop, endpoints still to visit
  cur,          \* the endpoint it has locked, or None
  interval,
  received, delivered,    \* of a flow: how many have come, which have gone out
  errors,
  failed,       \* an init() has failed
  orphaned,     \* a handler is queued for an endpoint that was destroyed
  fault         \* "assert", "dangling", or "shared": two receives into recving_msg

routineVars == <<pass, todo, cur, interval>>
flowHistory == <<received, delivered>>
udpVars == <<ept, endpoints, new_epts, running_flag, routineVars, flowHistory,
             errors, failed, orphaned, fault>>

Results == {"ok", "refused", "err"}

\* Receives that are pending, or have ended and wait for their handlers.
NoOps == [s \in {"pending"} \cup Results |-> 0]
Queued(o) == o # Gone /\ \E r \in Results : o.ops[r] > 0

\* Receives that write to recving_msg, or whose handlers use it.
Live(o) == o.ops["pending"] + o.ops["ok"] + o.ops["refused"]

Aged(wait, d) == IF wait > d THEN wait - d ELSE 0
Waited(queue, d) == [i \in DOMAIN queue |-> [queue[i] EXCEPT !.wait = Aged(@, d)]]

\* The endpoint before its constructor calls init().
Blank(server) ==
  [server_flag |-> server, active |-> FALSE, idle |-> 0, socket |-> "closed",
   recv_queue |-> <<>>, send_queue |-> <<>>,
   recv_avail_bytes |-> 0, send_avail_bytes |-> 0,
   recving_flag |-> TRUE, ops |-> NoOps, recving_msg |-> None]

-----------------------------------------------------------------------------
(* What is done to an endpoint.  The variants defined just before some of  *)
(* the definitions are the slips that the checks must notice.              *)

\* A pending receive ends with r; its handler takes it.
Ended(o, r) == [o EXCEPT !.ops["pending"] = @ - 1, !.ops[r] = @ + 1]
Handled(o, r) == [o EXCEPT !.ops[r] = @ - 1]

\* A receive on a closed socket ends with an error.
AsyncRecv(o) == [o EXCEPT !.ops[IF o.socket = "closed" THEN "err" ELSE "pending"] = @ + 1]

\* stop(): what is pending is cancelled; what has ended is not.
StoppedPending(o) == [o EXCEPT !.socket = "closed", !.active = FALSE, !.idle = 0]
Stopped(o) == [o EXCEPT !.socket = "closed", !.active = FALSE, !.idle = 0, !.ops["pending"] = 0]

\* init(): the socket is opened and bound, a receive started; open or bind may fail.
Inited(o) == [AsyncRecv([o EXCEPT !.socket = "bound"]) EXCEPT !.active = TRUE, !.idle = 0]
InitFailures(o) == {[o EXCEPT !.socket = s] : s \in {"closed", "unbound"}}

\* After an error: stop(), and for a server init().
Restarted(o) == IF o.server_flag THEN Inited(Stopped(o)) ELSE Stopped(o)
RestartFailures(o) == IF o.server_flag THEN InitFailures(Stopped(o)) ELSE {}

QueueFull(o) == Len(o.recv_queue) > MAX_UDP_MSG_QUEUE_SIZE

\* An endpoint to erase: stopped, or not used for long unless it is a server's.
ExpiredServers(o) == ~o.active \/ o.idle > udp_timeout
ExpiredStopped(o) == ~o.active
Expired(o) == ~o.active \/ (o.idle > udp_timeout /\ ~o.server_flag)

Limited(o) == ~o.server_flag /\ max_bandwidth > 0
Repaid(bytes) == IF bytes < 0 THEN bytes + (interval * max_bandwidth) \div 1000 ELSE bytes

Credited(o) ==
  IF Limited(o) THEN [o EXCEPT !.recv_avail_bytes = Repaid(@), !.send_avail_bytes = Repaid(@)]
  ELSE o

MayRecv(o) == /\ o.recv_queue # <<>> /\ o.recv_avail_bytes >= 0
              /\ Head(o.recv_queue).wait = 0
MaySend(o) == o.send_queue # <<>> /\ o.send_avail_bytes >= 0

\* The datagram at the front has been passed on; a paused receive is started again.
Charged(o) == [o EXCEPT !.recv_avail_bytes = IF Limited(o) THEN @ - Cost ELSE @]
PoppedPaused(o) == [Charged(o) EXCEPT !.recv_queue = Tail(@)]
PoppedTwice(o) == AsyncRecv([Charged(o) EXCEPT !.recv_queue = Tail(@), !.recving_flag = TRUE])
Popped(o) ==
  LET p == [Charged(o) EXCEPT !.recv_queue = Tail(@), !.recving_flag = TRUE]
  IN  IF o.recving_flag THEN p ELSE AsyncRecv(p)

\* A datagram for e is given to an endpoint, unless its queue is full.
GivenAlways(o, msg, e) ==
  [o EXCEPT !.send_queue = Append(@, [dst |-> e, num |-> msg.num])]
Given(o, msg, e) ==
  IF Len(o.send_queue) < MAX_UDP_MSG_QUEUE_SIZE
  THEN [o EXCEPT !.send_queue = Append(@, [dst |-> e, num |-> msg.num])] ELSE o

\* The datagram at the front has been sent, which binds a socket that was not bound.
SentKept(o) == [o EXCEPT !.socket = "bound",
                         !.send_avail_bytes = IF Limited(o) THEN @ - Cost ELSE @]
Sent(o) == [o EXCEPT !.socket = "bound", !.send_queue = Tail(@),
                     !.send_avail_bytes = IF Limited(o) THEN @ - Cost ELSE @]

\* The sender of a datagram is in use.
Used(o) == IF o.active THEN [o EXCEPT !.idle = 0] ELSE o
-----------------------------------------------------------------------------
Init ==
  /\ ept = [e \in Peers |-> IF e \in Servers THEN Inited(Blank(TRUE)) ELSE Gone]
  /\ endpoints = Servers /\ new_epts = {}
  /\ running_flag = TRUE
  /\ pass = "sleep" /\ todo = {} /\ cur = None /\ interval = 0
  /\ received = [f \in Flows |-> 0] /\ delivered = [f \in Flows |-> {}]
  /\ errors = 0 /\ failed = FALSE /\ orphaned = FALSE
  /\ fault = "none"

\* Some endpoints have changed; two receives of one endpoint share recving_msg, and
\* what follows is not defined.
Becomes(epts) ==
  /\ ept' = epts
  /\ fault' = IF \E e \in Peers : epts[e] # Gone /\ Live(epts[e]) > 1 THEN "shared" ELSE "none"

\* stop(), and init() for a server, which may fail.
Restart(e, o) ==
  \/ /\ Becomes([ept EXCEPT ![e] = Restarted(o)])
     /\ UNCHANGED failed
  \/ \E n \in RestartFailures(o) : Becomes([ept EXCEPT ![e] = n]) /\ failed' = TRUE

\* The kernel ends a pending receive, with a datagram of a flow, for which the socket
\* must be bound, or an error.
Arrive(f) ==
  LET e == f[2] IN
  /\ fault = "none" /\ ept[e] # Gone /\ ept[e].ops["pending"] > 0
  /\ ept[e].socket = "bound"
  /\ received[f] < MaxMsgs[f]
  /\ received' = [received EXCEPT ![f] = @ + 1]
  /\ Becomes([ept EXCEPT ![e] = [Ended(@, "ok") EXCEPT
                                   !.recving_msg = [src |-> f[1], num |-> received[f] + 1]]])
  /\ UNCHANGED <<endpoints, new_epts, running_flag, routineVars, delivered, errors,
                 failed, orphaned>>

RecvFails(e, r) ==
  /\ fault = "none" /\ ept[e] # Gone /\ ept[e].ops["pending"] > 0
  /\ errors < MaxErrors
  /\ errors' = errors + 1
  /\ Becomes([ept EXCEPT ![e] = Ended(@, r)])
  /\ UNCHANGED <<endpoints, new_epts, running_flag, routineVars, flowHistory, failed,
                 orphaned>>

\* A handler of a receive that ended with r can run.
Handles(e, r) == fault = "none" /\ ept[e] # Gone /\ ept[e].ops[r] > 0

\* handleRecv: a datagram has come.  It is dropped, or queued.
HandleRecvOk(e) ==
  LET o == [Handled(ept[e], "ok") EXCEPT !.active = TRUE, !.idle = 0, !.recving_msg = None]
      q == [o EXCEPT !.recv_queue = Append(@, [src |-> ept[e].recving_msg.src,
                                               num |-> ept[e].recving_msg.num,
                                               wait |-> delay_ms])]
  IN  /\ Handles(e, "ok") /\ cur # e
      /\ \/ drop_prob > 0 /\ Becomes([ept EXCEPT ![e] = AsyncRecv(o)])
         \/ /\ QueueFull(q)
            /\ Becomes([ept EXCEPT ![e] = [q EXCEPT !.recving_flag = FALSE]])
         \/ ~QueueFull(q) /\ Becomes([ept EXCEPT ![e] = AsyncRecv(q)])
      /\ UNCHANGED <<endpoints, new_epts, running_flag, routineVars, flowHistory, errors,
                     failed, orphaned>>

\* handleRecv: connection_refused or connection_reset.  It takes no lock.
HandleRecvRefused(e) ==
  /\ Handles(e, "refused")
  /\ Becomes([ept EXCEPT ![e] = AsyncRecv(Handled(ept[e], "refused"))])
  /\ UNCHANGED <<endpoints, new_epts, running_flag, routineVars, flowHistory, errors,
                 failed, orphaned>>

\* handleRecv: any other error.
HandleRecvErr(e) ==
  /\ Handles(e, "err") /\ cur # e
  /\ Restart(e, Handled(ept[e], "err"))
  /\ UNCHANGED <<endpoints, new_epts, running_flag, routineVars, flowHistory, errors,
                 orphaned>>

\* The handler of an endpoint that was destroyed: it is bound to a plain this.
HandlerAfterErase ==
  /\ fault = "none" /\ orphaned
  /\ fault' = "dangling"
  /\ UNCHANGED <<ept, endpoints, new_epts, running_flag, routineVars, flowHistory,
                 errors, failed, orphaned>>
-----------------------------------------------------------------------------
(* The routine thread.                                                     *)

\* A pass of the loop begins, d milliseconds after the last one.
Wake(d) ==
  /\ fault = "none" /\ pass = "sleep" /\ running_flag
  /\ pass' = "recv" /\ todo' = endpoints /\ interval' = d
  /\ ept' = [e \in Peers |->
       IF ept[e] = Gone THEN Gone
       ELSE [ept[e] EXCEPT
               !.idle = IF ~ept[e].active THEN 0
                        ELSE IF @ + d < MaxIdle THEN @ + d ELSE MaxIdle,
               !.recv_queue = Waited(@, d)]]
  /\ UNCHANGED <<endpoints, new_epts, running_flag, cur, flowHistory, errors, failed,
                 orphaned, fault>>

\* An endpoint is erased, and destroyed.
Erase(e) ==
  /\ fault = "none" /\ pass = "recv" /\ cur = None /\ e \in todo /\ Expired(ept[e])
  /\ todo' = todo \ {e}
  /\ endpoints' = endpoints \ {e}
  /\ ept' = [ept EXCEPT ![e] = Gone]
  /\ orphaned' = (orphaned \/ Queued(ept[e]))
  /\ UNCHANGED <<new_epts, running_flag, pass, cur, interval, flowHistory, errors,
                 failed, fault>>

\* An endpoint is locked, and in the first loop given credit.
Enter(e) ==
  /\ fault = "none" /\ cur = None /\ e \in todo
  /\ \/ pass = "recv" /\ ~Expired(ept[e]) /\ ept' = [ept EXCEPT ![e] = Credited(@)]
     \/ pass = "send" /\ UNCHANGED ept
  /\ cur' = e
  /\ todo' = todo \ {e}
  /\ UNCHANGED <<endpoints, new_epts, running_flag, pass, interval, flowHistory, errors,
                 failed, orphaned, fault>>

\* A datagram is passed on from the queue of cur to the endpoint of its sender, one of
\* the table.
PassOn ==
  LET msg == Head(ept[cur].recv_queue) IN
  /\ fault = "none" /\ pass = "recv" /\ cur # None /\ MayRecv(ept[cur])
  /\ msg.src # cur /\ msg.src \in endpoints
  /\ Becomes([ept EXCEPT ![cur] = Popped(@), ![msg.src] = Given(Used(@), msg, cur)])
  /\ UNCHANGED <<endpoints, new_epts, running_flag, routineVars, flowHistory, errors,
                 failed, orphaned>>

\* One that is made for it, in place of one made earlier in this pass. When init() fails
\* it is destroyed with the datagram. When the receive fails before the
\* constructor sets active_tm, it is left without one.
PassOnToNew ==
  LET msg == Head(ept[cur].recv_queue)
      made(o) == /\ Becomes([ept EXCEPT ![cur] = Popped(@),
                                        ![msg.src] = Given(o, msg, cur)])
                 /\ new_epts' = new_epts \cup {msg.src}
                 /\ orphaned' = (orphaned \/ Queued(ept[msg.src]))
  IN  /\ fault = "none" /\ pass = "recv" /\ cur # None /\ MayRecv(ept[cur])
      /\ msg.src # cur /\ msg.src \notin endpoints
      /\ \/ /\ made(Inited(Blank(FALSE)))
            /\ UNCHANGED <<errors, failed>>
         \/ /\ errors < MaxErrors /\ errors' = errors + 1
            /\ made([Stopped(Inited(Blank(FALSE))) EXCEPT !.active = TRUE])
            /\ UNCHANGED failed
         \/ /\ errors < MaxErrors /\ errors' = errors + 1
            /\ failed' = TRUE
            /\ Becomes([ept EXCEPT ![cur] = Popped(@)])
            /\ UNCHANGED <<new_epts, orphaned>>
      /\ UNCHANGED <<endpoints, running_flag, routineVars, flowHistory>>

\* The assertion of the routine: a datagram does not come from the peer that the
\* endpoint stands for.  It is tested before the time of the datagram.
FromItself(e) ==
  /\ ept[e].recv_queue # <<>> /\ ept[e].recv_avail_bytes >= 0
  /\ Head(ept[e].recv_queue).src = e

AssertionFails ==
  /\ fault = "none" /\ pass = "recv" /\ cur # None /\ FromItself(cur)
  /\ fault' = "assert"
  /\ UNCHANGED <<ept, endpoints, new_epts, running_flag, routineVars, flowHistory,
                 errors, failed, orphaned>>

\* A datagram goes out from the queue of cur.
Send ==
  LET msg == Head(ept[cur].send_queue)
      f == <<cur, msg.dst>>
  IN  /\ fault = "none" /\ pass = "send" /\ cur # None /\ MaySend(ept[cur])
      /\ ept[cur].socket # "closed"
      /\ ept' = [ept EXCEPT ![cur] = Sent(@)]
      /\ delivered' = [delivered EXCEPT ![f] = @ \cup {msg.num}]
      /\ UNCHANGED <<endpoints, new_epts, running_flag, routineVars, received, errors,
                     failed, orphaned, fault>>

\* It cannot be sent: it stays in the queue, and the endpoint is stopped.
SendFails ==
  /\ fault = "none" /\ pass = "send" /\ cur # None /\ MaySend(ept[cur])
  /\ \/ ept[cur].socket = "closed" /\ UNCHANGED errors
     \/ /\ ept[cur].socket # "closed" /\ errors < MaxErrors
        /\ errors' = errors + 1
  /\ Restart(cur, ept[cur])
  /\ cur' = None
  /\ UNCHANGED <<endpoints, new_epts, running_flag, pass, todo, interval, flowHistory,
                 orphaned>>

\* The loop over a queue ends: it is empty or its front not due, or a balance is in debt.
Leave ==
  /\ fault = "none" /\ cur # None
  /\ LET o == ept[cur]
         noCredit == ip_limit /\ ~o.server_flag
     IN  \/ pass = "recv" /\ ~FromItself(cur) /\ (MayRecv(o) => noCredit)
         \/ pass = "send" /\ (MaySend(o) => noCredit)
  /\ cur' = None
  /\ UNCHANGED <<ept, endpoints, new_epts, running_flag, pass, todo, interval,
                 flowHistory, errors, failed, orphaned, fault>>

\* The loop over the endpoints ends.
NextLoop ==
  /\ fault = "none" /\ pass \in {"recv", "send", "stop"} /\ cur = None /\ todo = {}
  /\ pass' = CASE pass = "recv" -> "send" [] pass = "send" -> "sleep"
                [] pass = "stop" -> "ended"
  /\ endpoints' = endpoints \cup new_epts
  /\ new_epts' = {}
  /\ todo' = IF pass = "recv" THEN endpoints' ELSE {}
  /\ interval' = 0
  /\ UNCHANGED <<ept, running_flag, cur, flowHistory, errors, failed, orphaned, fault>>

\* SharedData::stop, or a termination signal, on another thread.
Shutdown ==
  /\ fault = "none" /\ running_flag
  /\ running_flag' = FALSE
  /\ UNCHANGED <<ept, endpoints, new_epts, routineVars, flowHistory, errors, failed,
                 orphaned, fault>>

\* The routine has noticed, and stops the endpoints.
StopBegins ==
  /\ fault = "none" /\ pass = "sleep" /\ ~running_flag
  /\ pass' = "stop" /\ todo' = endpoints
  /\ UNCHANGED <<ept, endpoints, new_epts, running_flag, cur, interval, flowHistory,
                 errors, failed, orphaned, fault>>

Stop(e) ==
  /\ fault = "none" /\ pass = "stop" /\ e \in todo
  /\ todo' = todo \ {e}
  /\ ept' = [ept EXCEPT ![e] = Stopped(@)]
  /\ UNCHANGED <<endpoints, new_epts, running_flag, pass, cur, interval, flowHistory,
                 errors, failed, orphaned, fault>>

\* The routine has ended and no handler is left, or the behaviour is not defined.
Terminated ==
  /\ \/ fault # "none"
     \/ pass = "ended" /\ \A e \in Peers : ~Queued(ept[e])
  /\ UNCHANGED udpVars

Routine ==
  \/ \E d \in Steps : Wake(d)
  \/ \E e \in Peers : Erase(e) \/ Enter(e) \/ Stop(e)
  \/ PassOn \/ PassOnToNew \/ AssertionFails \/ Send \/ SendFails \/ Leave
  \/ NextLoop \/ StopBegins

HandleRecv(e) == HandleRecvOk(e) \/ HandleRecvRefused(e) \/ HandleRecvErr(e)

Next ==
  \/ \E f \in Flows : Arrive(f)
  \/ \E e \in Peers, r \in {"refused", "err"} : RecvFails(e, r)
  \/ \E e \in Peers : HandleRecv(e)
  \/ HandlerAfterErase \/ Routine \/ Shutdown \/ Terminated

Spec == Init /\ [][Next]_udpVars
-----------------------------------------------------------------------------
Made == {e \in Peers : ept[e] # Gone}

Messages == [src : Peers, num : Nat, wait : Nat]

Objects ==
  [server_flag : BOOLEAN, active : BOOLEAN, idle : 0..MaxIdle,
   socket : {"closed", "unbound", "bound"},
   recv_queue : Seq(Messages), send_queue : Seq([dst : Peers, num : Nat]),
   recv_avail_bytes : Int, send_avail_bytes : Int, recving_flag : BOOLEAN,
   ops : [{"pending"} \cup Results -> Nat],
   recving_msg : {None} \cup [src : Peers, num : Nat]]

ASSUME NothingAssumption == Gone \notin Objects /\ None \notin [src : Peers, num : Nat]

\* Type correctness; the table and the endpoints found in a pass are apart and are all
\* that exist, and the one that is locked is in the table.  A receive is pending on
\* an open socket only.
TypeOK ==
  /\ ept \in [Peers -> Objects \cup {Gone}]
  /\ \A e \in Made : ept[e].ops["pending"] > 0 => ept[e].socket # "closed"
  /\ endpoints \cup new_epts = Made /\ endpoints \cap new_epts = {}
  /\ running_flag \in BOOLEAN
  /\ pass \in {"sleep", "recv", "send", "stop", "ended"}
  /\ todo \subseteq endpoints /\ cur \in endpoints \cup {None} /\ interval \in Nat
  /\ received \in [Flows -> Nat] /\ delivered \in [Flows -> SUBSET Nat]
  /\ errors \in 0..MaxErrors
  /\ failed \in BOOLEAN /\ orphaned \in BOOLEAN
  /\ fault \in {"none", "assert", "dangling", "shared"}

\* handleRecv, init(), the routine: three places start receives, and all receives of an
\* endpoint go into one recving_msg.  An endpoint with a bound socket has one receive on
\* its way exactly when recving_flag says so; only an init() after an error can
\* start a second one, that is, never for a client's endpoint.
OneReceive ==
  \A e \in Made :
    \/ ept[e].server_flag /\ errors > 0
    \/ Live(ept[e]) + ept[e].ops["err"] <= 1
       /\ (ept[e].socket = "bound" =>
             (ept[e].recving_flag <=> Live(ept[e]) + ept[e].ops["err"] = 1))

\* handleRecv stops receiving above the limit, the routine drops at it: both queues of
\* an endpoint stay bounded, whatever starts its receives.  An init() after an error
\* starts a paused receive too, which lets one more datagram in each time.
QueueBound ==
  \A e \in Made :
    /\ Len(ept[e].recv_queue) <=
         MAX_UDP_MSG_QUEUE_SIZE + 1 + (IF ept[e].server_flag THEN errors ELSE 0)
    /\ Len(ept[e].send_queue) <= MAX_UDP_MSG_QUEUE_SIZE

\* The comment on server_flag: a server's endpoint does not time out.  It
\* leaves the table only when init() has failed, however long it is silent.
ServersStay == failed \/ Servers \subseteq endpoints

\* Forwarding: a flow is a channel that may lose datagrams, but no queue, endpoint that
\* is erased and made again, failed send or pause of a receive makes it repeat
\* one or send it late, after a younger one, or to somebody else.
NumsTo(q, x)   == {q[i].num : i \in {k \in DOMAIN q : q[k].dst = x}}
NumsFrom(q, y) == {q[i].num : i \in {k \in DOMAIN q : q[k].src = y}}

OnTheirWay(f) ==
  LET y == f[1]
      x == f[2]
  IN  UNION
        {IF y \in Made THEN NumsTo(ept[y].send_queue, x) ELSE {},
         IF x \in Made THEN NumsFrom(ept[x].recv_queue, y) ELSE {},
         IF x \in Made /\ ept[x].recving_msg # None /\ ept[x].recving_msg.src = y
         THEN {ept[x].recving_msg.num} ELSE {}}

Channels == INSTANCE LossyFifo WITH channel <- [f \in Flows |-> OnTheirWay(f)]

ForwardsInOrder == Channels!FlowSpec

\* recving_flag: a receive that was paused is started again, or its endpoint erased.
Resumes ==
  \A e \in Peers :
    e \in endpoints /\ ~ept[e].recving_flag ~>
      ept[e] = Gone \/ ept[e].recving_flag \/ ~running_flag \/ fault # "none"

\* The routine: a client that has fallen silent loses its endpoint, even one that was
\* stopped, whose init() failed halfway or whose queues never empty.
ClientsExpire ==
  \A e \in Peers :
    ept[e] # Gone /\ ~ept[e].server_flag ~> ept[e] = Gone \/ ~running_flag \/ fault # "none"

\* The handlers that are queued are run, and the routine thread goes on.
FairSpec ==
  /\ Spec
  /\ WF_udpVars(Routine)
  /\ WF_udpVars(\E e \in Peers : HandleRecv(e))
-----------------------------------------------------------------------------
\* The comment on drop_prob: 0 means that no datagram is dropped.  Each is on its way or
\* was sent on, as long as nothing fails.
NoDropAtZero ==
  drop_prob = 0 /\ errors = 0 =>
    \A f \in Flows : 1..received[f] = delivered[f] \cup OnTheirWay(f)
=============================================================================
