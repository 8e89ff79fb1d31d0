------------------------------- MODULE TcpProxy -------------------------------
(***************************************************************************)
(* The proxy of one TCP rule: class TcpProxy of tcp_proxy.cpp, with its    *)
(* acceptor, the timer that each tick arms again, and the list of its      *)
(* connections, of which only the life is kept (TcpConnection has the      *)
(* rest).  Every handler runs on one io_service, so a handler is one step; *)
(* stop() is called by the main thread.                                    *)
(*                                                                         *)
(* accepts and waits count the asynchronous operations: those the kernel   *)
(* has not ended, and those whose handlers are queued, by their result.    *)
(* Cancelling leaves alone what has ended.  An accept that is started on a *)
(* closed acceptor ends with an error other than operation_aborted.        *)
(***************************************************************************)
EXTENDS Integers, FiniteSets

CONSTANTS Conns,       \* the clients that ever connect
          MaxErrors    \* bound: accepts that fail on an open acceptor

ASSUME ProxyAssumption == MaxErrors \in Nat

VARIABLES
  close_flag,
  acceptor,            \* "closed", "open", or "listening"
  accepts, waits,
  tcp_connections,     \* "new", "open", "closed" (and listed), or "erased"
  errors,
  stranded,            \* start() failed after close() had ended the ticks
  fault                \* "thrown": an exception left the io_service

proxyVars == <<close_flag, acceptor, accepts, waits, tcp_connections, errors,
               stranded, fault>>

AcceptStates == {"pending", "ok", "err", "aborted"}
WaitStates   == {"pending", "expired", "aborted"}

\* One operation of ops goes from one state to another.
Moved(ops, from, to) == [ops EXCEPT ![from] = @ - 1, ![to] = @ + 1]
Handled(ops, state)  == [ops EXCEPT ![state] = @ - 1]

\* What is pending is cancelled, and its handlers are queued.
Aborted(ops) == [ops EXCEPT !["pending"] = 0, !["aborted"] = @ + ops["pending"]]

\* Handlers of a wait that may still tick.
Ticking(w) == w["pending"] + w["expired"]

-----------------------------------------------------------------------------
(* Decisions of the handlers.  The variants defined just before some of    *)
(* them are the slips that the checks must notice.                         *)

\* startAccept: the operations after async_accept.
StartAccept(a, acc) ==
  [a EXCEPT ![IF acc = "listening" THEN "pending" ELSE "err"] = @ + 1]

\* asyncWait: setting the expiry time cancels the wait that is pending.
AsyncWaitOnly(w) == [w EXCEPT !["pending"] = @ + 1]
AsyncWait(w) == [Aborted(w) EXCEPT !["pending"] = 1]

\* handleWait arms the timer before it looks at the clock.
RearmedLate(w, flush) == IF flush THEN AsyncWait(w) ELSE w
Rearmed(w, flush) == AsyncWait(w)

\* The operations and the acceptor after the acceptor.close() of close().
AcceptorKept == acceptor
AcceptorClosed == "closed"

\* The accepts after the start() that follows an error, where handleAccept returns.
AcceptsRestartedTwice(a) == StartAccept(StartAccept(Aborted(a), "listening"), "listening")
AcceptsRestarted(a) == StartAccept(Aborted(a), "listening")
-----------------------------------------------------------------------------
\* After a start() that succeeded.
Init ==
  /\ close_flag = FALSE
  /\ acceptor = "listening"
  /\ accepts = [s \in AcceptStates |-> IF s = "pending" THEN 1 ELSE 0]
  /\ waits = [s \in WaitStates |-> IF s = "pending" THEN 1 ELSE 0]
  /\ tcp_connections = [c \in Conns |-> "new"]
  /\ errors = 0
  /\ stranded = FALSE
  /\ fault = "none"

\* The kernel ends a pending accept, with a client or with an error.
AcceptDone(r) ==
  /\ fault = "none" /\ accepts["pending"] > 0
  /\ r = "ok" => \E c \in Conns : tcp_connections[c] = "new"
  /\ r = "err" => errors < MaxErrors
  /\ errors' = IF r = "err" THEN errors + 1 ELSE errors
  /\ accepts' = Moved(accepts, "pending", r)
  /\ UNCHANGED <<close_flag, acceptor, waits, tcp_connections, stranded, fault>>

WaitExpires ==
  /\ fault = "none" /\ waits["pending"] > 0
  /\ waits' = Moved(waits, "pending", "expired")
  /\ UNCHANGED <<close_flag, acceptor, accepts, tcp_connections, errors, stranded, fault>>

\* TcpProxy::stop, by SharedData::stop on the main thread.
Stop ==
  /\ fault = "none" /\ ~close_flag
  /\ close_flag' = TRUE
  /\ UNCHANGED <<acceptor, accepts, waits, tcp_connections, errors, stranded, fault>>

\* A client has connected.  The constructor of TcpConnection asks the socket for
\* its remote endpoint, which throws when the client is gone already.
HandleAcceptOk ==
  /\ fault = "none" /\ accepts["ok"] > 0
  /\ \/ /\ \E c \in Conns :
             /\ tcp_connections[c] = "new"
             /\ tcp_connections' = [tcp_connections EXCEPT ![c] = "open"]
        /\ accepts' = StartAccept(Handled(accepts, "ok"), acceptor)
        /\ UNCHANGED fault
     \/ /\ fault' = "thrown"
        /\ UNCHANGED <<accepts, tcp_connections>>
  /\ UNCHANGED <<close_flag, acceptor, waits, errors, stranded>>

HandleAcceptAborted ==
  /\ fault = "none" /\ accepts["aborted"] > 0
  /\ accepts' = Handled(accepts, "aborted")
  /\ UNCHANGED <<close_flag, acceptor, waits, tcp_connections, errors, stranded, fault>>

\* start() again, on a closed acceptor: it fails to open, or to bind or listen, and
\* the proxy stops, or it listens and arms the timer once more.
HandleAcceptErr ==
  /\ fault = "none" /\ accepts["err"] > 0
  /\ \/ /\ acceptor' \in {"closed", "open"}
        /\ close_flag' = TRUE
        /\ stranded' = (stranded \/ Ticking(waits) = 0)
        /\ accepts' = Aborted(Handled(accepts, "err"))
        /\ UNCHANGED waits
     \/ /\ acceptor' = "listening"
        /\ accepts' = AcceptsRestarted(Handled(accepts, "err"))
        /\ waits' = AsyncWait(waits)
        /\ UNCHANGED <<close_flag, stranded>>
  /\ UNCHANGED <<tcp_connections, errors, fault>>

HandleWaitAborted ==
  /\ fault = "none" /\ waits["aborted"] > 0
  /\ waits' = Handled(waits, "aborted")
  /\ UNCHANGED <<close_flag, acceptor, accepts, tcp_connections, errors, stranded, fault>>

\* The tick after stop(): close(), which ends the ticks.
HandleWaitClose ==
  /\ fault = "none" /\ waits["expired"] > 0 /\ close_flag
  /\ acceptor' = AcceptorClosed
  /\ accepts' = IF acceptor' = "closed" THEN Aborted(accepts) ELSE accepts
  /\ waits' = Aborted(Handled(waits, "expired"))
  /\ tcp_connections' = [c \in Conns |-> IF tcp_connections[c] = "open" THEN "closed"
                                         ELSE tcp_connections[c]]
  /\ UNCHANGED <<close_flag, errors, stranded, fault>>

\* The tick: unless the clock is not past the last flush, closed connections and
\* those that expire are erased.
HandleWaitTick(flush) ==
  /\ fault = "none" /\ waits["expired"] > 0 /\ ~close_flag
  /\ waits' = Rearmed(Handled(waits, "expired"), flush)
  /\ \E expired \in SUBSET {c \in Conns : tcp_connections[c] = "open"} :
       tcp_connections' =
         [c \in Conns |-> IF flush /\ (c \in expired \/ tcp_connections[c] = "closed")
                          THEN "erased" ELSE tcp_connections[c]]
  /\ UNCHANGED <<close_flag, acceptor, accepts, errors, stranded, fault>>

\* A handler of a connection closes it.
ConnectionCloses(c) ==
  /\ fault = "none" /\ tcp_connections[c] = "open"
  /\ tcp_connections' = [tcp_connections EXCEPT ![c] = "closed"]
  /\ UNCHANGED <<close_flag, acceptor, accepts, waits, errors, stranded, fault>>

\* No tick and no handler is left, or the process has ended.
Terminated ==
  /\ \/ fault # "none"
     \/ Ticking(waits) = 0 /\ accepts["ok"] = 0 /\ accepts["err"] = 0
  /\ UNCHANGED proxyVars

HandleWait == HandleWaitClose \/ \E flush \in BOOLEAN : HandleWaitTick(flush)

Next ==
  \/ \E r \in {"ok", "err"} : AcceptDone(r)
  \/ WaitExpires \/ Stop
  \/ HandleAcceptOk \/ HandleAcceptErr \/ HandleAcceptAborted
  \/ HandleWait \/ HandleWaitAborted
  \/ \E c \in Conns : ConnectionCloses(c)
  \/ Terminated

Spec == Init /\ [][Next]_proxyVars
-----------------------------------------------------------------------------
Outstanding == accepts["pending"] + accepts["ok"] + accepts["err"]

\* Type correctness; the timer has one wait pending at most.
TypeOK ==
  /\ close_flag \in BOOLEAN
  /\ acceptor \in {"closed", "open", "listening"}
  /\ accepts \in [AcceptStates -> Nat]
  /\ waits \in [WaitStates -> Nat] /\ waits["pending"] <= 1
  /\ tcp_connections \in [Conns -> {"new", "open", "closed", "erased"}]
  /\ errors \in 0..MaxErrors
  /\ stranded \in BOOLEAN
  /\ fault \in {"none", "thrown"}

\* handleWait, start(): until stop(), a tick is always on its way, although each
\* tick, and each restart of the acceptor in between, cancels the wait that is
\* pending; a proxy without ticks forwards nothing that is delayed and
\* times out nothing.
TicksGoOn == ~close_flag => Ticking(waits) >= 1

\* handleAccept, start(), close(): until stop(), exactly one accept is outstanding or
\* waits for its handler, through every failure and restart: none would be a
\* rule that is dead silently, two would share accept_socket.
OneAccept ==
  /\ Outstanding <= 1
  /\ ~close_flag => Outstanding = 1
  /\ accepts["pending"] > 0 => acceptor = "listening"
=============================================================================
