------------------------------ MODULE ProxyServer ------------------------------
(***************************************************************************)
(* The life of the program: args.init, daemonize and guardian before it    *)
(* (ServerArgsBase.cpp, xdaemon.h), main with its ProxyServer              *)
(* (faraway_proxy.cpp), SharedData and io_service_pool, composed with the  *)
(* TcpProxy of one rule, whose handlers run on the threads of the pool.    *)
(*                                                                         *)
(* There is one server at a time: the process itself, or the child of the  *)
(* guardian.  Its threads are main (main_at), those of the pool (pool),    *)
(* and the routine threads of UdpProxyServer and IPProxies, of which only  *)
(* the life is kept.  It dies when main returns, when an exception leaves  *)
(* an io_service thread, or on a SIGTERM that has no handler.              *)
(***************************************************************************)
EXTENDS TcpProxy

CONSTANTS ChildExits,    \* times_left of guardian(): 10
          MaxTerms       \* bound: SIGTERM signals

ASSUME ServerAssumption == ChildExits \in Nat \ {0} /\ MaxTerms \in Nat

VARIABLES
  daemon_flag, guardian_flag,    \* the options
  handler,                       \* SIGTERM runs terminate()
  guardian_at, now_child_cnt, times_left,
  global_running_flag,           \* "NULL" until guardian() maps it
  main_at, running_flag,
  pool,                          \* step of io_service_pool, or "NULL"
  routines,                      \* routine threads: "none", "running", "ended"
  late,                          \* the pool was stopped before the ticks had ended
  terms

supervisorVars == <<daemon_flag, guardian_flag, handler, guardian_at, now_child_cnt,
                    times_left, global_running_flag>>
serverVars == <<main_at, running_flag, pool, routines, late>>
vars == <<proxyVars, supervisorVars, serverVars, terms>>

Routines == {"udp", "ip"}
Dead     == {"none", "exited", "killed"}
Alive    == main_at \notin Dead

\* The guardian process runs.
Guarding == guardian_at \in {"test", "step"}

\* After stop() nothing is left to run on the io_service of the proxy.
Settled == Ticking(waits) = 0 /\ accepts["ok"] = 0 /\ accepts["err"] = 0
-----------------------------------------------------------------------------
(* Decisions.  The variants defined just before some of them are the slips *)
(* that the checks must notice.                                            *)

\* terminate(): the flag of the guardian, if there is one.
ToldNothing(flag) == flag
Told(flag) == IF flag = "NULL" THEN flag ELSE "false"

\* times_left when a child has ended.
LeftKept == times_left
LeftAfterChild == times_left - 1

\* wait() returns.
ChildPolled == TRUE
ChildEnded == ~Alive
-----------------------------------------------------------------------------
ServerInit ==
  /\ Init
  /\ daemon_flag \in BOOLEAN /\ guardian_flag \in BOOLEAN
  /\ handler = FALSE
  /\ guardian_at = "none" /\ now_child_cnt = 0 /\ times_left = ChildExits
  /\ global_running_flag = "NULL"
  /\ main_at = "args" /\ running_flag = TRUE
  /\ pool = "NULL"
  /\ routines = [r \in Routines |-> "none"]
  /\ late = FALSE
  /\ terms = 0

\* daemonize(): the handler is installed; a fork or setsid that fails ends the process.
Daemonize(next) ==
  /\ handler' = daemon_flag
  /\ main_at' = next \/ (daemon_flag /\ main_at' = "exited")

\* ServerArgsBase::init: --help, --version, or an error ends the process.
InitArgs ==
  /\ main_at = "args"
  /\ \/ main_at' = "exited" /\ UNCHANGED handler
     \/ Daemonize(IF guardian_flag THEN "guardian" ELSE "init")
  /\ UNCHANGED <<proxyVars, daemon_flag, guardian_flag, guardian_at, now_child_cnt,
                 times_left, global_running_flag, running_flag, pool, routines, late, terms>>

\* guardian() until its loop; the process is no server any more.
GuardianStarts ==
  /\ main_at = "guardian"
  /\ main_at' = "none"
  /\ guardian_at' = "test" /\ global_running_flag' = "true"
  /\ UNCHANGED <<proxyVars, daemon_flag, guardian_flag, handler, now_child_cnt, times_left,
                 running_flag, pool, routines, late, terms>>

\* while (*global_running_flag)
GuardianTests ==
  /\ guardian_at = "test"
  /\ guardian_at' = IF global_running_flag = "true" THEN "step" ELSE "exited"
  /\ UNCHANGED <<proxyVars, daemon_flag, guardian_flag, handler, now_child_cnt, times_left,
                 global_running_flag, serverVars, terms>>

\* The proxy of a server that is forked: Init of TcpProxy.
ProxyRenewed ==
  /\ close_flag' = FALSE /\ acceptor' = "listening"
  /\ accepts' = [s \in AcceptStates |-> IF s = "pending" THEN 1 ELSE 0]
  /\ waits' = [s \in WaitStates |-> IF s = "pending" THEN 1 ELSE 0]
  /\ tcp_connections' = [c \in Conns |-> "new"]
  /\ errors' = 0 /\ stranded' = FALSE /\ fault' = "none"

\* fork(): the child returns from guardian() with the memory of its parent, where
\* no server has run; -1 ends the guardian.
GuardianForks ==
  /\ guardian_at = "step" /\ now_child_cnt < 1
  /\ \/ /\ guardian_at' = "test" /\ now_child_cnt' = now_child_cnt + 1
        /\ main_at' = "init" /\ running_flag' = TRUE /\ pool' = "NULL"
        /\ routines' = [r \in Routines |-> "none"] /\ late' = FALSE
        /\ ProxyRenewed
     \/ /\ guardian_at' = "exited"
        /\ UNCHANGED <<proxyVars, now_child_cnt, serverVars>>
  /\ UNCHANGED <<daemon_flag, guardian_flag, handler, times_left, global_running_flag, terms>>

\* wait(): returns when the child has ended.
GuardianWaits ==
  /\ guardian_at = "step" /\ now_child_cnt >= 1 /\ ChildEnded
  /\ times_left' = LeftAfterChild
  /\ IF times_left' = 0
     THEN guardian_at' = "exited" /\ UNCHANGED now_child_cnt
     ELSE guardian_at' = "test" /\ now_child_cnt' = now_child_cnt - 1
  /\ UNCHANGED <<proxyVars, daemon_flag, guardian_flag, handler, global_running_flag,
                 serverVars, terms>>
-----------------------------------------------------------------------------
\* ProxyServer::ProxyServer, SharedData::init: the pool, the rule, which starts, and the
\* routine thread of IPProxies if there is a limit; main returns on an exception.
SdataInit ==
  /\ main_at = "init"
  /\ \/ /\ main_at' = "start" /\ pool' = "BEGIN"
        /\ \E limited \in BOOLEAN :
             routines' = [routines EXCEPT !["ip"] = IF limited THEN "running" ELSE "none"]
     \/ main_at' = "exited" /\ UNCHANGED <<pool, routines>>
  /\ UNCHANGED <<proxyVars, supervisorVars, running_flag, late, terms>>

\* run() and SharedData::start: a thread that cannot be made throws, and the
\* destructor of ProxyServer follows.  The step of the pool is START before its threads
\* are made, also when one of them fails.
SdataStart ==
  /\ main_at = "start"
  /\ \/ /\ main_at' = "stop" /\ running_flag' = FALSE
        /\ UNCHANGED <<pool, routines>>
     \/ /\ \/ main_at' = "enter" /\ running_flag' = TRUE
           \/ main_at' = "stop" /\ running_flag' = FALSE
        /\ pool' = "START"
        /\ routines' = [routines EXCEPT !["udp"] = "running"]
  /\ UNCHANGED <<proxyVars, supervisorVars, late, terms>>

\* exit_condition.wait: main is a waiter only from here on.
EnterWait ==
  /\ main_at = "enter" /\ main_at' = "wait"
  /\ UNCHANGED <<proxyVars, supervisorVars, running_flag, pool, routines, late, terms>>

\* The wait has no predicate: it may end by itself.
Spurious ==
  /\ main_at = "wait" /\ main_at' = "woken"
  /\ UNCHANGED <<proxyVars, supervisorVars, running_flag, pool, routines, late, terms>>

\* run() returns, and ~ProxyServer begins.
RunReturns ==
  /\ main_at \in {"woken", "told"} /\ main_at' = "stop" /\ running_flag' = FALSE
  /\ UNCHANGED <<proxyVars, supervisorVars, pool, routines, late, terms>>

\* SharedData::stop, as far as the TCP proxies.
StopProxies ==
  /\ main_at = "stop" /\ main_at' = "join"
  /\ close_flag' = TRUE
  /\ UNCHANGED <<acceptor, accepts, waits, tcp_connections, errors, stranded, fault,
                 supervisorVars, running_flag, pool, routines, late, terms>>

\* udp_proxy_server.stop(), ip_proxies.stop(): both join.
JoinRoutines ==
  /\ main_at = "join" /\ \A r \in Routines : routines[r] # "running"
  /\ main_at' = "sleep"
  /\ UNCHANGED <<proxyVars, supervisorVars, running_flag, pool, routines, late, terms>>

\* The 100 ms are over, and the pool is stopped if it was started.
StopPool ==
  /\ main_at = "sleep" /\ main_at' = "delete"
  /\ pool' = IF pool = "START" THEN "STOP" ELSE pool
  /\ late' = ~Settled
  /\ UNCHANGED <<proxyVars, supervisorVars, running_flag, routines, terms>>

\* The threads are joined, the pool is deleted, and main returns.
DeletePool ==
  /\ main_at = "delete"
  /\ main_at' = "exited" /\ pool' = "NULL"
  /\ UNCHANGED <<proxyVars, supervisorVars, running_flag, routines, late, terms>>

\* A routine thread finds running_flag false.
RoutineEnds(r) ==
  /\ Alive /\ routines[r] = "running" /\ ~running_flag
  /\ routines' = [routines EXCEPT ![r] = "ended"]
  /\ UNCHANGED <<proxyVars, supervisorVars, main_at, running_flag, pool, late, terms>>

\* An exception that leaves io_service::run ends the process.
Crash ==
  /\ Alive /\ fault # "none"
  /\ main_at' = "killed"
  /\ UNCHANGED <<proxyVars, supervisorVars, running_flag, pool, routines, late, terms>>
-----------------------------------------------------------------------------
\* SIGTERM for the server: terminate(), by whichever thread, or the end.
TermServer ==
  /\ Alive /\ terms < MaxTerms /\ terms' = terms + 1
  /\ \/ /\ handler
        /\ global_running_flag' = Told(global_running_flag)
        /\ main_at' = IF main_at = "wait" THEN "told" ELSE main_at
     \/ /\ ~handler
        /\ main_at' = "killed" /\ UNCHANGED global_running_flag
  /\ UNCHANGED <<proxyVars, daemon_flag, guardian_flag, handler, guardian_at, now_child_cnt,
                 times_left, running_flag, pool, routines, late>>

\* SIGTERM for the guardian: the same handler, in a process where nobody waits.
TermGuardian ==
  /\ Guarding /\ terms < MaxTerms /\ terms' = terms + 1
  /\ \/ /\ handler
        /\ global_running_flag' = Told(global_running_flag)
        /\ UNCHANGED guardian_at
     \/ /\ ~handler
        /\ guardian_at' = "killed" /\ UNCHANGED global_running_flag
  /\ UNCHANGED <<proxyVars, daemon_flag, guardian_flag, handler, now_child_cnt, times_left,
                 serverVars>>

\* What the kernel and the io_service do while threads of the pool run.
PoolRuns == Alive /\ pool = "START"

OnPool(step) == PoolRuns /\ step /\ UNCHANGED <<supervisorVars, serverVars, terms>>

ProxyStep ==
  \/ \E r \in {"ok", "err"} : OnPool(AcceptDone(r))
  \/ OnPool(WaitExpires)
  \/ OnPool(HandleAcceptOk) \/ OnPool(HandleAcceptErr) \/ OnPool(HandleAcceptAborted)
  \/ OnPool(HandleWait) \/ OnPool(HandleWaitAborted)
  \/ \E c \in Conns : OnPool(ConnectionCloses(c))

\* Everything has ended.
Over == ~Alive /\ ~Guarding /\ UNCHANGED vars

Guardian == GuardianTests \/ GuardianForks \/ GuardianWaits

Main == \/ InitArgs \/ GuardianStarts
        \/ SdataInit \/ SdataStart \/ EnterWait \/ RunReturns
        \/ StopProxies \/ JoinRoutines \/ StopPool \/ DeletePool

ServerNext ==
  \/ Main \/ Guardian \/ ProxyStep
  \/ Spurious \/ Crash \/ TermServer \/ TermGuardian
  \/ \E r \in Routines : RoutineEnds(r)
  \/ Over

ServerSpec == ServerInit /\ [][ServerNext]_vars
-----------------------------------------------------------------------------
\* Type correctness of the whole process.
ServerTypeOK ==
  /\ TypeOK
  /\ daemon_flag \in BOOLEAN /\ guardian_flag \in BOOLEAN /\ handler \in BOOLEAN
  /\ guardian_at \in {"none", "test", "step", "exited", "killed"}
  /\ now_child_cnt \in 0..1 /\ times_left \in 0..ChildExits
  /\ global_running_flag \in {"NULL", "true", "false"}
  /\ main_at \in {"args", "guardian", "init", "start", "enter", "wait", "woken", "told",
                  "stop", "join", "sleep", "delete"} \cup Dead
  /\ running_flag \in BOOLEAN
  /\ pool \in {"NULL", "BEGIN", "START", "STOP"}
  /\ routines \in [Routines -> {"none", "running", "ended"}]
  /\ late \in BOOLEAN
  /\ terms \in 0..MaxTerms

\* SharedData::stop: when the io_services are deleted no thread works for the proxy,
\* which still lists its sockets, and if the ticks were over in the 100 ms
\* that stop() gives them every connection has been closed, except after a
\* restart of the acceptor that failed.
ClosedBeforeDelete ==
  main_at = "delete" =>
    /\ pool # "START" /\ \A r \in Routines : routines[r] # "running"
    /\ ~late => \/ \A c \in Conns : tcp_connections[c] # "open"
                \/ stranded \/ fault # "none"

\* guardian(): a guardian that ends by itself, after a fork that failed or the last of
\* the exits it allows, leaves no server behind that nobody restarts, except
\* when it was told to stop before the server waited for the signal; and it
\* never comes to fork while a server of its own is alive.
NoOrphan ==
  /\ guardian_at = "exited" /\ Alive => global_running_flag = "false"
  /\ Guarding /\ now_child_cnt = 0 => ~Alive

\* The threads of the process run, and its timers expire.
FairServerSpec ==
  /\ ServerSpec
  /\ WF_vars(Main) /\ WF_vars(Guardian) /\ WF_vars(Crash)
  /\ \A r \in Routines : WF_vars(RoutineEnds(r))

\* main, guardian(): a server that has died is replaced by one that waits for clients,
\* unless the guardian is told to stop, is killed or has seen the last of
\* the exits that it allows.
Restarted ==
  Guarding /\ ~Alive ~> main_at = "wait" \/ ~Guarding \/ global_running_flag = "false"

\* terminate(): a signal that finds main waiting ends the server, whatever its routine
\* threads, the pool and further signals do, and the guardian with it, which does
\* not take the end of its child for one more crash.
TermEndsAll == main_at = "told" ~> ~Alive /\ ~Guarding
=============================================================================
