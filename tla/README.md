# A TLA+ model of TCP-UDP-Proxy

The program forwards TCP connections and UDP datagrams from local ports to
configured addresses, and can impose a bandwidth, a delay and, for UDP, a drop
rate. The code is small and sequential to read. What makes it hard is when its
handlers run: a handful of `io_service` threads, a 10 ms timer per TCP rule, one
routine thread for UDP and one for the per-IP limit all drive the same queues,
flags and balances.

Paths below are relative to `src/src/`.

## The system

| Component | State | Operations | Interacts with |
|---|---|---|---|
| `TcpConnection` (`tcp_proxy.cpp:11-195`) | `close_flag`, `full_open`, two message queues, two balances, `writing_flag`/`reading_flag` per socket, `active_time` | `start`, `stop`, `flushMsgs`, `handleConnect`, `handleRead`, `handleWrite` | its `TcpProxy` (clock, rule, list that owns it), `IPProxy` balance, two sockets |
| `TcpProxy` (`tcp_proxy.cpp:200-346`) | acceptor, timer, `now`, `last_flush_tm`, `close_flag`, list of connections | `start`, `stop` (main thread), `handleAccept`, `handleWait`, `close` | its connections; `SharedData` |
| `IPProxies` (`ip_proxy.cpp`) | table address -> balances and `ref_cnt`, two mutexes | `getIPProxy`, the routine thread, the destructors that decrement `ref_cnt` | TCP connections, UDP endpoints |
| `UdpProxyServer`, `UdpEndpointProxy` (`udp_proxy.cpp`) | table of endpoints, per endpoint two queues, two balances, `recving_flag`, `active_tm` | `handleRecv` (io threads), the routine thread, `stop`, `init` | `IPProxies`, `io_service_pool` |
| `io_service_pool` | `step`, threads, round robin index | `start`, `stop`, `join`, `get_io_service` | everything that owns a socket or a timer |
| `SharedData`, `ProxyServer` (`shared_data.cpp`, `faraway_proxy.cpp`) | the rules, `args.running_flag` | `init` (configuration), `start`, `stop`, `run` | all of the above |
| guardian, daemonize, terminate (`xdaemon.*`) | shared running flag, children, restarts left | fork/wait loop, the signal handler | `ProxyServer::run` |
| `xrecursive_mutex` (`xthread.*`) | recursion count, levels held by the thread | `lock`, `unlock`, `wait` | `ProxyServer::run` |
| command line and file of the process (`args.*`, `ServerArgsBase.*`) | the fields of `args` | `init`, `store` and `notify` | everything that reads `args` |
| helpers (`xttime.h`, `xrandom.cpp`, `watch.*`, `xtokens.h`, `xpath.h`, `trackerr.*`, ...) | the settings of the log, `TS_CHECKOUT` | functions | |

A TCP rule has one `TcpProxy`. All of its handlers, and those of its
connections, run on one `io_service`, which one thread runs: a handler is atomic
with respect to the others. What is concurrent is the kernel and the peers, which end
operations at any time; the order in which handlers of ended operations run; the
timer; the other users of a client address's balance; and `TcpProxy::stop()` on
the main thread.

### What is hard, and what makes each component correct

* **TcpConnection.** Two handlers and the timer start writes; two handlers start
  reads; a read is paused when its queue is full and started again by the write
  that drains it; a connection may be open, connecting, half open or closed with
  handlers still to come. Correct: every chunk is relayed once and in order, from
  bounded memory; no wake-up is lost; the rate holds; every connection ends.
* **TcpProxy.** Restart of the acceptor after an error, while the timer is
  armed; an accept that completes around `close()`. Correct: one chain of ticks
  until the close, and no connection that nothing will ever close.
* **IPProxies.** A counter updated under two different mutexes and entries
  erased by a third party. Correct: an entry lives as long as somebody points at it.
* **UDP.** A routine thread that creates, expires and stops the endpoints
  whose receive handlers run elsewhere. Correct: datagrams are forwarded to
  the right peer at most once and within the limits, one receive is outstanding
  per endpoint, and it is re-armed.
* **Life cycle.** Threads told to stop by a flag, a signal, and a sleep of 100 ms;
  a guardian that counts the deaths of its child. Correct: a termination request ends the
  process, which closes acceptor and connections before it deletes the `io_service`s they run on; a server that died is replaced,
  and there are never two.
* **Locks.** Levels checked against the top of a per-thread stack, recursion given up and taken
  again by a wait. Correct: the stack is what the thread holds, and no circle of waiting threads.
* **Functions.** A configuration file read by one stream with sticky errors, options from three
  sources, a polled wall clock, the ranges of random numbers. Correct: they agree with what is written
  without loops next to them.

`PROJECT.json` lists the hazards one by one, each at its line.

## Modules

| Module | What it is |
|---|---|
| `RelayPipe` | abstract: what a relayed connection promises its two peers, two bounded FIFO pipes that close together |
| `Throttle` | abstract: the token balance that the program builds three times (TCP, UDP, per IP), and its rate bound |
| `TcpConnection` | the connection, in full, with the tick, the close of its `TcpProxy` and the balance of its address |
| `TcpConnectionRate` | `TcpConnection` with two history variables, and its refinement of `Throttle` |
| `MCTcpConnection`, `MCTcpConnectionRate` | instances for TLC |
| `TcpProxy` | the acceptor, the timer that every tick arms again, `close()`, and the life of the connections |
| `ProxyServer` | the life of the program: options, `daemonize`, `guardian`, `main`, start and stop of `SharedData` and of the pool, signals and crashes, composed with a `TcpProxy` |
| `IPProxies` | the table of client addresses, `ref_cnt` under its two mutexes, the sweep that erases entries |
| `LossyFifo` | abstract: what the UDP relay promises, a channel per pair of peers that may lose but not repeat, reorder or invent |
| `UdpRelay` | the endpoints of the UDP relay, their receive handlers, the routine thread |
| `MCIPProxies`, `MCUdpRelay` | instances for TLC (`TcpProxy` and `ProxyServer` need none) |
| `XThread` | `xrecursive_mutex` and its condition variable |
| `RuleFile` | `SharedData::init`: the lines of `proxy.conf`, and the round robin of `get_io_service` |
| `Options` | where the value of an option comes from |
| `XTime`, `XRandom`, `XTokens`, `Watch` | `is_launchtime` and `interval_checker`; the draws and the drop decision; tokens, configuration lines and paths; the log |
| `MCHelpers` | one instance for TLC of `XThread` and of the functions |
| `ProxyServerProofs` | the inductive invariants of `TcpProxy` and of the whole process |
| `TcpConnectionProofs` | the inductive invariant of `TcpConnection`, the invariants that follow, and the proofs that it implements `RelayPipe` and each direction `Throttle` |
| `ThrottleProofs` | the proof of the rate bound |
| `IPProxiesProofs`, `UdpRelayProofs` | the inductive invariants of the table of addresses and of the UDP relay |
| `UdpRelayRefines` | the order of datagrams in `UdpRelay`, and the proof that it implements `LossyFifo` |
| `XThreadProofs` | the inductive invariant of `XThread`, and why no threads wait in a circle |
| `FunctionProofs` | what the functions of `Options`, `RuleFile`, `XTime`, `XRandom`, `XTokens` and `Watch` compute, for every input |

What composes what: `ProxyServer` extends `TcpProxy`, whose handlers it lets run while the pool does;
`TcpConnection` has the tick and the close of its `TcpProxy` and the balance of `IPProxies` as one connection sees
them; `UdpRelay` has that balance as a choice.

### `TcpConnection` and the code

The variables have the names of the members: `available_bytes` is
`available_bytes_pair`, and so on. `msg_queue[p]` holds what will be written to socket
`p`; socket 0 is the client's.

*Operations.* `connect_op`, `read_op[p]` and `write_op[p]` are the asynchronous
operations: `"none"`, `"pending"`, or ended with `"ok"`, `"err"` (a read also
`"eof"`) and waiting for the handler. `ConnectDone`, `ReadDone` and `WriteDone` are the
kernel's steps; one `Handle...` action is one handler from its first line to its
last, operations it starts included. `close()` cancels what is pending, but not what
has ended, so handlers of a closed connection still run, as they do in the program.
The handler of a cancelled operation returns at its first test and is left out. An
operation started on a closed socket ends with an error that is not
`operation_aborted`, as `boost::asio` reports a bad descriptor.

*A write* is one operation: a chunk of at most 4096 bytes that
`boost::asio::async_write` may send in pieces is written or fails as a whole.

*Time* is kept relative to `TcpProxy::now`: `idle = now - active_time`, a message's
`wait` is its due time minus `now`, `lag = last_flush_tm - now`. `HandleWait(d)`
is the tick that finds the clock moved by `d`, which is negative when the wall clock
was set back (the program uses `ftime`). It is followed by `flushMsgs` in the same
step unless `now <= last_flush_tm`. This makes time finite without bounding how long a
behaviour is: `idle` saturates at `MaxIdle`, waits at `-MaxLag`.

*Failures that the code does not handle* are outcomes: `fault = "thrown"` when the log
line of a failed write asks a closed or reset socket for its remote endpoint
(`tcp_proxy.cpp:91`; the exception leaves `io_service::run`), `fault = "dangling"` when
a handler that was queued before the tick erased the connection runs afterwards
(handlers are bound to a plain `this`, and the list is the only owner). Both end
the behaviour; the properties are about what happens before.

*The address balance* `avail_ip` is shared. `IpRoutine` is the credit of the limiter's
thread, `IpOther` a write of another connection of the same client.

### `TcpProxy` and the code

`accepts` and `waits` count the asynchronous operations by how far they are: pending in
the kernel, or ended and waiting for `handleAccept` or `handleWait`. Both are counts, since
a restart may leave handlers of an earlier operation queued. `acceptor.close()`, the
timer's `expires_from_now()` and its `cancel()` abort what is pending and leave alone what
has ended. `HandleAcceptErr` is the error branch of `handleAccept` with the `start()`
it calls: that fails before or after the acceptor is open, or succeeds and arms the timer again.
`Stop` is the main thread's. `tcp_connections[c]` is all that is kept of a connection: `ConnectionCloses`
is a `stop()` by one of its handlers, and a tick erases the closed ones and any
set of others (those that have timed out).

The error branch of `asyncWait` (`tcp_proxy.cpp:290`) is left out: `expires_from_now` never
sets its error code. `new_conn->start()` always returns true. An exception of the constructor of
`TcpConnection` (`:16`, a client that is gone) is `fault = "thrown"`.

`stranded` is a history variable: a `start()` has failed after `close()` had ended the ticks.
That needs an accept that completed before `close()`, whose handler then accepts on the
closed acceptor, fails, and starts the proxy again; if this fails too, nothing
closes the connection of that accept until the process ends.

### `IPProxies` and the code

A user (a `TcpConnection` or a `UdpEndpointProxy`) takes an entry in its constructor and gives it back
in its destructor, on the thread `io_service[u]`. `GetLoad` and `GetStore` are `getIPProxy` with
`++ref_cnt` taken apart, `PutLoad` and `PutStore` the destructor with `--ref_cnt` taken apart: the
first runs under `mtx` of the table, the second under that of the entry, so that each may see the
other half-way. What all its writers do under the same mutex is one step (`Spend`):
that the balance is checked and charged inside the same `scoped_lock` is read off the code (`tcp_proxy.cpp:119`, `udp_proxy.cpp:271`), not checked. The sweep is
`SweepBegin`, one `SweepEntry` per entry in any order (the map is ordered by address, and which address comes first
is no one's choice), and `SweepEnd`.

`lost[a]` is a history variable: an update of the entry's `ref_cnt` was overwritten. `dangling` ends the
behaviour: an entry was erased to which somebody points. An entry that nobody points at and whose counter
stays positive is never erased; `Forgotten` excepts it by `lost`.

### `UdpRelay` and the code

An endpoint is a socket that stands for a peer. The one of a rule's destination `d` is bound to the rule's port;
what a client `c` sends there is passed on by the endpoint of `c`, which is made when `c` is first heard of, and what `d`
answers to that one comes back by the endpoint of `d`. Hence the symmetry: what `y` sends to the socket of `x` goes to
`x` from the socket of `y`; `<<y, x>>` is a flow.

`ept[e]` is the `UdpEndpointProxy` of peer `e` with the names of its members (`active` is `active_tm # 0`, `idle` its age);
`endpoints` and `new_epts` are the keys of the two maps. A handler is one step under the endpoint's lock, but for the
`connection_refused` branch, which takes none and runs also while the routine holds it. The routine thread is taken
apart: `Wake`, then per endpoint `Erase` or `Enter`, `PassOn`/`PassOnToNew` per datagram, `Leave`; `NextLoop` inserts
the new endpoints; then `Enter`, `Send` or `SendFails`, `Leave` in the second loop. `cur` is the endpoint it has locked. Endpoints are
visited in any order (the map is ordered by address).

`init()` may fail to open or to bind; the constructor's, which runs without the lock, may also lose its receive to
an error handled before `active_tm` is set (third case of `PassOnToNew`). After a failed bind the socket is open without a port
(`"unbound"`): a receive on it is accepted and stays pending, nothing arrives there, and the first send gives it a port. The start of the process is assumed to have
bound the sockets of the rules.

Three outcomes end a behaviour: `"assert"`, a datagram from the peer that the endpoint stands for
(`udp_proxy.cpp:196`); `"dangling"`, a handler that was queued when its endpoint was destroyed; `"shared"`, two receives of one endpoint on
their way, which write to the same `recving_msg`. The last happens when `init()` after an error starts a receive while the
handler of the previous one is queued, or while `recving_flag` still says that it is paused; `OneReceive` shows
that there is no other way to it.

The clock only moves forward here (`TcpConnection` has the case of a clock set back), and a datagram is stamped with the time of
the pass before it. The credit of a client address is a choice at each datagram (`ip_limit`).

### `ProxyServer` and the code

`main_at` is where the main thread of the one server is: in `args.init`, about to become the guardian, in
`SharedData::init`, in `start`, between `start` and `exit_condition.wait` (`"enter"`), waiting, woken, and then at the steps of
`stop`. `"told"` is woken by the handler of SIGTERM, apart from `"woken"` (the wait has no predicate and may end by
itself). A notification before the wait is lost, as it is in the program: `TermServer` changes `main_at` only in
`"wait"`. `guardian_at` is the guardian in its loop, at the test of `*global_running_flag` or in its
body, which forks or waits. A child has the memory of its parent, in which no server
has run (`ProxyRenewed`).

`pool` is `step` of `io_service_pool`. The handlers of `TcpProxy` are steps while it is `"START"`, so they interleave with every
step of `main`, from the first moment of `start` to the end of the 100 ms sleep in `stop`. `SdataStart` may also end with
a `pool->start()` that throws when it cannot make one more thread: `step` is `START` by then and `main` goes on to `stop`. That the sleep may be too short is
`late`: something is left to run when the pool is stopped. A fault of a handler (an exception that leaves
`io_service::run`) kills the server (`Crash`), of which the guardian hears in `GuardianWaits`. Of the routine threads of UDP and of the
limiter only the life is kept: they end once `running_flag` is false, and `stop` joins them.

Left out: `wait()` interrupted or without a child, `mmap` that fails (the code compares with `NULL`, which it does not return), the
descriptors that `daemonize` closes. A `fork` that fails ends `daemonize` with its parent (`pid != 0`) and ends the guardian.

### `XThread` and the code

`Lock` enters `lock()`; `Acquire` is its end, for a mutex that is free or held already; `LockFails` is the exception of the wrong
order. `lock()` takes the boost mutex first and compares then, so a wrong order is noticed only when the mutex is free: a thread that asks in the wrong
order for a mutex that is held waits for it. `Wait` is `wait()` or `timed_wait()`: its `check()`, the extra unlocks, and the
unlock inside `cond.wait`; `Relock` is the way back. Locks are taken by `scoped_lock` only, hence in nested scopes.

### The functions

`RuleFile!InitRules` is the loop of `SharedData::init` as a fold over the lines, with the state of the one `istringstream` that reads
them all; `RulesAsListed` says what the file means, line by line. An `"ip"` line that is refused has changed a limit already, which the
statement leaves open. `Options!InitFields` is the order of `store` and `notify`.
`XTime` applies one call after the other to a clock that may jump. A second poll in the millisecond of a launch
launches again, because `is_launchtime` takes it for a clock that was set back: hence `Forward` in `LaunchesSpaced`.
`XRandom` has the draws as functions of what `rand()` gives; `bool_T_F(0)` may be true, when `rand()` gives 0.
`XTokens` and `Watch` keep strings as sequences of characters and log lines as records without their wording. `reset()` of the log makes the path of its directory absolute
(`SystemComplete`, a parameter of `Watch`), `reset_logpath` takes the path as it is.

Much of this is the program's own library rather than the relay: of the draws it uses `int32_range` alone, for the drop decision;
it calls neither `is_launchtime` nor `interval_checker`, nor the functions on tokens and paths. Of `XThread` it has one mutex,
`exit_mtx`, without a level, so that the checks of levels are never put to the test there. These models say what the library promises to code that
would use more of it. The hazards rest on what is in use only: the recursion given up by `wait` and the range of `int32_range`.

### Mutated definitions

The small operators at the top of a module (`QueueFull`, `MayWrite`, `WritingAfter`, ...) are the
decisions of the handlers; the one defined just before each is the slip that the
checks are tested against (a missing guard, an off-by-one, a forgotten reset).

## What is checked

| Run | Specification | Properties | What it shows |
|---|---|---|---|
| `tcp_safety` | `Spec` | `TypeOK`, `WriteInFlight`, `QueueBound`, `Backpressure`, `HalfOpenHasData`, `ClosedIsQuiet`, `DebtBound`, `RelaysInOrder` | about 2.4 million states: safety under every interleaving, error, clock set back and shutdown, with a client address limited in one direction |
| `tcp_released` | `FairSpec` | `Released` | peers that have fallen silent cannot hold a connection for ever, whatever state it is in |
| `tcp_forwarded` | `FairPeersSpec` | `Forwarded`, `ReaderResumes` | delay, bandwidth, pauses and the tick lose no wake-up |
| `tcp_rate` | `RateSpec` | `RateBounded`, `TcpThrottled` | each direction is a `Throttle`, with a clock that jumps and is set back |
| `process` | `FairServerSpec` | `ServerTypeOK`, `TicksGoOn`, `OneAccept`, `ClosedBeforeDelete`, `NoOrphan`, `Restarted`, `TermEndsAll` | about 610 thousand states: one accept and one chain of ticks through failures and restarts; a shutdown has ended the threads, and unless a tick is late or a restart has failed closed the connections, before it deletes the `io_service`s; the guardian replaces servers that died, never has two and leaves none alone |
| `ip_proxies` | `FairSpec` | `TypeOK`, `EntryInUse`, `DebtBound`, `Forgotten` | about 790 thousand states: what the sweep does is right as long as no update of a counter is lost; an unused entry is erased |
| `udp_relay` | `Spec` | `TypeOK`, `OneReceive`, `QueueBound`, `ServersStay`, `ForwardsInOrder` | about 750 thousand states: receives, queues and endpoints under drops, errors, an address limit and shutdown |
| `udp_progress` | `FairSpec` | `Resumes`, `ClientsExpire` | two clients, delay and bandwidth: pauses end, silent clients are forgotten |
| `helpers` | `HelpersSpec` | `TypeOK`, `CountsAgree`, `StackIsHeld`, `NoCircle`, `FileGivesRules`, `CommandLineWins`, `IntervalsKept`, `DrawsRight`, `TextRoundTrip` | about 530 thousand states: three threads with four mutexes, and every function on every small input |
| `tcp_eof` | `Spec` | `EofDrains` | violated: see the findings |
| `ip_refs` | `Spec` | `EntriesSafe` | violated: see the findings |
| `udp_burst` | `Spec` | `NoDropAtZero` | violated: see the findings |

The properties of `TcpProxy` are checked in `process`, where its handlers are interleaved with the start and the stop of the
process, rather than alone. `ClosedBeforeDelete` and `NoOrphan` name the cases in which the code does not do better: a late tick, a
failed restart of the acceptor after `close()`, a guardian that was told to stop before its server waits for the signal. `ClosedBeforeDelete` is about threads and connections.
The sockets and timers of a `TcpProxy` and of the UDP relay still refer to the deleted `io_service`s when they are destroyed
themselves, at the exit of the process; the model does not look at those references.

`RelaysInOrder` is the specification of `RelayPipe` under a refinement mapping. A
chunk leaves the pipe when the kernel has taken it (`WriteDone`), not when
`handleWrite` pops it: between the two the chunk is still at the front of the
queue, and `InTransit` drops it. `ForwardsInOrder` is `LossyFifo` with the channel of a flow
read off the two queues and the buffer it passes through. `TcpThrottled` maps a write that starts in a tick to
a credit followed by a charge in one abstract step.

### Bounds

* `MaxChunks` (2 or 3 reads per socket): with the queue limit of 1 the third chunk meets
  a full queue with a reader paused, the next write in flight and the reader
  started again, after which the state repeats.
* `Sizes = {20}`, overhead 10, bandwidth 2500 B/s and ticks of 10 ms (credit 25): a
  packet of 30 takes two credits, so that a balance is seen in debt, still in debt
  after a credit, and above zero. `tcp_rate` has 2550 B/s, where the division
  rounds down.
* `Steps`: -10 and 10 ms, in `tcp_rate` also 20. `MaxLag = 10` is how far the clock is
  behind the last flush at most; a larger setback repeats the same tick that does
  nothing.
* `MaxIdle` is above `tcp_timeout` where the timeout is wanted (`tcp_safety`,
  `tcp_released`). In `tcp_rate` and `tcp_forwarded` it is below it: there the timeout
  never fires, as in the program with its 10 minutes, and the shared conclusion
  does not rest on it.
* `MaxElapsed = 40` ms of history in `tcp_rate`: four ticks, against one packet
  per two ticks.

* `process`: two clients and `MaxErrors = 1` failed accept on an open acceptor per server, so that a client comes before and
  after a restart; failures of accepts on a closed acceptor are not bounded. `ChildExits = 2` (the program allows 10): a child that is replaced
  and one that is the last. `MaxTerms = 2`: one signal for the guardian and one for the server, in either order,
  or two for one of them.
* `ip_proxies`: two users on two threads and two addresses, so that the sweep meets an entry in use, one unused
  and one whose user changes; users come again without bound. `MaxDrift = 1` stops new users of an address whose counter
  is off by more than one, where the same repeats. `ip_refs` has three users of one address.
  Bandwidth 2500 B/s, packets of 30 and sweeps of 10 ms credit 25, as above; one direction
  is limited.

* `udp_relay`: one client and the destination, which also sends once to the rule's own port; queue limit 1, one
  error. Two datagrams of a client fill the queue of the server endpoint and pause it. `udp_progress`: two clients, whose datagrams
  together pause the server, and two answers, which pause the client's endpoint while its balance is in debt
  (packet 30, credit 25 per pass); `udp_timeout` 10 of at most 20 counted, so that an endpoint lives through one silent pass and
  is erased in the second.

* `helpers`: three threads, so that a circle may have more than two; four mutexes, of levels 1, 2 and 2 and one without a level, two at a time and two
  deep, so that every outcome of `lock`, `unlock` and `check` is met in every order. Files of at most three of 15 lines, among them every kind of
  refused line before and after one that is accepted. All command lines and files of three options. Clocks of four polls that jump in both directions.
  `RandMax = 7`, with ranges that fit and that do not. Three log calls, two tokens of two characters, paths of three.

`CHECK_DEADLOCK` is on but in `helpers`: a connection that is gone, or a process that has ended,
stutters explicitly (`Terminated`, `Over`), and nothing else may stop. In `helpers` threads may wait for each other for ever: the levels exclude it only for
threads that the check allows (`NoCircle`), and a mutex without a level, or an order that is wrong while the mutex is held, is not checked.

### Fairness

`SchedulerFairness`: an `io_service` thread runs every handler of an ended operation
after a finite time, and the timer, which every tick arms again before anything else
(`tcp_proxy.cpp:311`), keeps ticking. Nothing is assumed of the kernel or the peers in
`tcp_released`: a connect, read or write may stay pending for ever. `tcp_forwarded` adds
`PeersRead`: a peer that stays connected keeps taking what it is sent, without which
nothing can be forwarded. Neither of the two has an IP limit: with one, other
connections of the same client may take every credit first, and the code gives no
connection its share.

`process` assumes that `main`, the guardian and the routine threads go on with what they do next, and that an exception that
left a handler ends the process; not that a client comes, that a signal arrives, or that any handler of the proxy runs, which the shutdown does not
wait for (`stop` sleeps instead). `TermEndsAll` thus rests on no more than that threads are scheduled. `ip_proxies` assumes that a thread finishes
the `++` or `--` it has begun, and that the limiter's thread runs; it takes the mutex of the table, for which
it competes with `getIPProxy`, so its lock is strongly fair: it is granted if free
again and again (boost's mutex leaves that to the scheduler, which does not starve a thread for ever).

`udp_progress` assumes that the routine thread goes on and that queued handlers are run; not that peers
send, or that a receive ends. It has no address limit, for the reason given above.

### Findings

* `tcp_eof` - `handleRead` at the end of a stream looks only at the queue that the
  stream feeds (`tcp_proxy.cpp:175`). If that is empty it closes both sockets, even when
  chunks read from the other side are still waiting for the peer that ended
  its sending side. A client that half-closes after its request loses the
  answer. `README.md:28` says the connections are forwarded to and from the
  remote address.
* `ip_refs` - `~TcpConnection` decrements `ref_cnt` under the entry's mutex (`tcp_proxy.cpp:31`),
  `getIPProxy` increments it under the table's (`ip_proxy.cpp:38`). A second connection of a client,
  created while the first one is destroyed on another thread, may lose its increment; the sweep then
  erases the entry that it will lock and charge. The comment at `tcp_proxy.h:71` explains the absence of locks by
  the single `io_service` of a `TcpProxy`; entries of addresses are shared by all of them.
* `udp_burst` - the routine looks for the sender of a datagram in `endpoints` only (`udp_proxy.cpp:214`). A second datagram
  of the same new client in one pass makes a second endpoint, which replaces the first in `new_epts` with the datagram it
  holds (`:224`): of a burst only the last is forwarded. `common.h:43` says that a `drop_prob` of 0 is no drop.

### Observations

What the models show and no text of the repository denies: the due time of a chunk is `active_time + delay_ms`
(`tcp_proxy.cpp:187`), and `active_time` stands still once one side has ended, so that later chunks are delayed less; handlers bound to a plain
`this` may run after the erase, in TCP and in UDP (`"dangling"`); a destination that sends to the port of its own rule meets an assertion
(`udp_proxy.cpp:196`); the log line of a failed write, and the constructor of a connection, may throw and end the process; a SIGTERM before the wait of
`ProxyServer::run` does not end the server; a wrong order of locks is noticed only when the mutex is free.

## What is proved

All for every value of the constants that satisfies the assumption of the module that declares them; the runs evaluate each of them.

`TcpConnection`, with `ConstantsAssumption` (naturals; `delay_ms + MaxLag <= MaxIdle`, so that the
saturation of the model's clock cannot be seen in a due time):

* `TcpConnectionProofs!Inductive`: `Spec => []IInv`, with `TypeCorrect`,
  `AssertionHolds`, `QueueBounded`, `BackpressureHolds`, `HalfOpenDrains` and
  `ClosedStaysQuiet` as corollaries; `DebtStaysBounded`: `Spec => []DebtBound`. These are all the invariants of `tcp_safety`.
* `TcpConnectionProofs!ImplementsRelayPipe`: `Spec => RelaysInOrder`.
* `TcpConnectionProofs!ImplementsThrottle` and `ConnectionRateHolds`: with `max_bandwidth > 0`, `RateSpec => TcpThrottled` and
  `RateSpec => []RateBounded`. `RateAssumption` adds that chunks have a largest size, which the buffer of a read gives them.
* `ThrottleProofs!RateHolds`: `ThrottleSpec => []RateBound`, on which the previous one rests.

`TcpProxy` and `ProxyServer`, for every set of clients, number of failed accepts, allowed exits and signals:

* `ProxyServerProofs!ProxyTypes`, `ProxyTicks` and `ProxyAccepts`, for the proxy alone;
* `ProxyServerProofs!ServerInductive`: `ServerSpec => []ServerInv`, with `ServerTypesHold`, `ServerTicks`, `ServerAccepts`, `GuardianKeeps`
  (`NoOrphan`) and `StopCloses` (`ClosedBeforeDelete`): all the invariants of `process`.

`IPProxies`, for every set of users, threads, addresses and limits: `IPProxiesProofs!IpInductive`, `IpTypes`, `EntriesStay` (`EntryInUse`) and `DebtIsBounded`.

`UdpRelay`, for every set of peers and rules, every limit and number of datagrams and errors: `UdpRelayProofs!UdpInductive`, `UdpTypes`, `OneReceiveHolds`,
`QueuesBounded` and `ServersRemain`; `UdpRelayRefines!FlowsInOrder` and `ForwardsHold`: `Spec => ForwardsInOrder`, the refinement of `LossyFifo`. `NothingAssumption` says that
`None` and `Gone` are no datagram and no endpoint.

`XThread`, for every finite set of threads and every set of mutexes and levels: `XThreadProofs!LocksInductive`, `LockTypes`, `CountsMatch`, `StackMatches`, `RelockAlways` (the lock
inside a wait never fails), `ChainsClimb` (the levels rise along a chain of waiting threads) and `NoDeadlock`: `Spec => []NoCircle`. A process has finitely many threads;
infinitely many could wait for one another without a circle that ends.

The functions beside the relay (`FunctionProofs`), for every input, of any size:

* `CommandLineAlwaysWins` (`CommandLineWins`), for every set of options, command line and configuration files.
* `RulesAreListed`, for every file of lines with any protocols and fields; from it `FilesGiveRules`: `HelpersSpec => []FileGivesRules`. `RuleFileAssumption`: the pool has a service.
* `LaunchesKept` and `UpdatesKept`, for every sequence of clock values, every interval that is not negative and every start; from them `IntervalsAreKept`: `HelpersSpec => []IntervalsKept`.
* `RangeIsCovered`, `ChancesAreKept`, `DropSharesAreKept`, `AllAssignedOnce` and `AllArrangedOnce`, for every `RAND_MAX`, range, chance, size and sequence of draws; from them `DrawsAreRight`: `HelpersSpec => []DrawsRight`.
* `AllReadBack`, for every leader and tokens over any characters (`TokensAssumption`: a blank is not "="), `AllPathsSettle` for every name and work directory, `AllLoggedAsSet` for every sequence
  of calls of the log; from them `TextsRoundTrip`: `HelpersSpec => []TextRoundTrip`.

With these, every invariant that a passing run checks is a theorem.

*The inductive invariant of `TcpConnection`.* None of its invariants is inductive alone. `QueueBound` needs
`Backpressure` (a read that ends found room in its queue), `Backpressure` needs
`WriteInFlight` (the write whose handler starts the reader again popped a
message) and `ClosedIsQuiet` (after `stop()` a paused reader stays paused).
`HalfOpenHasData` needs all of them. `IInv` adds two facts no run is about:
`ConnectingIsIdle`, nothing is read or queued before the connect has been handled (so that the
first two reads are the only ones), and `ReadsBounded`, the bound on chunks of the model.

*The proof* has one lemma per action, each with the types first, then the conjuncts
that the action can disturb. `StartWritesEffect`, `StopEffect` and `TickTypes` state
once what the shared parts do.

*The refinement.* `ReadAccepts` and `WriteDelivers` map the two actions that move the pipe;
`PopIsQuiet` and `TickIsQuiet` show that the handler's pop and the ageing of messages do not
change what is in transit, and the remaining actions only close the pipe or leave it alone.

*TcpThrottled.* `ChargedFrom(b, p)` says that a step charges balance `b` for the write that it starts on socket `p`, if it starts one. Every handler
satisfies it with the balance it finds, and a tick with that balance or the repaid one. That a started write is
seen in `write_op` rests on `WriteInFlight`: the tick tries only sockets without a write.

*Throttle.* `Covered` strengthens the bound: what was sent plus what may be sent is worth
the elapsed time. It needs the floor division to round down (`CreditRoundsDown`) and
the intervals not to be negative, which is what the guard `now <= last_flush_tm`
provides.

*The process.* `ServerInv` says of the proxy that its invariant holds whatever `main` does, and that after `stop()` a proxy with something open still
ticks or has a failed accept ahead of it that restarts it (`ClosesInTheEnd`): that is why nothing is open when the ticks are over. Of the guardian: a server is alive only while the guardian counts it,
and a guardian has some of its exits left. A fork starts the proxy anew, so its invariant is reached again by `Init`.

*IPProxies.* `IpInv` ties the counter to the users (`Exact`: as long as no update was lost, `ref_cnt` is the number of those that point at the
entry), the half-done updates to their threads and mutexes (`Working`), and what the sweep has found unused to the mutex of the
table, which it holds until the erase (`Deleting`).

*UdpRelay.* One number carries `UdpInv`: the receives of an endpoint, the restart that is owed to a server after a failed `init()`, and its datagrams over the limit are
one together, plus one for each error of a server's endpoint (`Sound`). `Open` says of the sockets that a receive or an `init()` fails after an error or at the end only. `OneReceive` and `QueueBound` are both read off it, and neither is inductive without the other, since a pause
trades a receive for a datagram over the limit.

*LossyFifo.* The abstract state is what was received of a flow, what was delivered, and what is on its way, which is computed from the queues. That the head of a queue
is never behind something already delivered does not follow from the state of one endpoint: `FlowsOk` follows a flow over both of its endpoints. The numbers climb
along `send_queue` of the one and along `recv_queue` of the other (`Climbs`); what was delivered is older than what is in the first, that is older than what is in the second,
and that is older than what is in `recving_msg` (`Ordered`); and `recving_msg` is filled only while its handler is still to come (`MsgInUse`), so that a second receive does not overwrite one.
Each action either shortens a line, loses some of it, or moves its head to the end of the next line, and for each of these one lemma says that the order stays.

*XThread.* `LockInv` adds to the counts that the leveled mutexes of a thread were taken in the order of their levels (`Orderly`) and that the one it waits with is above those it
keeps (`WaitIsTop`): `check()` asks for that, and it makes the lock on the way back succeed. `NoDeadlock` takes, of the threads of a circle, one that waits for the highest level (`Highest`: a finite set that is not empty has one);
what it waits for is held by a thread of the circle, which waits in turn for a higher level.

*Chains.* What a loop of the code builds, and a polled function too, is a sequence of which each element is made of the one before it (`Chained`). `Recurs` shows that it exists and `Along` that what
holds at 0 and is handed on holds everywhere, both by the least place where it fails. A fold of the community modules is a function on sets of places, chosen by its defining equation: `FoldExists` gives
one that satisfies it, and `FoldIs` that its values along `1..n` are a chain. So `InitRules`, `Arrange`, `UniqueAssign` and `Written` each have one lemma that turns the fold into a chain (`LoopChains`, `ArrangeChains`, `AssignChains`,
`LogChains`), as `Flattened` does with the recursive function that joins tokens, and the argument about the code is an invariant of that chain.

*Polls.* Of `is_launchtime` the argument is that `TS_CHECKOUT` is never behind the clock and at most an interval ahead, so that on a clock that goes forward the branch for
a clock that was set back is not taken, and each launch moves it on by an interval.

*Rules.* `RulesAsListed` names a rule by its place among the lines like it, the loop by the length of the list it has built so far. `Places` says how both grow: a line that is like the others and comes after them
has the next place, and the places before stay. The stream with its sticky errors is cleared at every line (`TurnOfLoop`), so that a turn of the loop depends on its line and on what the lines before have added, and
`ServicesAreDealt` counts the turns of `get_io_service`.

*Draws.* The draws for which a chance comes true are an interval, and those that drop a datagram an interval and 10000, which `r % 10000` makes 0; of any two neighbours one is even (`Halves`). An exchange of two
elements maps the places of every value one to one (`ExchangeKeeps`), also if the two are the same place.

*Log.* The settings in force at a call are those of the last setter before it (`SettersNext`, `InForceNext`); what is written grows by the line of a call that is shown, in the next place (`WrittenNext`).

*Text.* `Pieces` says that a string is cut at given places into given words. `PiecesAreTokens` shows that the cut is unique and is what `SeparateTokens` finds, and `PieceAdded` that a separator and a word
behind a string add one piece. A line is read back by a walk along its tokens (`LineSeen`); the first of them holds the leader and the "=", and is cut in turn.

## Only model-checked

* Liveness under fairness, out of reach of the prover: `Released`, `Forwarded`, `ReaderResumes`, `Restarted`, `TermEndsAll`, `Forgotten`, `Resumes`, `ClientsExpire`.
  Of what they rest on, the safety part is proved: for `Released` the ticks (`ProxyTicks`), for `Restarted` and `TermEndsAll` the invariant of the process, for `Resumes` the one slot of a receive.
* The three violations of the findings, which are counterexamples.

## Not modelled

* The overflow of `interval * bandwidth` in 32 bits (`ip_proxy.cpp:66`): it takes a pause of minutes, and its result is undefined. The models have unbounded integers.
* `trackerr.*`: an exception class whose text is a stack trace (the StackWalker of Windows, `backtrace` of Linux). Nothing in the relay reads it; it is a quarter of the source.
* `interval_manager` of `xttime.h`, a template that nobody instantiates and whose `remove_checker` would not compile (`std::map` has no `remove`); the formatting and
  parsing of times; the seed of the random numbers.
* `type.*`, `xmisc.*`: conversions by `lexical_cast` and queries of the system, which no part of the relay calls. `xfstream.h`, `xassert.h` and `buffer.h`: wrappers whose effect is in the operators that use
  them. `common.cpp` defines a constant.
* The parsing of the command line (`boost::program_options`), and the wording of log lines.
* `getInfo`, which nothing calls, and the branches for Windows.
* `wait()` interrupted or without a child and a failing `mmap` in the guardian.
