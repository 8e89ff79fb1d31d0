--------------------------- MODULE ProxyServerProofs ---------------------------
(***************************************************************************)
(* The invariants of TcpProxy and of the whole process, for any number of  *)
(* clients, failed accepts, signals and allowed exits.  What is shown of   *)
(* the handlers of the proxy alone is used again for the process: there    *)
(* they run only while the pool does, and a fork begins anew.              *)
(***************************************************************************)
EXTENDS ProxyServer, TLAPS

-----------------------------------------------------------------------------
(* The proxy alone.                                                        *)

ProxyInv == TypeOK /\ TicksGoOn /\ OneAccept

\* What the operators on counts of operations return.
LEMMA Counts ==
  ASSUME NEW a \in [AcceptStates -> Nat], NEW w \in [WaitStates -> Nat]
  PROVE  /\ Aborted(a) \in [AcceptStates -> Nat]
         /\ Aborted(a)["pending"] = 0
         /\ Aborted(a)["ok"] = a["ok"] /\ Aborted(a)["err"] = a["err"]
         /\ Aborted(w) \in [WaitStates -> Nat]
         /\ Aborted(w)["pending"] = 0 /\ Aborted(w)["expired"] = w["expired"]
         /\ AsyncWait(w) \in [WaitStates -> Nat]
         /\ AsyncWait(w)["pending"] = 1 /\ AsyncWait(w)["expired"] = w["expired"]
<1>1. /\ Aborted(a) \in [AcceptStates -> Nat] /\ Aborted(a)["pending"] = 0
      /\ Aborted(a)["ok"] = a["ok"] /\ Aborted(a)["err"] = a["err"]
  <2>1. a["aborted"] + a["pending"] \in Nat
    BY DEF AcceptStates
  <2> QED BY <2>1 DEF Aborted, AcceptStates
<1>2. /\ Aborted(w) \in [WaitStates -> Nat]
      /\ Aborted(w)["pending"] = 0 /\ Aborted(w)["expired"] = w["expired"]
  <2>1. w["aborted"] + w["pending"] \in Nat
    BY DEF WaitStates
  <2> QED BY <2>1 DEF Aborted, WaitStates
<1>3. /\ AsyncWait(w) \in [WaitStates -> Nat]
      /\ AsyncWait(w)["pending"] = 1 /\ AsyncWait(w)["expired"] = w["expired"]
  BY <1>2 DEF AsyncWait, WaitStates
<1> QED BY <1>1, <1>2, <1>3

\* Taking one queued handler of accepts.
LEMMA Taken ==
  ASSUME NEW a \in [AcceptStates -> Nat], NEW s \in AcceptStates, a[s] > 0
  PROVE  /\ Handled(a, s) \in [AcceptStates -> Nat]
         /\ Handled(a, s)[s] = a[s] - 1
         /\ \A x \in AcceptStates \ {s} : Handled(a, s)[x] = a[x]
BY DEF Handled

\* The same of waits.
LEMMA TakenWait ==
  ASSUME NEW w \in [WaitStates -> Nat], NEW s \in WaitStates, w[s] > 0
  PROVE  /\ Handled(w, s) \in [WaitStates -> Nat]
         /\ Handled(w, s)[s] = w[s] - 1
         /\ \A x \in WaitStates \ {s} : Handled(w, s)[x] = w[x]
BY DEF Handled

\* startAccept adds one accept, which is pending only on a listening acceptor.
LEMMA StartAcceptAdds ==
  ASSUME NEW a \in [AcceptStates -> Nat], NEW acc
  PROVE  /\ StartAccept(a, acc) \in [AcceptStates -> Nat]
         /\ StartAccept(a, acc)["pending"] + StartAccept(a, acc)["ok"]
              + StartAccept(a, acc)["err"] = a["pending"] + a["ok"] + a["err"] + 1
         /\ StartAccept(a, acc)["pending"] > a["pending"] => acc = "listening"
<1>1. CASE acc = "listening"
  BY <1>1 DEF StartAccept, AcceptStates
<1>2. CASE acc # "listening"
  BY <1>2 DEF StartAccept, AcceptStates
<1> QED BY <1>1, <1>2

\* A proxy that has been started listens and will tick.
LEMMA ProxyInit == Init => ProxyInv
<1> SUFFICES ASSUME Init PROVE ProxyInv
  OBVIOUS
<1>1. accepts \in [AcceptStates -> Nat] /\ accepts["pending"] = 1
      /\ accepts["ok"] = 0 /\ accepts["err"] = 0
  BY DEF Init, AcceptStates
<1>2. waits \in [WaitStates -> Nat] /\ waits["pending"] = 1 /\ waits["expired"] = 0
  BY DEF Init, WaitStates
<1>3. TypeOK
  <2>1. close_flag = FALSE /\ acceptor = "listening" /\ errors = 0 /\ stranded = FALSE
        /\ fault = "none"
    BY DEF Init
  <2>2. tcp_connections \in [Conns -> {"new", "open", "closed", "erased"}]
    BY Zenon DEF Init
  <2>3. 0 \in 0..MaxErrors
    BY ProxyAssumption DEF ProxyAssumption
  <2>4. waits["pending"] <= 1
    BY <1>2
  <2> QED BY <1>1, <1>2, <2>1, <2>2, <2>3, <2>4, Zenon DEF TypeOK
<1>4. TicksGoOn /\ OneAccept
  BY <1>1, <1>2 DEF Init, TicksGoOn, OneAccept, Ticking, Outstanding
<1> QED BY <1>3, <1>4 DEF ProxyInv

\* The accept handlers: a client, an error.
LEMMA AcceptSteps ==
  ASSUME ProxyInv, HandleAcceptOk \/ HandleAcceptErr \/ HandleAcceptAborted
  PROVE  ProxyInv'
<1>1. accepts \in [AcceptStates -> Nat] /\ waits \in [WaitStates -> Nat]
      /\ waits["pending"] <= 1
  BY DEF ProxyInv, TypeOK
<1>2. {"pending", "ok", "err", "aborted"} = AcceptStates
  BY DEF AcceptStates
<1>3. CASE HandleAcceptOk
  <2>1. CASE UNCHANGED <<accepts, tcp_connections>> /\ fault' = "thrown"
    BY <1>3, <2>1 DEF HandleAcceptOk, ProxyInv, TypeOK, TicksGoOn, OneAccept, Ticking, Outstanding
  <2>2. CASE /\ accepts' = StartAccept(Handled(accepts, "ok"), acceptor)
             /\ UNCHANGED fault
             /\ \E c \in Conns : tcp_connections' = [tcp_connections EXCEPT ![c] = "open"]
    <3> DEFINE a == Handled(accepts, "ok")
    <3>1. accepts["ok"] > 0
      BY <1>3 DEF HandleAcceptOk
    <3>2. a \in [AcceptStates -> Nat] /\ a["ok"] = accepts["ok"] - 1
          /\ a["pending"] = accepts["pending"] /\ a["err"] = accepts["err"]
      BY <1>1, <1>2, <3>1, Taken
    <3> HIDE DEF a
    <3>3. accepts' = StartAccept(a, acceptor)
      BY <2>2 DEF a
    <3>4. accepts' \in [AcceptStates -> Nat] /\ Outstanding' = Outstanding
          /\ (accepts'["pending"] > a["pending"] => acceptor = "listening")
      BY <1>1, <1>2, <3>2, <3>3, StartAcceptAdds DEF Outstanding
    <3>5. TypeOK'
      BY <1>3, <2>2, <3>4 DEF HandleAcceptOk, ProxyInv, TypeOK
    <3>6. TicksGoOn' /\ OneAccept'
      BY <1>1, <1>2, <1>3, <3>2, <3>4
      DEF HandleAcceptOk, ProxyInv, TicksGoOn, OneAccept, Ticking
    <3> QED BY <3>5, <3>6 DEF ProxyInv
  <2> QED BY <1>3, <2>1, <2>2 DEF HandleAcceptOk
<1>4. CASE HandleAcceptErr
  <2> DEFINE a == Handled(accepts, "err")
  <2>1. accepts["err"] > 0
    BY <1>4 DEF HandleAcceptErr
  <2>2. a \in [AcceptStates -> Nat] /\ a["err"] = accepts["err"] - 1
        /\ a["pending"] = accepts["pending"] /\ a["ok"] = accepts["ok"]
    BY <1>1, <1>2, <2>1, Taken
  <2>3. accepts["pending"] = 0 /\ accepts["ok"] = 0 /\ accepts["err"] = 1
    BY <1>1, <1>2, <2>1 DEF ProxyInv, OneAccept, Outstanding
  <2> HIDE DEF a
  <2>4. Aborted(a) \in [AcceptStates -> Nat] /\ Aborted(a)["pending"] = 0
        /\ Aborted(a)["ok"] = 0 /\ Aborted(a)["err"] = 0
    BY <1>1, <2>2, <2>3, Counts
  <2>5. CASE /\ accepts' = Aborted(a) /\ close_flag' = TRUE /\ UNCHANGED waits
             /\ acceptor' \in {"closed", "open"} /\ stranded' = (stranded \/ Ticking(waits) = 0)
    <3>1. TypeOK'
      BY <1>1, <1>4, <2>4, <2>5 DEF HandleAcceptErr, ProxyInv, TypeOK
    <3>2. TicksGoOn' /\ OneAccept'
      BY <2>4, <2>5 DEF TicksGoOn, OneAccept, Outstanding
    <3> QED BY <3>1, <3>2 DEF ProxyInv
  <2>6. CASE /\ accepts' = StartAccept(Aborted(a), "listening") /\ waits' = AsyncWait(waits)
             /\ acceptor' = "listening" /\ UNCHANGED <<close_flag, stranded>>
    <3>1. accepts' \in [AcceptStates -> Nat] /\ Outstanding' = 1
      BY <2>4, <2>6, StartAcceptAdds DEF Outstanding
    <3>2. waits' \in [WaitStates -> Nat] /\ waits'["pending"] = 1
          /\ waits'["expired"] = waits["expired"] /\ waits["expired"] \in Nat
      BY <1>1, <2>6, Counts DEF WaitStates
    <3>3. TypeOK'
      BY <1>4, <2>6, <3>1, <3>2 DEF HandleAcceptErr, ProxyInv, TypeOK
    <3>4. TicksGoOn' /\ OneAccept'
      BY <2>6, <3>1, <3>2 DEF TicksGoOn, OneAccept, Ticking
    <3> QED BY <3>3, <3>4 DEF ProxyInv
  <2> QED BY <1>4, <2>5, <2>6 DEF HandleAcceptErr, AcceptsRestarted, a
<1>5. CASE HandleAcceptAborted
  <2>1. accepts' = Handled(accepts, "aborted") /\ accepts["aborted"] > 0
        /\ UNCHANGED <<close_flag, acceptor, waits, tcp_connections, errors, stranded, fault>>
    BY <1>5 DEF HandleAcceptAborted
  <2>2. accepts' \in [AcceptStates -> Nat] /\ accepts'["ok"] = accepts["ok"]
        /\ accepts'["pending"] = accepts["pending"] /\ accepts'["err"] = accepts["err"]
    BY <1>1, <1>2, <2>1, Taken
  <2> QED BY <2>1, <2>2 DEF ProxyInv, TypeOK, TicksGoOn, OneAccept, Ticking, Outstanding
<1> QED BY <1>3, <1>4, <1>5

\* The wait handlers: the tick, the close, an aborted wait.
LEMMA WaitSteps ==
  ASSUME ProxyInv, HandleWait \/ HandleWaitAborted PROVE ProxyInv'
<1>1. accepts \in [AcceptStates -> Nat] /\ waits \in [WaitStates -> Nat]
      /\ waits["pending"] <= 1 /\ waits["pending"] \in Nat /\ waits["expired"] \in Nat
  BY DEF ProxyInv, TypeOK, WaitStates
<1>2. WaitStates = {"pending", "expired", "aborted"}
  BY DEF WaitStates
<1>3. CASE HandleWaitAborted
  <2>1. waits' = Handled(waits, "aborted") /\ waits["aborted"] > 0
        /\ UNCHANGED <<close_flag, acceptor, accepts, tcp_connections, errors, stranded, fault>>
    BY <1>3 DEF HandleWaitAborted
  <2>2. waits' \in [WaitStates -> Nat] /\ waits'["pending"] = waits["pending"]
        /\ waits'["expired"] = waits["expired"]
    BY <1>1, <1>2, <2>1, TakenWait
  <2> QED BY <1>1, <2>1, <2>2
          DEF ProxyInv, TypeOK, TicksGoOn, OneAccept, Ticking, Outstanding
<1>4. ASSUME waits["expired"] > 0
      PROVE  /\ Handled(waits, "expired") \in [WaitStates -> Nat]
             /\ Handled(waits, "expired")["pending"] = waits["pending"]
             /\ Handled(waits, "expired")["expired"] \in Nat
  BY <1>1, <1>2, <1>4, TakenWait
<1>5. CASE HandleWaitClose
  <2>1. close_flag /\ close_flag' /\ acceptor' = "closed" /\ accepts' = Aborted(accepts)
        /\ waits' = Aborted(Handled(waits, "expired")) /\ waits["expired"] > 0
        /\ UNCHANGED <<errors, stranded, fault>>
    BY <1>5 DEF HandleWaitClose, AcceptorClosed
  <2>2. waits' \in [WaitStates -> Nat] /\ waits'["pending"] = 0
    BY <1>1, <1>4, <2>1, Counts
  <2>3. accepts' \in [AcceptStates -> Nat] /\ accepts'["pending"] = 0
        /\ accepts'["ok"] = accepts["ok"] /\ accepts'["err"] = accepts["err"]
    BY <1>1, <2>1, Counts
  <2>4. tcp_connections' \in [Conns -> {"new", "open", "closed", "erased"}]
    BY <1>5 DEF HandleWaitClose, ProxyInv, TypeOK
  <2>5. TypeOK'
    BY <2>1, <2>2, <2>3, <2>4 DEF ProxyInv, TypeOK
  <2>6. accepts["pending"] \in Nat /\ accepts["ok"] \in Nat /\ accepts["err"] \in Nat
    BY <1>1 DEF AcceptStates
  <2>7. TicksGoOn' /\ OneAccept'
    BY <2>1, <2>3, <2>6 DEF ProxyInv, TicksGoOn, OneAccept, Outstanding
  <2> QED BY <2>5, <2>7 DEF ProxyInv
<1>6. ASSUME NEW flush \in BOOLEAN, HandleWaitTick(flush) PROVE ProxyInv'
  <2>1. waits' = AsyncWait(Handled(waits, "expired")) /\ waits["expired"] > 0
        /\ UNCHANGED <<close_flag, acceptor, accepts, errors, stranded, fault>>
    BY <1>6 DEF HandleWaitTick, Rearmed
  <2>2. waits' \in [WaitStates -> Nat] /\ waits'["pending"] = 1 /\ waits'["expired"] \in Nat
    BY <1>1, <1>4, <2>1, Counts
  <2>3. tcp_connections' \in [Conns -> {"new", "open", "closed", "erased"}]
    BY <1>6 DEF HandleWaitTick, ProxyInv, TypeOK
  <2>4. TypeOK'
    BY <2>1, <2>2, <2>3 DEF ProxyInv, TypeOK
  <2>5. TicksGoOn' /\ OneAccept'
    BY <2>1, <2>2 DEF ProxyInv, TicksGoOn, OneAccept, Ticking, Outstanding
  <2> QED BY <2>4, <2>5 DEF ProxyInv
<1> QED BY <1>3, <1>5, <1>6 DEF HandleWait

\* Every step preserves the invariant.
LEMMA ProxyNext == ProxyInv /\ [Next]_proxyVars => ProxyInv'
<1> SUFFICES ASSUME ProxyInv, [Next]_proxyVars PROVE ProxyInv'
  OBVIOUS
<1>1. accepts \in [AcceptStates -> Nat] /\ waits \in [WaitStates -> Nat]
      /\ waits["pending"] <= 1
  BY DEF ProxyInv, TypeOK
<1>2. ASSUME NEW r \in {"ok", "err"}, AcceptDone(r) PROVE ProxyInv'
  <2>1. accepts' = Moved(accepts, "pending", r) /\ accepts["pending"] > 0
        /\ errors' \in 0..MaxErrors
        /\ UNCHANGED <<close_flag, acceptor, waits, tcp_connections, stranded, fault>>
    BY <1>2, ProxyAssumption DEF ProxyAssumption, AcceptDone, ProxyInv, TypeOK
  <2>2. accepts' \in [AcceptStates -> Nat] /\ Outstanding' = Outstanding
        /\ accepts'["pending"] = accepts["pending"] - 1
    BY <1>1, <2>1 DEF Moved, Outstanding, AcceptStates
  <2>3. accepts["pending"] \in Nat
    BY <1>1 DEF AcceptStates
  <2> QED BY <2>1, <2>2, <2>3 DEF ProxyInv, TypeOK, TicksGoOn, OneAccept, Ticking
<1>3. CASE WaitExpires
  <2>1. waits' = Moved(waits, "pending", "expired") /\ waits["pending"] > 0
        /\ UNCHANGED <<close_flag, acceptor, accepts, tcp_connections, errors, stranded, fault>>
    BY <1>3 DEF WaitExpires
  <2>2. waits' \in [WaitStates -> Nat] /\ Ticking(waits') = Ticking(waits)
        /\ waits'["pending"] <= 1
    BY <1>1, <2>1 DEF Moved, Ticking, WaitStates
  <2> QED BY <2>1, <2>2 DEF ProxyInv, TypeOK, TicksGoOn, OneAccept, Outstanding
<1>4. CASE Stop
  BY <1>4 DEF Stop, ProxyInv, TypeOK, TicksGoOn, OneAccept, Outstanding
<1>5. ASSUME NEW c \in Conns, ConnectionCloses(c) PROVE ProxyInv'
  BY <1>5 DEF ConnectionCloses, ProxyInv, TypeOK, TicksGoOn, OneAccept, Ticking, Outstanding
<1>6. CASE UNCHANGED proxyVars
  BY <1>6 DEF proxyVars, ProxyInv, TypeOK, TicksGoOn, OneAccept, Ticking, Outstanding
<1>7. CASE Terminated
  BY <1>6, <1>7 DEF Terminated
<1> QED BY <1>2, <1>3, <1>4, <1>5, <1>6, <1>7, AcceptSteps, WaitSteps DEF Next

\* Type correctness.
THEOREM ProxyTypes == Spec => []TypeOK
<1>1. ProxyInv => TypeOK
  BY DEF ProxyInv
<1> QED BY <1>1, ProxyInit, ProxyNext, PTL DEF Spec

\* Until stop() a tick is on its way, whatever fails and is started again.
THEOREM ProxyTicks == Spec => []TicksGoOn
<1>1. ProxyInv => TicksGoOn
  BY DEF ProxyInv
<1> QED BY <1>1, ProxyInit, ProxyNext, PTL DEF Spec

\* Until stop() exactly one accept is outstanding.
THEOREM ProxyAccepts == Spec => []OneAccept
<1>1. ProxyInv => OneAccept
  BY DEF ProxyInv
<1> QED BY <1>1, ProxyInit, ProxyNext, PTL DEF Spec

-----------------------------------------------------------------------------
(* The process.                                                            *)

\* After stop(), a proxy that still has something open will tick, or its acceptor fails
\* and starts it again.
ClosesInTheEnd ==
  /\ close_flag /\ fault = "none" /\ ~stranded
  /\ acceptor = "listening" \/ \E c \in Conns : tcp_connections[c] = "open"
  => Ticking(waits) > 0 \/ accepts["err"] > 0

\* The proxy, whatever the process does.
ProxySound == ProxyInv /\ ClosesInTheEnd

\* The supervisor counts what it has forked.
GuardianInv ==
  /\ guardian_at = "none" => now_child_cnt = 0
  /\ guardian_at # "none" =>
       global_running_flag # "NULL" /\ main_at \notin {"args", "guardian"}
  /\ guardian_at \in {"none", "test", "step"} => times_left >= 1

\* How far stop() has come.
StopInv ==
  /\ main_at \in {"join", "sleep", "delete"} => close_flag
  /\ main_at \in {"sleep", "delete"} => \A r \in Routines : routines[r] # "running"

ServerInv ==
  /\ ServerTypeOK /\ ProxySound /\ GuardianInv /\ NoOrphan /\ StopInv /\ ClosedBeforeDelete
-----------------------------------------------------------------------------
\* A proxy that starts is sound.
LEMMA SoundInit == Init => ProxySound
<1> SUFFICES ASSUME Init PROVE ProxySound
  OBVIOUS
<1>1. ClosesInTheEnd
  BY DEF Init, ClosesInTheEnd
<1> QED BY <1>1, ProxyInit DEF ProxySound

\* So is the one of a forked server.
LEMMA SoundRenewed == ASSUME ProxyRenewed PROVE ProxySound'
<1>1. Init'
  BY Zenon DEF ProxyRenewed, Init
<1> QED BY <1>1, SoundInit, PTL

\* Every handler leaves it sound.
LEMMA SoundStep == ASSUME ProxySound, Next PROVE ProxySound'
<1>1. ProxyInv'
  BY ProxyNext DEF ProxySound
<1> SUFFICES ClosesInTheEnd'
  BY <1>1 DEF ProxySound
<1>2. /\ accepts \in [AcceptStates -> Nat] /\ waits \in [WaitStates -> Nat]
      /\ accepts' \in [AcceptStates -> Nat] /\ waits' \in [WaitStates -> Nat]
  BY <1>1 DEF ProxySound, ProxyInv, TypeOK
<1>3. {"pending", "ok", "err", "aborted"} = AcceptStates /\ WaitStates = {"pending", "expired", "aborted"}
  BY DEF AcceptStates, WaitStates
<1>4. ASSUME NEW r \in {"ok", "err"}, AcceptDone(r) PROVE ClosesInTheEnd'
  BY <1>2, <1>3, <1>4 DEF AcceptDone, Moved, ProxySound, ClosesInTheEnd, Ticking
<1>5. CASE WaitExpires
  BY <1>2, <1>3, <1>5 DEF WaitExpires, Moved, ProxySound, ClosesInTheEnd, Ticking
<1>6. CASE Stop
  <2>1. waits["pending"] \in Nat /\ waits["expired"] \in Nat
    BY <1>2, <1>3
  <2>2. Ticking(waits) > 0 /\ waits' = waits
    BY <1>6, <2>1 DEF Stop, ProxySound, ProxyInv, TicksGoOn, Ticking
  <2> QED BY <2>2 DEF ClosesInTheEnd
<1>7. CASE HandleAcceptOk
  <2>1. CASE fault' = "thrown"
    BY <2>1 DEF ClosesInTheEnd
  <2>2. CASE accepts' = StartAccept(Handled(accepts, "ok"), acceptor) /\ UNCHANGED fault
    <3>1. /\ UNCHANGED <<close_flag, acceptor, waits, stranded>>
          /\ acceptor = "listening" => accepts'["err"] = accepts["err"]
          /\ acceptor # "listening" => accepts'["err"] = accepts["err"] + 1
      BY <1>2, <1>3, <1>7, <2>2 DEF HandleAcceptOk, StartAccept, Handled
    <3>2. accepts["err"] \in Nat
      BY <1>2, <1>3
    <3> QED BY <2>2, <3>1, <3>2 DEF ProxySound, ClosesInTheEnd, Ticking
  <2> QED BY <1>7, <2>1, <2>2 DEF HandleAcceptOk
<1>8. CASE HandleAcceptErr
  <2>1. CASE stranded' = (stranded \/ Ticking(waits) = 0) /\ UNCHANGED waits
    <3>1. waits["pending"] \in Nat /\ waits["expired"] \in Nat
      BY <1>2, <1>3
    <3>2. waits["pending"] + waits["expired"] # 0 => waits["pending"] + waits["expired"] > 0
      BY <3>1
    <3>3. ~stranded' => Ticking(waits) # 0
      BY <2>1
    <3> QED BY <2>1, <3>2, <3>3 DEF ClosesInTheEnd, Ticking
  <2>2. CASE waits' = AsyncWait(waits)
    <3>1. waits'["pending"] = 1 /\ waits'["expired"] \in Nat
      BY <1>2, <1>3, <2>2, Counts
    <3> QED BY <3>1 DEF ClosesInTheEnd, Ticking
  <2> QED BY <1>8, <2>1, <2>2 DEF HandleAcceptErr
<1>9. CASE HandleAcceptAborted
  BY <1>2, <1>3, <1>9 DEF HandleAcceptAborted, Handled, ProxySound, ClosesInTheEnd, Ticking
<1>10. CASE HandleWaitAborted
  BY <1>2, <1>3, <1>10 DEF HandleWaitAborted, Handled, ProxySound, ClosesInTheEnd, Ticking
<1>11. CASE HandleWaitClose
  <2>1. acceptor' = "closed" /\ \A c \in Conns : tcp_connections'[c] # "open"
    BY <1>11 DEF HandleWaitClose, AcceptorClosed
  <2> QED BY <2>1 DEF ClosesInTheEnd
<1>12. ASSUME NEW flush \in BOOLEAN, HandleWaitTick(flush) PROVE ClosesInTheEnd'
  BY <1>12 DEF HandleWaitTick, ClosesInTheEnd
<1>13. ASSUME NEW c \in Conns, ConnectionCloses(c) PROVE ClosesInTheEnd'
  <2>1. \A d \in Conns : tcp_connections'[d] = "open" => tcp_connections[d] = "open"
    BY <1>13 DEF ConnectionCloses, ProxySound, ProxyInv, TypeOK
  <2> QED BY <1>13, <2>1 DEF ConnectionCloses, ProxySound, ClosesInTheEnd, Ticking
<1>14. CASE Terminated
  BY <1>14 DEF Terminated, proxyVars, ProxySound, ClosesInTheEnd, Ticking
<1> QED
  BY <1>4, <1>5, <1>6, <1>7, <1>8, <1>9, <1>10, <1>11, <1>12, <1>13, <1>14 DEF Next, HandleWait

\* Nothing changes while no handler runs.
LEMMA SoundStays == ASSUME ProxySound, UNCHANGED proxyVars PROVE ProxySound'
<1>1. ProxyInv'
  BY ProxyNext DEF ProxySound
<1> QED BY <1>1 DEF proxyVars, ProxySound, ClosesInTheEnd, Ticking

\* stop() may find a proxy that has stopped itself.
LEMMA SoundStopped ==
  ASSUME ProxySound, close_flag' = TRUE,
         UNCHANGED <<acceptor, accepts, waits, tcp_connections, errors, stranded, fault>>
  PROVE  ProxySound'
<1>1. ProxyInv'
  BY DEF ProxySound, ProxyInv, TypeOK, TicksGoOn, OneAccept, Outstanding
<1>2. waits["pending"] \in Nat /\ waits["expired"] \in Nat /\ close_flag \in BOOLEAN
  BY DEF ProxySound, ProxyInv, TypeOK, WaitStates
<1>3. ~close_flag => Ticking(waits) > 0
  BY <1>2 DEF ProxySound, ProxyInv, TicksGoOn, Ticking
<1>4. CASE close_flag
  BY <1>1, <1>4 DEF ProxySound, ClosesInTheEnd, Ticking
<1>5. CASE ~close_flag
  BY <1>1, <1>3, <1>5 DEF ProxySound, ClosesInTheEnd, Ticking
<1> QED BY <1>4, <1>5

\* The handlers that the pool runs are steps of TcpProxy.
LEMMA PoolSteps ==
  ASSUME ProxyStep
  PROVE  Next /\ PoolRuns /\ UNCHANGED <<supervisorVars, serverVars, terms>>
BY DEF ProxyStep, OnPool, Next

\* The proxy stays sound through every step of the process.
LEMMA ServerSound ==
  ASSUME ServerInv, [ServerNext]_vars PROVE ProxySound'
<1> ProxySound
  BY DEF ServerInv
<1>1. CASE InitArgs
  BY <1>1, SoundStays DEF InitArgs, Daemonize
<1>2. CASE GuardianStarts
  BY <1>2, SoundStays DEF GuardianStarts
<1>3. CASE SdataInit
  BY <1>3, SoundStays DEF SdataInit
<1>4. CASE SdataStart
  BY <1>4, SoundStays DEF SdataStart
<1>5. CASE EnterWait
  BY <1>5, SoundStays DEF EnterWait
<1>6. CASE RunReturns
  BY <1>6, SoundStays DEF RunReturns
<1>7. CASE StopProxies
  BY <1>7, SoundStopped DEF StopProxies
<1>8. CASE JoinRoutines
  BY <1>8, SoundStays DEF JoinRoutines
<1>9. CASE StopPool
  BY <1>9, SoundStays DEF StopPool
<1>10. CASE DeletePool
  BY <1>10, SoundStays DEF DeletePool
<1>11. CASE GuardianTests
  BY <1>11, SoundStays DEF GuardianTests
<1>12. CASE GuardianForks
  BY <1>12, SoundRenewed, SoundStays DEF GuardianForks
<1>13. CASE GuardianWaits
  BY <1>13, SoundStays DEF GuardianWaits
<1>14. CASE Spurious
  BY <1>14, SoundStays DEF Spurious
<1>15. CASE Crash
  BY <1>15, SoundStays DEF Crash
<1>16. CASE TermServer
  BY <1>16, SoundStays DEF TermServer
<1>17. CASE TermGuardian
  BY <1>17, SoundStays DEF TermGuardian
<1>18. CASE \E r \in Routines : RoutineEnds(r)
  BY <1>18, SoundStays DEF RoutineEnds
<1>19. CASE ProxyStep
  BY <1>19, PoolSteps, SoundStep
<1>20. CASE UNCHANGED vars
  BY <1>20, SoundStays DEF vars
<1> QED
  BY <1>1, <1>2, <1>3, <1>4, <1>5, <1>6, <1>7, <1>8, <1>9, <1>10, <1>11,
     <1>12, <1>13, <1>14, <1>15, <1>16, <1>17, <1>18, <1>19, <1>20
  DEF ServerNext, Main, Guardian, Over

\* Every step keeps the types.
LEMMA ServerTypes ==
  ASSUME ServerInv, [ServerNext]_vars, ProxySound' PROVE ServerTypeOK'
<1> USE ServerAssumption DEF ServerInv, ServerTypeOK, ServerAssumption, Dead
<1> TypeOK'
  BY DEF ProxySound, ProxyInv
<1>1. CASE InitArgs
  BY <1>1 DEF InitArgs, Daemonize, supervisorVars, serverVars
<1>2. CASE GuardianStarts
  BY <1>2 DEF GuardianStarts, supervisorVars, serverVars
<1>3. CASE SdataInit
  BY <1>3 DEF SdataInit, supervisorVars, serverVars
<1>4. CASE SdataStart
  <2>1. /\ main_at' \in {"stop", "enter"} /\ running_flag' \in BOOLEAN
        /\ pool' \in {pool, "START"}
        /\ routines' = routines \/ routines' = [routines EXCEPT !["udp"] = "running"]
        /\ UNCHANGED <<proxyVars, supervisorVars, late, terms>>
    BY <1>4 DEF SdataStart
  <2> QED BY <2>1 DEF supervisorVars, serverVars
<1>5. CASE EnterWait
  BY <1>5 DEF EnterWait, supervisorVars, serverVars
<1>6. CASE RunReturns
  BY <1>6 DEF RunReturns, supervisorVars, serverVars
<1>7. CASE StopProxies
  BY <1>7 DEF StopProxies, supervisorVars, serverVars
<1>8. CASE JoinRoutines
  BY <1>8 DEF JoinRoutines, supervisorVars, serverVars
<1>9. CASE StopPool
  BY <1>9 DEF StopPool, supervisorVars, serverVars
<1>10. CASE DeletePool
  BY <1>10 DEF DeletePool, supervisorVars, serverVars
<1>11. CASE GuardianTests
  BY <1>11 DEF GuardianTests, supervisorVars, serverVars
<1>12. CASE GuardianForks
  <2>1. [r \in Routines |-> "none"] \in [Routines -> {"none", "running", "ended"}]
    OBVIOUS
  <2>3. routines' \in [Routines -> {"none", "running", "ended"}]
    BY <1>12, <2>1 DEF GuardianForks, serverVars
  <2>4. CASE guardian_at' = "exited"
    BY <1>12, <2>3, <2>4 DEF GuardianForks, serverVars
  <2>5. CASE guardian_at' # "exited"
    <3>1. now_child_cnt' \in 0..1
      BY <1>12, <2>5 DEF GuardianForks
    <3>2. /\ guardian_at' = "test" /\ main_at' = "init" /\ running_flag' = TRUE
          /\ pool' = "NULL" /\ late' = FALSE
          /\ UNCHANGED <<daemon_flag, guardian_flag, handler, times_left,
                         global_running_flag, terms>>
      BY <1>12, <2>5 DEF GuardianForks
    <3> QED BY <2>3, <3>1, <3>2
  <2> QED BY <2>4, <2>5
<1>13. CASE GuardianWaits
  BY <1>13 DEF GuardianWaits, LeftAfterChild, GuardianInv, serverVars
<1>14. CASE Spurious
  BY <1>14 DEF Spurious, supervisorVars, serverVars
<1>15. CASE Crash
  BY <1>15 DEF Crash, supervisorVars, serverVars
<1>16. CASE TermServer
  BY <1>16 DEF TermServer, Told, Alive
<1>17. CASE TermGuardian
  BY <1>17 DEF TermGuardian, Told, serverVars
<1>18. CASE \E r \in Routines : RoutineEnds(r)
  BY <1>18 DEF RoutineEnds, supervisorVars
<1>19. CASE ProxyStep
  BY <1>19, PoolSteps DEF supervisorVars, serverVars
<1>20. CASE UNCHANGED vars
  BY <1>20 DEF vars, supervisorVars, serverVars
<1> QED
  BY <1>1, <1>2, <1>3, <1>4, <1>5, <1>6, <1>7, <1>8, <1>9, <1>10, <1>11,
     <1>12, <1>13, <1>14, <1>15, <1>16, <1>17, <1>18, <1>19, <1>20
  DEF ServerNext, Main, Guardian, Over

\* The guardian counts its child, and does not leave it.
LEMMA ServerGuards ==
  ASSUME ServerInv, [ServerNext]_vars PROVE GuardianInv' /\ NoOrphan'
<1> USE DEF ServerInv, ServerTypeOK, GuardianInv, NoOrphan, Guarding, Alive, Dead
<1>1. CASE InitArgs
  BY <1>1 DEF InitArgs, Daemonize, supervisorVars, serverVars
<1>2. CASE GuardianStarts
  BY <1>2 DEF GuardianStarts, supervisorVars, serverVars
<1>3. CASE SdataInit
  BY <1>3 DEF SdataInit, supervisorVars, serverVars
<1>4. CASE SdataStart
  BY <1>4 DEF SdataStart, supervisorVars, serverVars
<1>5. CASE EnterWait
  BY <1>5 DEF EnterWait, supervisorVars, serverVars
<1>6. CASE RunReturns
  BY <1>6 DEF RunReturns, supervisorVars, serverVars
<1>7. CASE StopProxies
  BY <1>7 DEF StopProxies, supervisorVars, serverVars
<1>8. CASE JoinRoutines
  BY <1>8 DEF JoinRoutines, supervisorVars, serverVars
<1>9. CASE StopPool
  BY <1>9 DEF StopPool, supervisorVars, serverVars
<1>10. CASE DeletePool
  BY <1>10 DEF DeletePool, supervisorVars, serverVars
<1>11. CASE GuardianTests
  BY <1>11 DEF GuardianTests, supervisorVars, serverVars
<1>12. CASE GuardianForks
  BY <1>12 DEF GuardianForks, supervisorVars, serverVars
<1>13. CASE GuardianWaits
  BY <1>13, ServerAssumption DEF ServerAssumption, GuardianWaits, LeftAfterChild, ChildEnded, serverVars
<1>14. CASE Spurious
  BY <1>14 DEF Spurious, supervisorVars, serverVars
<1>15. CASE Crash
  BY <1>15 DEF Crash, supervisorVars, serverVars
<1>16. CASE TermServer
  BY <1>16 DEF TermServer, Told
<1>17. CASE TermGuardian
  BY <1>17 DEF TermGuardian, Told, serverVars
<1>18. CASE \E r \in Routines : RoutineEnds(r)
  BY <1>18 DEF RoutineEnds, supervisorVars
<1>19. CASE ProxyStep
  BY <1>19, PoolSteps DEF supervisorVars, serverVars
<1>20. CASE UNCHANGED vars
  BY <1>20 DEF vars, supervisorVars, serverVars
<1> QED
  BY <1>1, <1>2, <1>3, <1>4, <1>5, <1>6, <1>7, <1>8, <1>9, <1>10, <1>11,
     <1>12, <1>13, <1>14, <1>15, <1>16, <1>17, <1>18, <1>19, <1>20
  DEF ServerNext, Main, Guardian, Over

\* stop() goes on in its order.
LEMMA ServerStops ==
  ASSUME ServerInv, [ServerNext]_vars PROVE StopInv' /\ ClosedBeforeDelete'
<1> USE DEF ServerInv, StopInv, ClosedBeforeDelete
<1>1. CASE InitArgs
  BY <1>1 DEF InitArgs, Daemonize, proxyVars, supervisorVars, serverVars
<1>2. CASE GuardianStarts
  BY <1>2 DEF GuardianStarts, proxyVars, supervisorVars, serverVars
<1>3. CASE SdataInit
  BY <1>3 DEF SdataInit, proxyVars, supervisorVars, serverVars
<1>4. CASE SdataStart
  BY <1>4 DEF SdataStart, proxyVars, supervisorVars, serverVars
<1>5. CASE EnterWait
  BY <1>5 DEF EnterWait, proxyVars, supervisorVars, serverVars
<1>6. CASE RunReturns
  BY <1>6 DEF RunReturns, proxyVars, supervisorVars, serverVars
<1>7. CASE StopProxies
  BY <1>7 DEF StopProxies, proxyVars, supervisorVars, serverVars
<1>8. CASE JoinRoutines
  BY <1>8 DEF JoinRoutines, proxyVars, supervisorVars, serverVars
<1>9. CASE StopPool
  <2>1. /\ main_at = "sleep" /\ main_at' = "delete" /\ close_flag /\ pool' # "START"
        /\ UNCHANGED <<proxyVars, routines>>
        /\ \A r \in Routines : routines[r] # "running"
    BY <1>9 DEF StopPool
  <2>2. ~late' => Ticking(waits) = 0 /\ accepts["err"] = 0
    BY <1>9 DEF StopPool, Settled
  <2>3. ~late' => \/ \A c \in Conns : tcp_connections[c] # "open"
                  \/ stranded \/ fault # "none"
    BY <2>1, <2>2 DEF ProxySound, ClosesInTheEnd
  <2> QED BY <2>1, <2>3 DEF proxyVars
<1>10. CASE DeletePool
  BY <1>10 DEF DeletePool, proxyVars, supervisorVars, serverVars
<1>11. CASE GuardianTests
  BY <1>11 DEF GuardianTests, proxyVars, supervisorVars, serverVars
<1>12. CASE GuardianForks
  BY <1>12 DEF GuardianForks, proxyVars, supervisorVars, serverVars
<1>13. CASE GuardianWaits
  BY <1>13 DEF GuardianWaits, proxyVars, supervisorVars, serverVars
<1>14. CASE Spurious
  BY <1>14 DEF Spurious, proxyVars, supervisorVars, serverVars
<1>15. CASE Crash
  BY <1>15 DEF Crash, proxyVars, supervisorVars, serverVars
<1>16. CASE TermServer
  BY <1>16 DEF TermServer, proxyVars, supervisorVars, serverVars
<1>17. CASE TermGuardian
  BY <1>17 DEF TermGuardian, proxyVars, supervisorVars, serverVars
<1>18. CASE \E r \in Routines : RoutineEnds(r)
  BY <1>18 DEF RoutineEnds, proxyVars, supervisorVars, ServerTypeOK
<1>19. CASE ProxyStep
  <2>1. Next /\ pool = "START" /\ UNCHANGED <<main_at, routines>>
    BY <1>19, PoolSteps DEF PoolRuns, serverVars
  <2>2. close_flag => close_flag'
    BY <2>1 DEF Next, AcceptDone, WaitExpires, Stop, HandleAcceptOk, HandleAcceptErr,
                HandleAcceptAborted, HandleWait, HandleWaitClose, HandleWaitTick,
                HandleWaitAborted, ConnectionCloses, Terminated, proxyVars
  <2> QED BY <2>1, <2>2
<1>20. CASE UNCHANGED vars
  BY <1>20 DEF vars, proxyVars, serverVars
<1> QED
  BY <1>1, <1>2, <1>3, <1>4, <1>5, <1>6, <1>7, <1>8, <1>9, <1>10, <1>11,
     <1>12, <1>13, <1>14, <1>15, <1>16, <1>17, <1>18, <1>19, <1>20
  DEF ServerNext, Main, Guardian, Over

\* The process begins with all of it.
LEMMA ServerStart == ServerInit => ServerInv
<1> SUFFICES ASSUME ServerInit PROVE ServerInv
  OBVIOUS
<1>1. ProxySound
  BY SoundInit DEF ServerInit
<1>2. ServerTypeOK
  <2>1. [r \in Routines |-> "none"] \in [Routines -> {"none", "running", "ended"}]
    OBVIOUS
  <2>2. routines \in [Routines -> {"none", "running", "ended"}]
    BY <2>1, Zenon DEF ServerInit
  <2>3. now_child_cnt \in 0..1 /\ times_left \in 0..ChildExits /\ terms \in 0..MaxTerms
    BY ServerAssumption DEF ServerAssumption, ServerInit
  <2>4. TypeOK
    BY <1>1 DEF ProxySound, ProxyInv
  <2>5. /\ daemon_flag \in BOOLEAN /\ guardian_flag \in BOOLEAN /\ handler = FALSE
        /\ running_flag = TRUE /\ late = FALSE /\ guardian_at = "none"
        /\ global_running_flag = "NULL" /\ main_at = "args" /\ pool = "NULL"
    BY DEF ServerInit
  <2> HIDE DEF Routines
  <2> QED BY <2>2, <2>3, <2>4, <2>5, Zenon DEF ServerTypeOK, Dead
<1> QED BY <1>1, <1>2, ServerAssumption
        DEF ServerAssumption, ServerInit, ServerInv, GuardianInv, NoOrphan, Guarding, StopInv,
            ClosedBeforeDelete

LEMMA ServerSteps == ServerInv /\ [ServerNext]_vars => ServerInv'
BY ServerSound, ServerTypes, ServerGuards, ServerStops DEF ServerInv

\* The strengthening is an invariant of the process.
THEOREM ServerInductive == ServerSpec => []ServerInv
BY ServerStart, ServerSteps, PTL DEF ServerSpec
-----------------------------------------------------------------------------
\* Type correctness of every process and thread, for any bounds.
THEOREM ServerTypesHold == ServerSpec => []ServerTypeOK
<1>1. ServerInv => ServerTypeOK
  BY DEF ServerInv
<1> QED BY <1>1, ServerInductive, PTL

\* In every server, also one that the guardian has forked again, a tick is on its way until
\* stop() or a restart that fails.
THEOREM ServerTicks == ServerSpec => []TicksGoOn
<1>1. ServerInv => TicksGoOn
  BY DEF ServerInv, ProxySound, ProxyInv
<1> QED BY <1>1, ServerInductive, PTL

\* And exactly one accept.
THEOREM ServerAccepts == ServerSpec => []OneAccept
<1>1. ServerInv => OneAccept
  BY DEF ServerInv, ProxySound, ProxyInv
<1> QED BY <1>1, ServerInductive, PTL

\* guardian() leaves no server behind and never forks beside one.
THEOREM GuardianKeeps == ServerSpec => []NoOrphan
<1>1. ServerInv => NoOrphan
  BY DEF ServerInv
<1> QED BY <1>1, ServerInductive, PTL

\* SharedData::stop: what is closed when the io_services are deleted.
THEOREM StopCloses == ServerSpec => []ClosedBeforeDelete
<1>1. ServerInv => ClosedBeforeDelete
  BY DEF ServerInv
<1> QED BY <1>1, ServerInductive, PTL
=============================================================================
