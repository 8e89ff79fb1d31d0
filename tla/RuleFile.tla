-------------------------------- MODULE RuleFile --------------------------------
(***************************************************************************)
(* SharedData::init: how the lines of proxy.conf become the rules of the   *)
(* proxy and the limits of a client address, and which io_service of       *)
(* io_service_pool each rule gets.                                         *)
(*                                                                         *)
(* A line is [proto, fields]; a field is a number, which also stands for   *)
(* an address, or Bad.  One istringstream reads all lines: an extraction   *)
(* that fails, or that comes to the end, makes the following ones fail     *)
(* until clear(), and one that fails on a field that is there gives 0.     *)
(***************************************************************************)
EXTENDS Integers, FiniteSets, SequencesExt

CONSTANTS Bad,                  \* a field that is no number
          BusyPorts,            \* ports on which other programs listen
          pool_size             \* network_thread_num, not 0 after checkAfterInit

ASSUME RuleFileAssumption == pool_size \in Nat \ {0}

Value(field) == IF field = Bad THEN 0 ELSE field

\* The fields that a stream yields before the first that it cannot.
GoodFields(fields) ==
  CHOOSE k \in 0..Len(fields) :
    /\ \A i \in 1..k : fields[i] # Bad
    /\ k = Len(fields) \/ fields[k + 1] = Bad

Wanted(proto) == CASE proto = "ip" -> 2 [] proto = "tcp" -> 5 [] OTHER -> 6

\* The stream after a line: it has failed, or stands at its end.
Spent(line) == Len(line.fields) <= Wanted(line.proto)
               \/ GoodFields(line.fields) < Wanted(line.proto)

\* TcpProxyRule, UdpProxyRule: what the constructor leaves in a parameter that is absent.
Optional(fields, i) == IF i <= GoodFields(fields) THEN fields[i] ELSE 0

Rule(line, io_service) ==
  [src_port |-> line.fields[1], dst_endpoint |-> <<line.fields[2], line.fields[3]>>,
   max_bandwidth |-> Optional(line.fields, 4), delay_ms |-> Optional(line.fields, 5),
   drop_prob |-> IF line.proto = "udp" THEN Optional(line.fields, 6) ELSE 0,
   io_service |-> io_service]
-----------------------------------------------------------------------------
(* Each step of the loop takes and gives what it has made so far.          *)

Empty == [failed |-> FALSE, send |-> 0, recv |-> 0, next_io_service |-> 0,
          proxies |-> <<>>, endpoints |-> {}]

\* is.str(line), is.clear(); the variant is the slip that the check must notice.
ClearedNot(made) == made
Cleared(made) == [made EXCEPT !.failed = FALSE]

\* get_io_service: the next one, round robin.
GetIoService(made) ==
  [made EXCEPT !.next_io_service = IF @ + 1 = pool_size THEN 0 ELSE @ + 1]

\* The limits are read in place, so a line that is refused has changed what came before
\* the field that was refused, and that field.
IpLine(made, fields) ==
  [made EXCEPT !.send = IF Len(fields) >= 1 THEN Value(fields[1]) ELSE @,
               !.recv = IF Len(fields) >= 2 /\ GoodFields(fields) >= 1
                        THEN Value(fields[2]) ELSE @]

\* TcpProxy::start fails if somebody listens on the port; the io_service is taken anyway.
TcpLine(made, line) ==
  IF GoodFields(line.fields) < 3 THEN made
  ELSE LET rule == Rule(line, made.next_io_service)
           taken == \/ rule.src_port \in BusyPorts
                    \/ \E p \in Range(made.proxies) : p.src_port = rule.src_port
       IN  [GetIoService(made) EXCEPT !.proxies = IF taken THEN @ ELSE Append(@, rule)]

\* addServerProxy: the endpoints have one rule for each destination.
Added(endpoints, rule) ==
  {e \in endpoints : e.dst_endpoint # rule.dst_endpoint} \cup {rule}

UdpLine(made, line) ==
  IF GoodFields(line.fields) < 3 THEN made
  ELSE [GetIoService(made) EXCEPT !.endpoints = Added(@, Rule(line, made.next_io_service))]

\* One turn of the loop; a comment is skipped, a line of another kind refused.
ReadLine(before, line) ==
  LET made == Cleared(before)
      read == IF made.failed THEN made
              ELSE CASE line.proto = "ip"  -> IpLine(made, line.fields)
                     [] line.proto = "tcp" -> TcpLine(made, line)
                     [] line.proto = "udp" -> UdpLine(made, line)
                     [] OTHER -> made
  IN  IF line.proto = "comment" THEN before ELSE [read EXCEPT !.failed = @ \/ Spent(line)]

\* SharedData::init of a file that can be opened.
InitRules(file) == FoldLeft(ReadLine, Empty, file)

\* IPProxies::start makes its thread if there is a limit.
Limited(made) == made.send > 0 \/ made.recv > 0
-----------------------------------------------------------------------------
(* What the file says, line by line and without a loop.                    *)

WellFormed(line) == line.proto \in {"tcp", "udp"} /\ GoodFields(line.fields) >= 3

Rules(file, proto) ==
  {i \in DOMAIN file : WellFormed(file[i]) /\ file[i].proto = proto}

\* The rule of line i, with the io_service after those of the lines before it.
Listed(file, i) ==
  Rule(file[i], Cardinality({j \in 1..(i - 1) : WellFormed(file[j])}) % pool_size)

Port(file, i) == file[i].fields[1]

\* The place of i in the order of S.
Place(S, i) == Cardinality({j \in S : j <= i})

\* SharedData::init, get_io_service: each line stands for itself.  A tcp line has a proxy,
\* in the order of the file, unless its port is taken; of the udp lines for a
\* destination the last has it; a line that is refused leaves no trace in the
\* lines around it, and the io_services are dealt in turn to the others.  The
\* limits are those of the last "ip" line, if no part of it is refused.
RulesAsListed(file) ==
  LET made == InitRules(file)
      tcp == {i \in Rules(file, "tcp") :
                /\ Port(file, i) \notin BusyPorts
                /\ \A j \in Rules(file, "tcp") : Port(file, j) = Port(file, i) => i <= j}
      udp == {i \in Rules(file, "udp") :
                \A j \in Rules(file, "udp") :
                  Listed(file, i).dst_endpoint = Listed(file, j).dst_endpoint => j <= i}
  IN  /\ Len(made.proxies) = Cardinality(tcp)
      /\ \A i \in tcp : made.proxies[Place(tcp, i)] = Listed(file, i)
      /\ made.endpoints = {Listed(file, i) : i \in udp}
      /\ \A i \in DOMAIN file :
           /\ file[i].proto = "ip" /\ GoodFields(file[i].fields) >= 2
           /\ \A j \in (i + 1)..Len(file) : file[j].proto # "ip"
           => <<made.send, made.recv>> = SubSeq(file[i].fields, 1, 2)
=============================================================================
