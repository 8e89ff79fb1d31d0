------------------------------- MODULE MCHelpers -------------------------------
(***************************************************************************)
(* The parts that stand beside the relay: the locks of xthread.cpp, whose  *)
(* threads take every step, and the functions of the other files, each     *)
(* applied to every input of a small set.  A behaviour takes one of them,  *)
(* which input names.                                                      *)
(***************************************************************************)
EXTENDS XThread, RuleFile, Options, XTime, XRandom, XTokens, Watch

VARIABLE input

\* Four mutexes: two that a thread may take in order, one that excludes the second, and
\* one that is not watched.
ExitMtx == "exit_mtx"
Level == [m \in {"first", "second", "other", ExitMtx} |->
            CASE m = "first" -> 1 [] m \in {"second", "other"} -> 2
              [] m = ExitMtx -> NOCARE_PRIMARY_LEVEL]

Line(p, f) == [proto |-> p, fields |-> f]

Lines ==
  {Line("comment", <<>>), Line("other", <<1>>),
   Line("ip", <<7, 8>>), Line("ip", <<9, Bad>>), Line("ip", <<Bad, 5>>), Line("ip", <<6>>),
   Line("tcp", <<1, 1, 1>>), Line("tcp", <<1, 2, 2, 5, 6>>), Line("tcp", <<2, 1, 1, Bad, 6>>),
   Line("tcp", <<3, 1, 1>>), Line("tcp", <<1, Bad, 2>>),
   Line("udp", <<1, 1, 1>>), Line("udp", <<2, 1, 1, 5, 6, 7>>), Line("udp", <<1, 2, 1, 5, Bad, 7>>),
   Line("udp", <<1, 1>>)}

Names == {"config_file", "network_thread_num", "daemon"}
Values ==
  [o \in Names |-> CASE o = "config_file" -> {"etc", "other"}
                     [] o = "network_thread_num" -> {"0", "4", "8"}
                     [] o = "daemon" -> {"no", "yes"}]
Defaults ==
  [o \in Names |-> CASE o = "config_file" -> "etc"
                     [] o = "network_thread_num" -> "4"
                     [] o = "daemon" -> "no"]

ConfigFiles == {Missing} \cup {g \in Givens : g["daemon"] # "no" /\ g["config_file"] # "etc"}

Chars == {Blank, Equals, Hash, "a"}
Words == BoundedSeq(Chars, 2)

\* Of the two paths that are completed the second cannot be opened.
Completed(path) == CASE path = "log" -> "/log" [] path = "full" -> "/full"

LogCalls ==
  [of : {"reset"}, path : {"log", "full"}, level : {-1, LOG_DEBUG}, location : {TRUE}] \cup
  [of : {"reset_logpath"}, path : {"log"}] \cup
  [of : {"reset_maxloglevel"}, level : {0, LOG_WARNING, 8}] \cup
  [of : {"reset_loglocation"}, location : BOOLEAN] \cup
  [of : {"macro"}, level : {0, LOG_WARNING, LOG_WARNING + 1, LOG_DEBUG}, message : {"m"}] \cup
  [of : {"dolog"}, name : {"ERR", "DBG", "unknown"}, message : {"n"}]

ClockInputs ==
  [of : {"clock"}, checkout : {-4, 1, 7}, interval : 1..3, clock : [1..4 -> 0..5]]

DrawInputs ==
  [of : {"range"}, min_ : -3..10, max_ : -3..10] \cup
  [of : {"drop"}, drop_prob : {-1, 0, 1, 100, 5000, 9999, 10000, 10001}] \cup
  [of : {"chance"}, num : -1..4, den : 1..3, max_ : -1..2] \cup
  [of : {"assign"}, size : 0..3, min_ : {-1, 1}, max_ : -1..2, draws : [1..4 -> 0..3]] \cup
  UNION {[of : {"arrange"}, buf : [1..n -> 1..n], draws : [1..n -> 1..n]] : n \in 0..3}

TextInputs ==
  [of : {"file"}, file : BoundedSeq(Lines, 3)] \cup
  [of : {"options"}, command : Givens, files : [Values["config_file"] -> ConfigFiles]] \cup
  [of : {"log"}, calls : BoundedSeq(LogCalls, 3)] \cup
  [of : {"tokens"}, leader : Words, tokens : BoundedSeq(Words, 2)] \cup
  [of : {"path"}, name : BoundedSeq({Slash, Dot, "a"}, 3), workdir : BoundedSeq({Slash, "a"}, 2),
   elsewhere : {<<>>, <<Slash>>, <<"a">>}]

Inputs == ClockInputs \cup DrawInputs \cup TextInputs

HelpersInit == Init /\ (input = [of |-> "locks"] \/ input \in Inputs)

HelpersNext ==
  \/ input.of = "locks" /\ Next /\ UNCHANGED input
  \/ input.of # "locks" /\ UNCHANGED <<lockVars, input>>

HelpersSpec == HelpersInit /\ [][HelpersNext]_<<lockVars, input>>

Symmetry == Permutations(Threads)
-----------------------------------------------------------------------------
\* SharedData::init, get_io_service: every file of three lines gives the rules it lists.
FileGivesRules == input.of = "file" => RulesAsListed(input.file)

\* ServerArgsBase::init: command line, configuration file and defaults in that order.
CommandLineWins == input.of = "options" => OptionsLayered(input.command, input.files)

\* is_launchtime, interval_checker: the intervals are kept and launches resume, also when
\* the clock jumps.
IntervalsKept ==
  input.of = "clock" =>
    /\ LaunchesSpaced(input.checkout, input.interval, input.clock)
    /\ UpdatesSpaced(input.checkout, input.interval, input.clock)

\* random and its use in handleRecv: nothing out of range, nothing twice, nothing that
\* never comes up, and the share of datagrams that the rule says.
DrawsRight ==
  /\ input.of = "range" => RangeCovered(input.min_, input.max_)
  /\ input.of = "chance" => ChanceKept(input.num, input.den, input.max_)
  /\ input.of = "drop" => DropShare(input.drop_prob)
  /\ input.of = "assign" => AssignedOnce(input.size, input.min_, input.max_, input.draws)
  /\ input.of = "arrange" => ArrangedOnce(input.buf, input.draws)

\* xtokens.h, xpath.h, watch.cpp: what is written is read back, a path is made absolute
\* once, and the log has the lines that its settings let through.
TextRoundTrip ==
  /\ input.of = "tokens" => ConfigRoundTrip(input.leader, input.tokens)
  /\ input.of = "log" => LoggedAsSet(input.calls)
  /\ input.of = "path" => PathsSettle(input.name, input.workdir, input.elsewhere)
=============================================================================
