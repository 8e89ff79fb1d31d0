--------------------------------- MODULE Watch ---------------------------------
(***************************************************************************)
(* The log of watch.cpp: its settings, and which lines a sequence of calls *)
(* writes, and where.  The wording of a line is left out: of it a record   *)
(* keeps the name of the level, the message and whether the location in    *)
(* the source is added.                                                    *)
(***************************************************************************)
EXTENDS Integers, SequencesExt

CONSTANTS Unwritable,           \* paths of files that cannot be opened for writing
          SystemComplete(_)    \* a path with / for \, completed with the current directory

LevelName == <<"EMG", "ALT", "CRT", "ERR", "WRN", "NTC", "INF", "DBG">>
LOG_WARNING  == 4
LOG_DEBUG    == 7
LOG_BADVALUE == -1

DictLoglevelname(level) == IF level \in 0..LOG_DEBUG THEN LevelName[level + 1] ELSE "BADVALUE"

DictLoglevel(name) ==
  IF name \in Range(LevelName) THEN (CHOOSE i \in 1..Len(LevelName) : LevelName[i] = name) - 1
  ELSE LOG_BADVALUE

\* Nothing is set yet: the empty path of a file cannot be opened.
NotReset == [logpath |-> "", maxloglevel |-> LOG_WARNING, loglocation |-> FALSE, out |-> <<>>]

\* fwriteln: to the file, or to the standard error output.
Fwriteln(w, line) ==
  LET to == IF w.logpath = "" \/ w.logpath \in Unwritable THEN "cerr" ELSE w.logpath
  IN  [w EXCEPT !.out = Append(@, [line |-> line, to |-> to])]

\* dolog_ with a level, and with the name of a level
DologLevel(w, level, message) ==
  IF level > w.maxloglevel THEN w
  ELSE Fwriteln(w, [level |-> DictLoglevelname(level), message |-> message,
                    located |-> w.loglocation])

DologName(w, name, message) ==
  LET level == DictLoglevel(name)
  IN  DologLevel(w, IF level = LOG_BADVALUE THEN LOG_DEBUG ELSE level, message)

\* LEmerg to LDebug and their Str forms, which look at the level before they make the text.
LogMacro(w, level, message) ==
  IF w.maxloglevel >= level THEN DologLevel(w, level, message) ELSE w

\* reset, and the setters of one of the three
Reset(w, call) ==
  CASE call.of = "reset" -> [w EXCEPT !.logpath = SystemComplete(call.path),
                                      !.maxloglevel = call.level,
                                      !.loglocation = call.location]
    [] call.of = "reset_logpath" -> [w EXCEPT !.logpath = call.path]
    [] call.of = "reset_maxloglevel" -> [w EXCEPT !.maxloglevel = call.level]
    [] call.of = "reset_loglocation" -> [w EXCEPT !.loglocation = call.location]

Called(w, call) ==
  CASE call.of = "macro" -> LogMacro(w, call.level, call.message)
    [] call.of = "dolog" -> DologName(w, call.name, call.message)
    [] OTHER -> Reset(w, call)

\* What is written after a sequence of calls.
Written(calls) == FoldLeft(Called, NotReset, calls).out
-----------------------------------------------------------------------------
\* The level of a call as a reader of the log knows it: a name that is not known
\* counts as debug.
LevelOf(call) ==
  IF call.of = "macro" THEN call.level
  ELSE IF call.name \in Range(LevelName) THEN DictLoglevel(call.name) ELSE LOG_DEBUG

\* The last call before i that sets what setter sets, if there is one.
Setters(calls, i, setter) == {j \in 1..(i - 1) : calls[j].of \in {"reset", setter}}
LastSetter(calls, i, setter) == calls[Max(Setters(calls, i, setter))]

\* The path that a call sets; only reset completes what it is given.
PathSet(call) == IF call.of = "reset" THEN SystemComplete(call.path) ELSE call.path

\* The settings that are in force at call i.
Most(calls, i) ==
  IF Setters(calls, i, "reset_maxloglevel") = {} THEN LOG_WARNING
  ELSE LastSetter(calls, i, "reset_maxloglevel").level
Path(calls, i) ==
  IF Setters(calls, i, "reset_logpath") = {} THEN ""
  ELSE PathSet(LastSetter(calls, i, "reset_logpath"))
Located(calls, i) ==
  IF Setters(calls, i, "reset_loglocation") = {} THEN FALSE
  ELSE LastSetter(calls, i, "reset_loglocation").location

\* dolog_, reset: each message up to the maximum in force comes out once, in order, under
\* the name of its level, at the place in force then; it is on cerr if it
\* cannot be in the file, and nothing else is written.
LoggedAsSet(calls) ==
  LET shown == {i \in DOMAIN calls : /\ calls[i].of \in {"macro", "dolog"}
                                     /\ LevelOf(calls[i]) <= Most(calls, i)}
  IN  /\ Len(Written(calls)) = Cardinality(shown)
      /\ \A i \in shown :
           Written(calls)[Cardinality({j \in shown : j <= i})] =
             [line |-> [level |-> LevelName[LevelOf(calls[i]) + 1],
                        message |-> calls[i].message, located |-> Located(calls, i)],
              to |-> IF Path(calls, i) \in Unwritable \cup {""} THEN "cerr" ELSE Path(calls, i)]
=============================================================================
