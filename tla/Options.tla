-------------------------------- MODULE Options --------------------------------
(***************************************************************************)
(* ServerArgsBase::init and ServerArgs: where the value of an option comes *)
(* from.  A variables_map of boost::program_options keeps, for each        *)
(* option, its value and whether it is only the default; store() does not  *)
(* replace a value that was given, and notify() assigns the fields.        *)
(***************************************************************************)
EXTENDS Integers, FiniteSets

CONSTANTS OptionNames,      \* config_file and network_thread_num among them
          OptionValues,     \* the values of each option
          Default,          \* those of ServerArgsBase def and ServerArgs def
          Missing           \* a file that cannot be opened

Unset == "unset"

\* What a command line or a file gives.
Givens == {g \in [OptionNames -> UNION {OptionValues[o] : o \in OptionNames} \cup {Unset}] :
             \A o \in OptionNames : g[o] \in OptionValues[o] \cup {Unset}}

ASSUME OptionsAssumption ==
  /\ {"config_file", "network_thread_num"} \subseteq OptionNames
  /\ \A o \in OptionNames : Default[o] \in OptionValues[o] /\ Unset \notin OptionValues[o]
-----------------------------------------------------------------------------
EmptyMap == [o \in OptionNames |-> [value |-> Unset, defaulted |-> TRUE]]

\* store(): what is given now, unless it was given before; then the defaults.
Store(given, vm) ==
  [o \in OptionNames |->
     IF ~vm[o].defaulted THEN vm[o]
     ELSE IF given[o] # Unset THEN [value |-> given[o], defaulted |-> FALSE]
     ELSE [value |-> Default[o], defaulted |-> TRUE]]

\* notify()
Fields(vm) == [o \in OptionNames |-> vm[o].value]

\* The map after both have been stored.
StoredFileFirst(command, parsed) == Store(command, Store(parsed, EmptyMap))
Stored(command, parsed) == Store(parsed, Store(command, EmptyMap))

\* The file that is opened is known after the first notify().
ConfigFile(command) == Fields(Store(command, EmptyMap))["config_file"]

\* ServerArgsBase::init without --help and --version: the fields, and whether
\* checkAfterInit lets the process go on.
InitFields(command, files) ==
  LET parsed == files[ConfigFile(command)]
      fields == Fields(IF parsed = Missing THEN Store(command, EmptyMap)
                       ELSE Stored(command, parsed))
  IN  [fields |-> fields, starts |-> fields["network_thread_num"] # "0"]
-----------------------------------------------------------------------------
\* ServerArgsBase::init: the command line overrides the file and the file the
\* defaults, option by option; the file is the one of the command line or the
\* default, also when the file itself names another.
OptionsLayered(command, files) ==
  LET made == InitFields(command, files)
      file == IF command["config_file"] = Unset THEN Default["config_file"]
              ELSE command["config_file"]
  IN  \A o \in OptionNames :
        made.fields[o] =
          IF command[o] # Unset THEN command[o]
          ELSE IF files[file] # Missing /\ files[file][o] # Unset THEN files[file][o]
          ELSE Default[o]
=============================================================================
