CONSTANTS
  Threads = {t1, t2, t3}
  Mutexes = {"first", "second", "other", "exit_mtx"}
  None = None
  pri_level <- Level
  MaxScopes = 2
  MaxDepth = 2
  Bad = Bad
  BusyPorts = {3}
  pool_size = 2
  OptionNames <- Names
  OptionValues <- Values
  Default <- Defaults
  Missing = Missing
  RandMax = 7
  Unwritable = {"/full"}
  SystemComplete <- Completed
  Blank = " "
  Equals = "="
  Hash = "#"
  Slash = "/"
  Dot = "."
SPECIFICATION HelpersSpec
SYMMETRY Symmetry
INVARIANTS TypeOK CountsAgree StackIsHeld NoCircle FileGivesRules CommandLineWins IntervalsKept DrawsRight TextRoundTrip
CHECK_DEADLOCK FALSE
