-------------------------------- MODULE XTokens --------------------------------
(***************************************************************************)
(* xtokens.h and xpath.h: tokens of a string, the "leader=tokens" lines    *)
(* made of them, and absolute paths.  A string is a sequence of            *)
(* characters.                                                             *)
(***************************************************************************)
EXTENDS Integers, FiniteSets, SequencesExt

CONSTANTS Blank, Equals, Hash, Slash, Dot      \* the characters that have a meaning

ASSUME TokensAssumption == Blank # Equals

\* separate_tokens: the longest pieces without a separator, in order; none is empty.
SeparateTokens(s, seps) ==
  LET Inside(i) == i \in DOMAIN s /\ s[i] \notin seps
      starts == {i \in DOMAIN s : Inside(i) /\ ~Inside(i - 1)}
      Start(n) == CHOOSE i \in starts : Cardinality({j \in starts : j <= i}) = n
      End(i) == CHOOSE j \in i..Len(s) : ~Inside(j + 1) /\ \A k \in i..j : Inside(k)
  IN  [n \in 1..Cardinality(starts) |-> SubSeq(s, Start(n), End(Start(n)))]

\* assemble_tokens
AssembleTokens(tokens, sep) ==
  FlattenSeq([i \in DOMAIN tokens |-> IF i = 1 THEN tokens[i] ELSE sep \o tokens[i]])

\* parse_configstring: the tokens until one that begins a comment.
UntilComment(tokens) ==
  LET hashes == {i \in DOMAIN tokens : tokens[i][1] = Hash}
  IN  IF hashes = {} THEN tokens
      ELSE SubSeq(tokens, 1, (CHOOSE i \in hashes : \A j \in hashes : i <= j) - 1)

Refused == [parsed |-> FALSE, leader |-> <<>>, tokens |-> <<>>]

ParseConfigstring(s) ==
  LET tokens == SeparateTokens(s, {Blank})
      TK     == SeparateTokens(tokens[1], {Equals})
  IN  IF tokens = <<>> \/ Len(TK) # 2 THEN Refused
      ELSE [parsed |-> TRUE, leader |-> TK[1],
            tokens |-> UntilComment([tokens EXCEPT ![1] = TK[2]])]

AssembleConfigstring(leader, tokens) ==
  leader \o <<Equals>> \o AssembleTokens(tokens, <<Blank>>)

\* auto_standardize_dirname, auto_concate_pathname
StandardizeAlways(d) == Append(d, Slash)
StandardizeDirname(d) ==
  IF d = <<>> THEN <<Dot, Slash>> ELSE IF Last(d) = Slash THEN d ELSE Append(d, Slash)

Absolute(p) == p # <<>> /\ p[1] = Slash

ConcatePathname(p, workdir) ==
  IF p = <<>> \/ Absolute(p) THEN p ELSE StandardizeDirname(workdir) \o p

FormatDirname(d, workdir) == StandardizeDirname(ConcatePathname(d, workdir))
-----------------------------------------------------------------------------
\* assemble_configstring, parse_configstring: a line that is written is read back, unless
\* it has no token, a token that begins with "#", or a "=" in the leader or
\* in the first token, where the reader sees something else.
ConfigRoundTrip(leader, tokens) ==
  LET Word(s) == s # <<>> /\ \A i \in DOMAIN s : s[i] # Blank
      Plain(s) == Word(s) /\ \A i \in DOMAIN s : s[i] # Equals
  IN  /\ tokens # <<>> /\ Plain(leader) /\ Plain(tokens[1])
      /\ \A i \in DOMAIN tokens : Word(tokens[i]) /\ tokens[i][1] # Hash
      => ParseConfigstring(AssembleConfigstring(leader, tokens))
           = [parsed |-> TRUE, leader |-> leader, tokens |-> tokens]

\* format_dirname, format_filename: in an absolute work directory the result is absolute
\* and formatting it again, anywhere, changes nothing; except that an empty
\* name of a directory gives "./".
PathsSettle(name, workdir, elsewhere) ==
  Absolute(workdir) /\ name # <<>> =>
    LET dir == FormatDirname(name, workdir)
        file == ConcatePathname(name, workdir)
    IN  /\ Absolute(dir) /\ Last(dir) = Slash
        /\ FormatDirname(dir, elsewhere) = dir
        /\ Absolute(file) /\ ConcatePathname(file, elsewhere) = file
=============================================================================
