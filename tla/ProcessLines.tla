---------------------------- MODULE ProcessLines ----------------------------
(***************************************************************************)
(* How the watcher reads one process: the words of its command line and    *)
(* its environment, as `ps -Eww' prints them on macOS, with nothing to     *)
(* tell an argument, a value or a space inside one from the next           *)
(* (crates/watcher/src/discovery.rs: parse_ps_line and the recognition of  *)
(* Claude Code; pi.rs and codex.rs: theirs), and as /proc keeps them.      *)
(*                                                                         *)
(* A word has what the code looks at: whether it has a slash, the stem of  *)
(* its file name, whether a directory named claude-code is on its path,    *)
(* and the variable it seems to assign, if any.  Paths are absolute.  A    *)
(* stem is lower case: the comparisons ignore case.                        *)
(***************************************************************************)
EXTENDS Integers, Sequences

CONSTANTS
  NoKey,            \* the key of a word that assigns nothing
  MAX_TOKEN_MERGE,
  UidHalf,          \* half of the values of a uid_t: 2^31
  Stems,            \* the stems of file names
  Keys,             \* the names of variables
  Observable        \* the processes that are seen, see IsProcess

Lesser(a, b) == IF a <= b THEN a ELSE b

-----------------------------------------------------------------------------
(***************************************************************************)
(* Recognition.  A candidate is some consecutive words joined by spaces;   *)
(* the stem of the join is that of its last word when that word brings a   *)
(* slash of its own, and has a space in it otherwise.  (A join whose file  *)
(* name is cut at a dot before the space has the stem of a shorter one.)   *)
(***************************************************************************)

CandidateStem(words, first, last) ==
  IF first = last \/ words[last].slash THEN words[last].stem ELSE "several words"

IsClaudeExe(words, first, last) == CandidateStem(words, first, last) = "claude"

LooksLikeNode(words, first, last) == CandidateStem(words, first, last) = "node"

LooksLikeClaudeCodeScript(words, first, last) ==
  /\ CandidateStem(words, first, last) = "cli"
  /\ \E i \in first..last : words[i].package

\* Mutant: no joins.
NoMerge(words, first) == first..Lesser(first, Len(words))

\* merge_candidates: where the joins that start at a word may end.
MergeEnds(words, first) == first..Lesser(first + MAX_TOKEN_MERGE - 1, Len(words))

IsClaudeCommand(words) ==
  \/ \E last \in MergeEnds(words, 1) : IsClaudeExe(words, 1, last)
  \/ \E last \in MergeEnds(words, 1) :
       /\ LooksLikeNode(words, 1, last)
       /\ \E end \in MergeEnds(words, last + 1) :
            LooksLikeClaudeCodeScript(words, last + 1, end)

\* pi and Codex are looked for in the first words alone.  A script of the pi
\* package has the stem "pi script".
IsPiCommand(words) ==
  /\ words # <<>>
  /\ \/ words[1].stem = "pi"
     \/ /\ words[1].stem \in {"node", "bun"}
        /\ Len(words) > 1
        /\ words[2].stem = "pi script"

IsCodexCommand(words) == words # <<>> /\ words[1].stem \in {"codex", "codex-exec"}

-----------------------------------------------------------------------------
(***************************************************************************)
(* A line of ps: the words of the arguments, then those of the environment.*)
(***************************************************************************)

Assigns(word) == word.key # NoKey

\* Where the environment seems to begin.
EnvStart(words) ==
  CHOOSE i \in 1..(Len(words) + 1) :
    /\ i <= Len(words) => Assigns(words[i])
    /\ \A j \in 1..(i - 1) : ~Assigns(words[j])

CommandTokens(words) == SubSeq(words, 1, EnvStart(words) - 1)

\* The last word of the value that starts at a word.
ValueEnd(words, start) ==
  CHOOSE end \in start..Len(words) :
    /\ end < Len(words) => Assigns(words[end + 1])
    /\ \A i \in (start + 1)..end : ~Assigns(words[i])

\* Mutant: the last one, as HashMap::insert would keep it.
LastAssignment(words, key) ==
  CHOOSE i \in 1..Len(words) :
    words[i].key = key /\ \A j \in (i + 1)..Len(words) : words[j].key # key

\* The first of the seeming assignments of a key.
FirstAssignment(words, key) ==
  CHOOSE i \in 1..Len(words) : words[i].key = key /\ \A j \in 1..(i - 1) : words[j].key # key

\* parse_env_tokens: the value of a key is a sequence of words; <<>> is unset.
Value(words, key) ==
  IF \E i \in 1..Len(words) : words[i].key = key
    THEN LET start == FirstAssignment(words, key)
         IN  SubSeq(words, start, ValueEnd(words, start))
    ELSE <<>>

EnvironmentIsEmpty(words) == EnvStart(words) > Len(words)

\* parse_uid: -1 stands for None, which makes the line Malformed.
ParseUid(column) ==
  IF column \in 0..(2 * UidHalf - 1) THEN column
  ELSE IF column \in (0 - UidHalf)..(0 - 1) THEN column + 2 * UidHalf
  ELSE 0 - 1

\* parse_ps_line; a pid column that is no number is negative.
LineOutcome(line) ==
  IF line.blank THEN "Benign"
  ELSE IF line.pid < 0 \/ ParseUid(line.uid) < 0 THEN "Malformed"
  ELSE IF line.words = <<>> THEN "Benign" ELSE "Entry"

\* parse_ps_output: one malformed line fails them all.
ParsePsOutput(lines) ==
  IF \E i \in 1..Len(lines) : LineOutcome(lines[i]) = "Malformed" THEN "MalformedPsLine"
  ELSE IF \A i \in 1..Len(lines) : LineOutcome(lines[i]) = "Benign" THEN "EmptyProcessList"
  ELSE "Entries"

-----------------------------------------------------------------------------
(***************************************************************************)
(* The process behind a line: its arguments and its variables, each a list *)
(* of pieces.  A piece is one or more words, and a list keeps the words    *)
(* and, for every piece, where its last word is.                           *)
(***************************************************************************)

Words == [slash : BOOLEAN, stem : Stems, package : BOOLEAN, key : Keys \cup {NoKey}]

IsPieces(list) ==
  /\ list.words \in Seq(Words) /\ list.ends \in Seq(Nat)
  /\ \A i \in 1..Len(list.ends) : list.ends[i] > 0
  /\ \A i, j \in 1..Len(list.ends) : i < j => list.ends[i] < list.ends[j]
  /\ Len(list.words) = IF list.ends = <<>> THEN 0 ELSE list.ends[Len(list.ends)]

\* The pieces of a list, by their number, and where each begins and ends.
Pieces(list) == 1..Len(list.ends)
Start(list, i) == IF i = 1 THEN 1 ELSE list.ends[i - 1] + 1
End(list, i) == list.ends[i]
Piece(list, i) == SubSeq(list.words, Start(list, i), End(list, i))

\* The variable a piece of the environment really is.
KeyOf(list, i) == list.words[Start(list, i)].key

\* A process has an executable, and a variable has a name.
IsProcess(proc) ==
  /\ IsPieces(proc.args) /\ Pieces(proc.args) # {}
  /\ IsPieces(proc.env) /\ \A i \in Pieces(proc.env) : KeyOf(proc.env, i) # NoKey
  /\ proc.uid \in 0..(2 * UidHalf - 1)

ASSUME LinesAssumption ==
  /\ MAX_TOKEN_MERGE \in Nat \ {0}
  /\ UidHalf \in Nat \ {0}
  /\ NoKey \notin Keys /\ "CLAUDE_CONFIG_DIR" \in Keys
  /\ \A proc \in Observable : IsProcess(proc)

\* What ps prints: where the pieces end is lost.
PsWords(proc) == proc.args.words \o proc.env.words

PrintedUid(uid) == IF uid < UidHalf THEN uid ELSE uid - 2 * UidHalf

\* What /proc keeps: each argument is one word, the join of its words.
ProcArg(list, i) ==
  [stem |-> CandidateStem(list.words, Start(list, i), End(list, i)),
   slash |-> \E k \in Start(list, i)..End(list, i) : list.words[k].slash,
   package |-> \E k \in Start(list, i)..End(list, i) : list.words[k].package,
   key |-> NoKey]

ProcWords(proc) == [i \in Pieces(proc.args) |-> ProcArg(proc.args, i)]

-----------------------------------------------------------------------------
(***************************************************************************)
(* One process at a time: it is printed, and the watcher reads it.         *)
(***************************************************************************)
VARIABLES
  observed,     \* the process
  reading       \* what was made of it: NoKey until it is read

lineVars == <<observed, reading>>

\* Lines of every listing that are no entries: an empty one, and a process
\* without a command.
Others == <<[blank |-> TRUE, pid |-> 0, uid |-> 0, words |-> <<>>],
            [blank |-> FALSE, pid |-> 2, uid |-> 0, words |-> <<>>]>>

LineOf(proc) ==
  [blank |-> FALSE, pid |-> 1, uid |-> PrintedUid(proc.uid), words |-> PsWords(proc)]

Read ==
  /\ reading = NoKey
  /\ reading' =
       LET words == PsWords(observed)
       IN  [outcome |-> ParsePsOutput(Append(Others, LineOf(observed))),
            uid |-> ParseUid(LineOf(observed).uid),
            claude |-> IsClaudeCommand(CommandTokens(words)),
            pi |-> IsPiCommand(CommandTokens(words)),
            codex |-> IsCodexCommand(CommandTokens(words)),
            dir |-> Value(words, "CLAUDE_CONFIG_DIR")]
  /\ UNCHANGED observed

LinesInit == observed \in Observable /\ reading = NoKey
LinesNext == Read
LinesSpec == LinesInit /\ [][LinesNext]_lineVars

-----------------------------------------------------------------------------
ArgumentsAssignNothing == \A k \in 1..Len(observed.args.words) : ~Assigns(observed.args.words[k])

\* The two ways Claude Code is really run: a binary of that name, and its
\* script under node.  No path needs more words than are joined.
IsClaude(proc) ==
  LET args == ProcWords(proc)
  IN  /\ \A i \in Pieces(proc.args) :
           End(proc.args, i) - Start(proc.args, i) < MAX_TOKEN_MERGE
      /\ \/ args[1].stem = "claude"
         \/ /\ args[1].stem = "node"
            /\ Len(args) > 1
            /\ args[2].stem = "cli" /\ args[2].package

\* Claude Code is recognised on both platforms, spaces in its path or not,
\* when no argument looks like an assignment; and its line never fails the
\* enumeration, however ps prints the uid (discovery.rs:709 and :839).
ClaudeIsRecognised ==
  reading # NoKey =>
    /\ reading.outcome = "Entries"
    /\ reading.uid = observed.uid
    /\ IsClaude(observed) /\ ArgumentsAssignNothing =>
         reading.claude /\ IsClaudeCommand(ProcWords(observed))

\* The value read for CLAUDE_CONFIG_DIR is the real one when the variable
\* comes before every value that happens to hold such an assignment, and has
\* none of its own (discovery.rs: parse_env_tokens, "first-wins").
RealAssignmentWins ==
  reading # NoKey =>
    \A i \in Pieces(observed.env) :
      /\ ArgumentsAssignNothing
      /\ KeyOf(observed.env, i) = "CLAUDE_CONFIG_DIR"
      /\ \A k \in (Start(observed.env, i) + 1)..End(observed.env, i) :
           ~Assigns(observed.env.words[k])
      /\ \A k \in 1..(Start(observed.env, i) - 1) :
           observed.env.words[k].key # "CLAUDE_CONFIG_DIR"
      => reading.dir = Piece(observed.env, i)
=============================================================================
