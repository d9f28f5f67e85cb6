----------------------------- MODULE MCSources -----------------------------
(***************************************************************************)
(* The sources of the watcher on small instances.  They share no state: a  *)
(* behaviour is about one of them, so that their state spaces add up.      *)
(***************************************************************************)
EXTENDS Registry, CodexSource, ProcessLines, TLC

CONSTANTS p1, p2, d1, d2, h1, h2, c1, c2, u1, u2

VARIABLE subject
sourcesVars == <<subject, registryVars, codexSourceVars, lineVars>>

\* Programs: Claude Code in the home of another user than the watcher's own,
\* with and without an environment that can be read, and a background one of
\* another user; a pi in a directory below its working directory, one that says
\* nothing, and one that hides its environment.
MCPrograms ==
  LET Run(a, mine, readable, interactive, setting, home, pane) ==
        [agent |-> a, mine |-> mine, readable |-> readable, interactive |-> interactive,
         setting |-> setting, home |-> home, below |-> d2, pane |-> pane]
  IN  {Run("claude", TRUE, TRUE, TRUE, "unset", h2, TRUE),
       Run("claude", TRUE, FALSE, TRUE, "relative", h2, FALSE),
       Run("claude", FALSE, FALSE, FALSE, d2, "unset", FALSE),
       Run("pi", TRUE, TRUE, TRUE, "relative", "unset", TRUE),
       Run("pi", TRUE, FALSE, TRUE, "tilde", h2, TRUE)}

\* When pi's claims are swept, one Claude Code that is passed over is enough.
\* With an override processes have nothing to do with each other (no directory
\* and no warning depends on them), and one at a time is enough.
Bystander(program) == program.agent = "claude" /\ program.readable
Populated(table) ==
  LET here == {pid \in Pids : table[pid] # None}
      others == {pid \in here : table[pid].program.agent # agent}
  IN  /\ \A pid \in others : Bystander(table[pid].program)
      /\ Cardinality(others) <= IF agent = "pi" /\ override = {} THEN 1 ELSE 0
      /\ override = {} \/ Cardinality(here) <= 1

MCDefaultDirIn == (h1 :> d1) @@ (h2 :> d2)
MCOverrides == {{}, {d2}}
MCSymmetry == Permutations({p1, p2})

\* Codex: at home, in a home of its own, unreadable, and another user's.
MCCodexes ==
  LET Run(mine, readable, codexHome, home) ==
        [mine |-> mine, readable |-> readable, codexHome |-> codexHome, home |-> home]
  IN  {Run(TRUE, TRUE, "unset", u2), Run(TRUE, TRUE, c2, u1),
       Run(TRUE, FALSE, "relative", "unset"), Run(FALSE, FALSE, c2, u1)}

MCDotCodex == (u1 :> c1) @@ (u2 :> c2)

\* Words: the paths and names the recognition looks at, among others.
Word(slash, stem, package) ==
  [slash |-> slash, stem |-> stem, package |-> package, key |-> NoKey]
Assigning(key) == [slash |-> FALSE, stem |-> "other", package |-> FALSE, key |-> key]

MCWords ==
  {Word(TRUE, "claude", FALSE), Word(FALSE, "claude", FALSE), Word(TRUE, "node", FALSE),
   Word(TRUE, "cli", TRUE), Word(FALSE, "cli", FALSE), Word(TRUE, "other", TRUE),
   Word(FALSE, "other", FALSE), Word(TRUE, "pi", FALSE)}
MCExecutables == UNION {[1..n -> MCWords] : n \in 1..2}
MCArguments == MCExecutables \cup {<<Assigning("FOO")>>}
MCVariables ==
  {<<Assigning("CLAUDE_CONFIG_DIR"), Word(TRUE, "other", FALSE)>>,
   <<Assigning("PATH"), Word(TRUE, "other", FALSE)>>,
   <<Assigning("PATH"), Assigning("CLAUDE_CONFIG_DIR"), Word(FALSE, "claude", FALSE)>>}

\* At most two arguments and two variables; uids on either side of the half.
NoPieces == [words |-> <<>>, ends |-> <<>>]
OnePiece(p) == [words |-> p, ends |-> <<Len(p)>>]
TwoPieces(p, q) == [words |-> p \o q, ends |-> <<Len(p), Len(p) + Len(q)>>]

MCCommands == {OnePiece(p) : p \in MCExecutables}
MCCommandLines == MCCommands \cup {TwoPieces(p, q) : p \in MCExecutables, q \in MCArguments}
MCEnvironments ==
  {NoPieces} \cup {OnePiece(p) : p \in MCVariables}
             \cup {TwoPieces(p, q) : p \in MCVariables, q \in MCVariables}

MCObservable ==
  [args : MCCommandLines, env : MCEnvironments, uid : {6}]
    \cup [args : MCCommands, env : MCEnvironments, uid : {0, 3}]

MCStems == {word.stem : word \in MCWords}
MCKeys == {"CLAUDE_CONFIG_DIR", "PATH", "FOO"}

NoCodex ==
  /\ codexOverride = NoHome
  /\ running = {} /\ holder = [thread \in Threads |-> NoHome] /\ lockFiles = {}
  /\ record = [thread \in Threads |-> NoHome]
  /\ homes = NoHome
  /\ listed = {} /\ opened = {} /\ kept = {} /\ unread = {} /\ blind = {}
  /\ published = NoHome

NoRegistry ==
  RegistryInit /\ agent = "claude" /\ platform = "linux" /\ override = {}

NoLine == observed = NoKey /\ reading = NoKey

MCInit ==
  \/ /\ subject = "registry"
     /\ RegistryInit
     /\ agent = "claude" \/ override # {} => platform = "linux"
     /\ NoCodex /\ NoLine
  \/ subject = "codex" /\ CodexSourceInit /\ NoRegistry /\ NoLine
  \/ subject = "line" /\ LinesInit /\ NoRegistry /\ NoCodex

MCNext ==
  \/ subject = "registry" /\ RegistryNext /\ Populated(process')
       /\ UNCHANGED <<subject, codexSourceVars, lineVars>>
  \/ subject = "codex" /\ CodexSourceNext /\ UNCHANGED <<subject, registryVars, lineVars>>
  \/ subject = "line" /\ LinesNext /\ UNCHANGED <<subject, registryVars, codexSourceVars>>

MCSpec == MCInit /\ [][MCNext]_sourcesVars
=============================================================================
