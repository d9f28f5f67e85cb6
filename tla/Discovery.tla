----------------------------- MODULE Discovery -----------------------------
(***************************************************************************)
(* Where the watcher looks for sessions: the processes it recognises in    *)
(* one enumeration of the process table (crates/watcher/src/discovery.rs,  *)
(* pi.rs), the directories their environments name, and the cache of the   *)
(* enumeration.                                                            *)
(*                                                                         *)
(* A process runs a program: what its command line and its environment     *)
(* say.  A value of an environment variable is a directory when it is an   *)
(* absolute path, and one of "unset", "blank", "relative" or "tilde" when  *)
(* it is not; the module ProcessLines is about how the values are read.    *)
(***************************************************************************)
EXTENDS Integers, FiniteSets

CONSTANTS
  Pids,
  Programs,     \* records, see ProgramFields
  Dirs,         \* config directories, under any home or none
  Homes,        \* absolute values of HOME
  DefaultDirIn, \* the default config directory below a home
  TildeDirIn,   \* what a value of "tilde" names below a home
  WatcherHome,  \* the watcher's own HOME
  TTL,          \* DEFAULT_TTL, in ticks
  None          \* no process, no file, no pane, no working directory

Settings == Dirs \cup {"unset", "blank", "relative", "tilde"}
HomeSettings == Homes \cup {"unset", "blank", "relative"}

\* agent: whose CLI it is; mine: of the watcher's user; readable: whether its
\* environment can be read; setting: CLAUDE_CONFIG_DIR or PI_CODING_AGENT_DIR;
\* below: the directory it uses when no absolute path names one, which for a
\* relative setting of pi is one below its working directory; None where the
\* watcher does not know it.
ProgramFields ==
  [agent : {"claude", "pi", "other"}, mine : BOOLEAN, readable : BOOLEAN,
   interactive : BOOLEAN, setting : Settings, home : HomeSettings,
   below : Dirs \cup {None}, pane : BOOLEAN]

ASSUME DiscoveryAssumption ==
  /\ Dirs \cap {"unset", "blank", "relative", "tilde"} = {}
  /\ Homes \cap {"unset", "blank", "relative"} = {}
  /\ Programs \subseteq ProgramFields
  /\ \A program \in Programs : program.below # None
  /\ DefaultDirIn \in [Homes -> Dirs]
  /\ TildeDirIn \in [Homes -> Dirs]
  /\ WatcherHome \in Homes
  /\ TTL \in Nat \ {0}
  /\ None \notin Dirs

-----------------------------------------------------------------------------
(***************************************************************************)
(* discovery.rs: Claude Code.                                              *)
(***************************************************************************)

DefaultConfigDir == DefaultDirIn[WatcherHome]

DefaultConfigDirFor(home) == IF home \in Homes THEN DefaultDirIn[home] ELSE DefaultConfigDir

ResolveProcessConfigDir(program) ==
  IF program.setting \in Dirs THEN program.setting
                              ELSE DefaultConfigDirFor(program.home)

(***************************************************************************)
(* pi.rs.                                                                  *)
(***************************************************************************)

PiHome(program) == IF program.home \in Homes THEN program.home ELSE WatcherHome

\* None for a blank value and where the working directory could not be looked
\* up, which leaves the default.
ResolveAgentDir(program) ==
  CASE program.setting \in Dirs      -> program.setting
    [] program.setting = "tilde"     -> TildeDirIn[PiHome(program)]
    [] program.setting = "relative"  -> program.below
    [] OTHER                         -> None

\* Mutant: what cannot be told is not replaced.
PiDirAsResolved(program) == ResolveAgentDir(program)

PiDir(program) ==
  IF ResolveAgentDir(program) = None THEN DefaultDirIn[PiHome(program)]
                                     ELSE ResolveAgentDir(program)

\* A pi whose environment ps could not see: nothing is known but its pid.
Opaque(program) ==
  [program EXCEPT !.setting = "unset", !.home = "unset", !.below = None, !.pane = FALSE]

-----------------------------------------------------------------------------
(***************************************************************************)
(* One enumeration of the process table, and what is made of it.           *)
(***************************************************************************)

\* The processes of one agent in a process table.
OfAgent(agent, table) ==
  {pid \in Pids : table[pid] # None /\ table[pid].program.agent = agent}

\* Mutant: an environment that cannot be read is taken for an empty one.
UnreadableIsEmpty(agent, platform, table) == FALSE

\* A process of the watcher's own user whose environment cannot be read fails
\* the enumeration, but for a pi on macOS, which hides its environment itself.
Unreadable(agent, platform, table) ==
  \E pid \in OfAgent(agent, table) :
    /\ table[pid].program.mine
    /\ ~table[pid].program.readable
    /\ agent = "claude" \/ platform = "linux"

\* The processes of other users, left out.
ForeignUid(agent, table) ==
  {pid \in OfAgent(agent, table) :
     ~table[pid].program.mine /\ ~table[pid].program.readable}

Sightings == [pid : Pids, program : ProgramFields, pane : Int \cup {None}]

\* The pi processes whose directory depends on their working directory.
WantsCwd(agent, table) ==
  {pid \in OfAgent(agent, table) :
     agent = "pi" /\ table[pid].program.setting = "relative"}

\* What is known of a process when the working directories of those lost could
\* not be looked up.  The pane is named after the process it was seen in.
Sighting(pid, table, lost) ==
  LET program == table[pid].program
  IN  [pid |-> pid,
       program |-> IF ~program.readable THEN Opaque(program)
                   ELSE IF pid \in lost THEN [program EXCEPT !.below = None]
                   ELSE program,
       pane |-> IF program.readable /\ program.pane THEN table[pid].started ELSE None]

\* The result of an enumeration that came across the pids seen.
Enumerated(agent, seen, table, lost) ==
  {Sighting(pid, table, lost) : pid \in (OfAgent(agent, table) \cap seen)
                                          \ ForeignUid(agent, table)}

DirOf(agent, program) ==
  IF agent = "claude" THEN ResolveProcessConfigDir(program) ELSE PiDir(program)

UnionDiscovery(agent, found) ==
  {DefaultConfigDir} \cup {DirOf(agent, s.program) : s \in found}

TmuxPanes(found) == {[pid |-> s.pid, pane |-> s.pane] : s \in {t \in found : t.pane # None}}

LivePids(found) == {s.pid : s \in found}

\* Mutant: what is warned about now is not remembered.
RememberOldOnly(current, kept, warned) == warned \cap kept

\* new_orphan_pids and new_foreign_uid_pids: what to warn about now, and what
\* is remembered, a pid being forgotten when it is no longer among those kept.
NewPids(current, kept, warned) == current \ (warned \cap kept)
Remembered(current, kept, warned) == (warned \cap kept) \cup current
=============================================================================
