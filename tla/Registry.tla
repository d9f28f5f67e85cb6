------------------------------ MODULE Registry ------------------------------
(***************************************************************************)
(* The registry sources of the watcher: Claude Code's own registry and the *)
(* claims the pi extension keeps in the same shape (crates/watcher/src/    *)
(* main.rs: ClaudeSource and PiSource; sweep.rs, registry.rs).  A sweep    *)
(* discovers directories, reads them one after the other, and keeps the    *)
(* entries whose process still runs, while processes come and go and       *)
(* rewrite their files.                                                    *)
(*                                                                         *)
(* A session is the process that wrote its file: a pid and a start time.   *)
(* The sweep knows neither; it sees the pid of a file and compares the     *)
(* recorded start time with the one the OS gives for that pid.             *)
(***************************************************************************)
EXTENDS Discovery

CONSTANTS
  PROC_START_TOLERANCE_SECS,
  Skew,          \* how much later the OS puts a start than the program did
  ReuseGap,      \* a pid is not given out again sooner than this
  Overrides,     \* the values of the registry directory override; {} is unset
  Platforms,
  Garbled,       \* a file that does not parse
  MaxTime        \* bound on the clock

Agents == {"claude", "pi"}

\* The OS cycles through its pids: one is not given out again within the
\* tolerance.  Nothing is said of the life of the cache, or of a sweep.
ASSUME RegistryAssumption ==
  /\ PROC_START_TOLERANCE_SECS \in Nat
  /\ Skew \in Nat
  /\ Skew <= PROC_START_TOLERANCE_SECS
  /\ ReuseGap \in Nat
  /\ ReuseGap > PROC_START_TOLERANCE_SECS
  /\ Overrides \subseteq SUBSET Dirs
  /\ Platforms \subseteq {"linux", "macos"}
  /\ MaxTime \in Nat
  /\ None \notin [at : Nat, found : SUBSET Sightings]
  /\ None \notin [started : Int, interactive : BOOLEAN]
  /\ Garbled \notin [started : Int, interactive : BOOLEAN]

Times == Int
Processes == [started : Times, program : Programs]
Entries == [pid : Pids, started : Times, interactive : BOOLEAN]
FileStates == {None, Garbled} \cup [started : Times, interactive : BOOLEAN]
Stages == {"idle", "reading", "read"}

VARIABLES
  agent,       \* whose registry is swept
  platform,
  override,    \* CSM_WATCHER_REGISTRY_DIRS or CSM_WATCHER_PI_REGISTRY_DIRS
  clock,
  process,     \* the process table
  freed,       \* when each pid was last given back
  file,        \* per directory and pid, the file named after the pid
  enumeration, \* ProcessCache: None or what was found, and when
  foreign,     \* ForeignUidWarnings
  orphans,     \* OrphanWarnings
  stage,       \* where the sweep is
  toRead,      \* the directories still to be read
  entries,     \* the entries read so far
  panes,       \* the pids with a tmux pane, as discovered
  live,        \* the pids discovered
  lost,        \* the pids whose working directory could not be looked up
  result,      \* of the last sweep: None when it failed
  begun,       \* when the sweep began
  steady,      \* the sessions that ran and were on file since it began
  warnings     \* how often each process was reported as an orphan

hostVars == <<clock, process, freed, file>>
fixedVars == <<agent, platform, override>>
sweepVars == <<stage, toRead, entries, panes, live, lost>>
registryVars == <<fixedVars, hostVars, enumeration, foreign, orphans, sweepVars,
                  result, begun, steady, warnings>>

RegistryTypeOK ==
  /\ agent \in Agents
  /\ platform \in Platforms
  /\ override \in Overrides
  /\ clock \in Nat
  /\ process \in [Pids -> Processes \cup {None}]
  /\ freed \in [Pids -> Times]
  /\ file \in [Dirs -> [Pids -> FileStates]]
  /\ enumeration \in [at : Nat, found : SUBSET Sightings] \cup {None}
  /\ foreign \subseteq Pids
  /\ orphans \subseteq Pids
  /\ stage \in Stages
  /\ toRead \subseteq Dirs
  /\ entries \subseteq Entries
  /\ panes \subseteq [pid : Pids, pane : Times]
  /\ live \subseteq Pids
  /\ lost \subseteq Pids
  /\ begun \in Nat
  /\ warnings \in [Pids -> Nat]

-----------------------------------------------------------------------------
(***************************************************************************)
(* The host.  A program keeps its file in its own directory; what it may   *)
(* do with it is left open: Claude Code and the pi extension write,        *)
(* rename and remove files as they like.                                   *)
(***************************************************************************)

\* Without a home in its environment a program is at home where its user is.
HomeOf(program) == IF program.home \in Homes THEN program.home ELSE WatcherHome

KnowsHome(program) == program.home \in Homes \/ (program.home = "unset" /\ program.mine)

\* Where a program keeps its file: agentDir of the pi extension.  What Claude
\* Code makes of a value that is not absolute is not in this repository.
OwnDir(program) ==
  CASE program.setting \in Dirs -> program.setting
    [] program.agent = "pi" /\ program.setting = "tilde" /\ KnowsHome(program)
         -> TildeDirIn[HomeOf(program)]
    [] program.setting = "unset" /\ KnowsHome(program) -> DefaultDirIn[HomeOf(program)]
    [] OTHER -> program.below

Sessions == [pid : Pids, started : Times]

\* The sessions that run and are on file in one of these directories.
OnFile(dirs, table, files) ==
  {s \in {[pid |-> pid, started |-> table[pid].started] :
             pid \in {p \in Pids : table[p] # None}} :
     \E dir \in dirs :
       files[dir][s.pid] = [started |-> s.started, interactive |-> TRUE]}

\* A session stops being steady when its process ends or its file changes.
StaysSteady(table, files) == steady' = steady \cap OnFile(Dirs, table, files)

StartProcess(pid, program) ==
  /\ process[pid] = None
  /\ clock >= freed[pid] + ReuseGap
  /\ process' = [process EXCEPT ![pid] = [started |-> clock, program |-> program]]
  /\ warnings' = [warnings EXCEPT ![pid] = 0]
  /\ UNCHANGED <<fixedVars, clock, freed, file, enumeration, foreign, orphans,
                 sweepVars, result, begun, steady>>

\* Its file may stay behind.
ExitProcess(pid) ==
  /\ process[pid] # None
  /\ process' = [process EXCEPT ![pid] = None]
  /\ freed' = [freed EXCEPT ![pid] = clock]
  /\ StaysSteady(process', file)
  /\ UNCHANGED <<fixedVars, clock, file, enumeration, foreign, orphans, sweepVars,
                 result, begun, warnings>>

\* The pi extension's queue can write a claim again after the shutdown has
\* removed it; a file half written is garbled.
WriteFile(pid) ==
  /\ process[pid] # None
  /\ process[pid].program.agent \in Agents
  /\ \E content \in {[started |-> process[pid].started,
                      interactive |-> process[pid].program.interactive],
                     Garbled, None} :
       file' = [file EXCEPT ![OwnDir(process[pid].program)][pid] = content]
  /\ StaysSteady(process, file')
  /\ UNCHANGED <<fixedVars, clock, process, freed, enumeration, foreign, orphans,
                 sweepVars, result, begun, warnings>>

RegistryTick ==
  /\ clock < MaxTime
  /\ clock' = clock + 1
  /\ UNCHANGED <<fixedVars, process, freed, file, enumeration, foreign, orphans,
                 sweepVars, result, begun, steady, warnings>>

-----------------------------------------------------------------------------
(***************************************************************************)
(* The sweep.                                                              *)
(***************************************************************************)

FreshEntry == enumeration # None /\ clock - enumeration.at < TTL

\* Only Claude Code's enumeration is cached.
Cached == agent = "claude" /\ FreshEntry

\* Old enough to be in the enumeration the sweep uses.
Settled(session) ==
  \/ override # {}
  \/ agent = "claude" /\ session.started + TTL <= clock
  \/ agent = "pi" /\ session.started < clock

BeginSteady == steady' = {s \in OnFile(Dirs, process, file) : Settled(s)}

\* What follows an enumeration, cached or not.
BeginReading(found, unknown) ==
  /\ stage = "idle"
  /\ stage' = "reading"
  /\ toRead' = IF override = {} THEN UnionDiscovery(agent, found) ELSE override
  /\ entries' = {}
  /\ panes' = TmuxPanes(found)
  /\ live' = LivePids(found)
  /\ lost' = unknown
  /\ begun' = clock
  /\ BeginSteady
  /\ result' = None
  /\ UNCHANGED <<fixedVars, hostVars, orphans, warnings>>

DiscoverCached ==
  /\ Cached
  /\ BeginReading(enumeration.found, {})
  /\ UNCHANGED <<enumeration, foreign>>

\* A process that starts while the table is walked may be missed.  The foreign
\* processes are warned about once the walk is complete.  A working directory
\* that cannot be looked up fails nothing.
Discover ==
  /\ ~Cached
  /\ ~Unreadable(agent, platform, process)
  /\ \E seen \in SUBSET Pids, unknown \in SUBSET WantsCwd(agent, process) :
       /\ \A pid \in Pids \ seen : process[pid] # None => process[pid].started = clock
       /\ LET found == Enumerated(agent, seen, process, unknown)
              skipped == ForeignUid(agent, process) \cap seen
          IN  /\ BeginReading(found, unknown)
              /\ IF agent = "claude"
                   THEN /\ enumeration' = [at |-> clock, found |-> found]
                        /\ foreign' = Remembered(skipped, skipped, foreign)
                   ELSE UNCHANGED <<enumeration, foreign>>

\* The enumeration can always fail: ps times out, a process is gone between
\* its two files under /proc.  Without an override there is no sweep then, and
\* the next one tries again; with one it goes on without panes.
DiscoverFails ==
  /\ ~Cached
  /\ IF override = {}
       THEN /\ stage = "idle"
            /\ result' = None
            /\ UNCHANGED <<fixedVars, hostVars, orphans, sweepVars, begun, steady, warnings>>
       ELSE BeginReading({}, {})
  /\ UNCHANGED <<enumeration, foreign>>

\* read_entries: the files that are there and parse.
EntriesIn(dir) ==
  {[pid |-> pid, started |-> file[dir][pid].started,
    interactive |-> file[dir][pid].interactive] :
     pid \in {p \in Pids : file[dir][p] \notin {None, Garbled}}}

ReadDirectory ==
  /\ stage = "reading"
  /\ \E dir \in toRead :
       /\ entries' = entries \cup EntriesIn(dir)
       /\ toRead' = toRead \ {dir}
  /\ stage' = IF toRead' = {} THEN "read" ELSE "reading"
  /\ UNCHANGED <<fixedVars, hostVars, enumeration, foreign, orphans, panes, live, lost,
                 result, begun, steady, warnings>>

\* What a sweep has gathered goes with it.
EndSweep ==
  /\ stage' = "idle"
  /\ toRead' = {} /\ entries' = {} /\ panes' = {} /\ live' = {} /\ lost' = {}
  /\ begun' = 0 /\ steady' = {}

\* A directory or a file that is there and cannot be read ends the sweep.
ReadFails ==
  /\ stage = "reading"
  /\ EndSweep
  /\ UNCHANGED <<fixedVars, hostVars, enumeration, foreign, orphans, result, warnings>>

Distance(a, b) == IF a >= b THEN a - b ELSE b - a

\* Mutant: any process with that pid will do.
PidIsAlive(entry) == entry.interactive /\ process[entry.pid] # None

\* is_live; the OS may date the start of a process a little later than the
\* program itself did.
IsLive(entry) ==
  /\ entry.interactive
  /\ process[entry.pid] # None
  /\ Distance(entry.started, process[entry.pid].started + Skew)
       <= PROC_START_TOLERANCE_SECS

\* What tmux lists of the panes: not those that are closed, and nothing at
\* all when there is no server or no answer in time.
PaneListings == SUBSET {p.pane : p \in panes}

\* Mutant: any pane that is listed will do.
AnyTarget(pid, listing) == IF listing = {} THEN None ELSE CHOOSE pane \in listing : TRUE

ResolveTarget(pid, listing) ==
  IF \E p \in panes : p.pid = pid /\ p.pane \in listing
    THEN (CHOOSE p \in panes : p.pid = pid /\ p.pane \in listing).pane
    ELSE None

OrphanPids == live \ {entry.pid : entry \in entries}

\* When the processes were seen that a sweep knows of.
SightedAt == IF agent = "claude" THEN enumeration.at ELSE begun

\* A process that took over the pid since is not the one that is reported.
IsSighted(pid) == process[pid] # None => process[pid].started <= SightedAt

WarnOrphans ==
  IF agent = "claude" /\ override = {}
    THEN /\ orphans' = Remembered(OrphanPids, live, orphans)
         /\ warnings' = [pid \in Pids |->
              IF pid \in NewPids(OrphanPids, live, orphans) /\ IsSighted(pid)
                THEN warnings[pid] + 1 ELSE warnings[pid]]
    ELSE UNCHANGED <<orphans, warnings>>

\* The rest of sweep::sweep.
Translate ==
  /\ stage = "read"
  /\ WarnOrphans
  /\ \E listing \in PaneListings :
       result' = [sessions |->
         {[pid |-> entry.pid, started |-> entry.started,
           target |-> ResolveTarget(entry.pid, listing)] :
            entry \in {e \in entries : IsLive(e)}}]
  /\ EndSweep
  /\ UNCHANGED <<fixedVars, hostVars, enumeration, foreign>>

-----------------------------------------------------------------------------
RegistryInit ==
  /\ agent \in Agents
  /\ platform \in Platforms
  /\ override \in Overrides
  /\ clock = 0
  /\ process = [pid \in Pids |-> None]
  /\ freed = [pid \in Pids |-> 0 - ReuseGap]
  /\ file = [dir \in Dirs |-> [pid \in Pids |-> None]]
  /\ enumeration = None
  /\ foreign = {} /\ orphans = {}
  /\ stage = "idle"
  /\ toRead = {} /\ entries = {} /\ panes = {} /\ live = {} /\ lost = {}
  /\ result = None
  /\ begun = 0
  /\ steady = {}
  /\ warnings = [pid \in Pids |-> 0]

RegistryNext ==
  \/ \E pid \in Pids, program \in Programs : StartProcess(pid, program)
  \/ \E pid \in Pids : ExitProcess(pid) \/ WriteFile(pid)
  \/ RegistryTick
  \/ DiscoverCached \/ Discover \/ DiscoverFails
  \/ ReadDirectory \/ ReadFails \/ Translate

RegistrySpec == RegistryInit /\ [][RegistryNext]_registryVars

-----------------------------------------------------------------------------
\* A sweep that has succeeded in this step.
Swept == stage = "read" /\ stage' = "idle"

\* What a sweep reports was running when it looked: a pid given to another
\* process since the file was written, or a claim written again after its
\* process shut down, brings no session back (registry.rs: is_live).
ReportedSessionsRun ==
  [][Swept => \A s \in result'.sessions :
       process[s.pid] # None /\ process[s.pid].started = s.started]_registryVars

\* The environments that say where a program keeps its file.
NamesDir(program) ==
  LET home == program.home \in Homes \cup {"unset"}
  IN  \/ program.setting \in Dirs
      \/ program.setting = "unset" /\ home
      \/ program.agent = "pi" /\ program.setting = "tilde" /\ home
      \/ program.agent = "pi" /\ program.setting = "relative"

\* The sessions a sweep has to find: those that have been on file since it
\* began and are older than the enumeration it uses, of programs whose
\* environment is readable or fails the sweep and names a directory, and whose
\* working directory, where the name is below it, could be looked up.
Due ==
  {s \in steady :
     LET program == process[s.pid].program
     IN  /\ program.agent = agent
         /\ program.mine
         /\ IF override = {}
              THEN /\ program.readable \/ agent = "claude" \/ platform = "linux"
                   /\ NamesDir(program)
                   /\ s.pid \notin lost
              ELSE OwnDir(program) \in override}

\* A sweep either fails or reports every session it has to find, wherever the
\* session's environment keeps its registry (discovery.rs: a read failure must
\* never become a shorter list; main.rs: refusing to publish).
SettledSessionsAreFound ==
  [][Swept => \A s \in Due : \E found \in result'.sessions :
       found.pid = s.pid /\ found.started = s.started]_registryVars

\* A session that ran when the panes were seen is given its own pane or none,
\* however old the enumeration is by now and whichever panes tmux still lists;
\* what the join by pid can mix up is only a session that came after it.
SightedSessionsGetOwnPane ==
  [][Swept => \A s \in result'.sessions :
       s.target # None /\ s.started <= SightedAt => s.target = s.started]_registryVars

\* A process is reported as an orphan once, however many sweeps find it
\* without a file, however its file comes and goes and whoever had its pid
\* before (sweep.rs:257).
OrphanWarnedOnce == \A pid \in Pids : warnings[pid] <= 1
=============================================================================
