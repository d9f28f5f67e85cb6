---------------------------- MODULE SourceProofs ----------------------------
(***************************************************************************)
(* What holds of the watcher's sources for any processes, programs,        *)
(* directories and times: first the registries of Claude and Pi, then the  *)
(* writer locks of Codex, then what is read from a line of ps.             *)
(***************************************************************************)
EXTENDS Registry, CodexSource, ProcessLines, SequenceTheorems, TLAPS


(***************************************************************************)
(* Directories are told from environments: whatever an environment says,   *)
(* the directory to be read is one.                                        *)
(***************************************************************************)
LEMMA DirsAreDirs ==
  ASSUME NEW a \in Agents, NEW found \in SUBSET Sightings
  PROVE  UnionDiscovery(a, found) \subseteq Dirs
<1>. USE DiscoveryAssumption DEF DiscoveryAssumption
<1>1. DefaultConfigDir \in Dirs
  BY DEF DefaultConfigDir
<1>2. ASSUME NEW program \in ProgramFields
      PROVE  DirOf(a, program) \in Dirs
  <2>1. program.home \in HomeSettings /\ program.below \in Dirs \cup {None}
    BY DEF ProgramFields
  <2>2. ResolveProcessConfigDir(program) \in Dirs
    BY <1>1 DEF ResolveProcessConfigDir, DefaultConfigDirFor
  <2>3. PiHome(program) \in Homes
    BY DEF PiHome
  <2>4. ResolveAgentDir(program) \in Dirs \cup {None}
    <3>1. CASE program.setting \in Dirs
      BY <3>1 DEF ResolveAgentDir
    <3>2. CASE program.setting \notin Dirs /\ program.setting = "tilde"
      BY <2>3, <3>2 DEF ResolveAgentDir
    <3>3. CASE program.setting \notin Dirs /\ program.setting = "relative"
      BY <2>1, <3>3 DEF ResolveAgentDir
    <3>4. CASE program.setting \notin Dirs \cup {"tilde", "relative"}
      BY <3>4 DEF ResolveAgentDir
    <3>. QED
      BY <3>1, <3>2, <3>3, <3>4
  <2>5. PiDir(program) \in Dirs
    BY <2>3, <2>4 DEF PiDir
  <2>. QED
    BY <2>2, <2>5 DEF DirOf
<1>3. \A s \in found : s.program \in ProgramFields
  BY DEF Sightings
<1>. QED
  BY <1>1, <1>2, <1>3 DEF UnionDiscovery

(***************************************************************************)
(* An enumeration is made of sightings.                                    *)
(***************************************************************************)
LEMMA EnumeratedType ==
  ASSUME RegistryTypeOK, NEW seen \in SUBSET Pids, NEW unknown
  PROVE  Enumerated(agent, seen, process, unknown) \in SUBSET Sightings
<1>. SUFFICES ASSUME NEW pid \in Pids, process[pid] # None
              PROVE  Sighting(pid, process, unknown) \in Sightings
  BY DEF Enumerated, OfAgent
<1>1. process[pid].program \in ProgramFields /\ process[pid].started \in Int
  BY DiscoveryAssumption DEF RegistryTypeOK, Processes, Times, DiscoveryAssumption
<1>2. /\ Opaque(process[pid].program) \in ProgramFields
      /\ [process[pid].program EXCEPT !.below = None] \in ProgramFields
  BY <1>1 DEF Opaque, ProgramFields, Settings, HomeSettings
<1>. QED
  BY <1>1, <1>2 DEF Sighting, Sightings

(***************************************************************************)
(* What a sweep begins with is well typed.                                 *)
(***************************************************************************)
LEMMA BeginType ==
  ASSUME RegistryTypeOK, NEW found \in SUBSET Sightings, NEW unknown \in SUBSET Pids,
         BeginReading(found, unknown)
  PROVE  /\ stage' \in Stages /\ toRead' \subseteq Dirs /\ entries' \subseteq Entries
         /\ panes' \subseteq [pid : Pids, pane : Times] /\ live' \subseteq Pids
         /\ lost' \subseteq Pids /\ begun' \in Nat
<1>1. toRead' \subseteq Dirs
  BY DirsAreDirs, RegistryAssumption
  DEF BeginReading, RegistryTypeOK, RegistryAssumption
<1>2. panes' \subseteq [pid : Pids, pane : Times] /\ live' \subseteq Pids
  BY DEF BeginReading, TmuxPanes, LivePids, Sightings, Times
<1>. QED
  BY <1>1, <1>2 DEF BeginReading, Stages, RegistryTypeOK

(***************************************************************************)
(* The host, the sweep and the watcher's caches are well typed.            *)
(***************************************************************************)
THEOREM RegistryTypeCorrect == RegistrySpec => []RegistryTypeOK
<1>1. RegistryInit => RegistryTypeOK
  BY RegistryAssumption
  DEF RegistryInit, RegistryTypeOK, RegistryAssumption, Times, FileStates, Stages
<1>2. ASSUME RegistryTypeOK, [RegistryNext]_registryVars
      PROVE  RegistryTypeOK'
  <2>. USE <1>2 DEF RegistryTypeOK, fixedVars, hostVars, sweepVars
  <2>1. ASSUME NEW pid \in Pids, NEW program \in Programs, StartProcess(pid, program)
        PROVE  RegistryTypeOK'
    BY <2>1 DEF StartProcess, Processes, Times
  <2>2. ASSUME NEW pid \in Pids, ExitProcess(pid)
        PROVE  RegistryTypeOK'
    BY <2>2 DEF ExitProcess, Times
  <2>3. ASSUME NEW pid \in Pids, WriteFile(pid)
        PROVE  RegistryTypeOK'
    <3>1. process[pid].started \in Times /\ process[pid].program.interactive \in BOOLEAN
      BY <2>3, DiscoveryAssumption DEF WriteFile, Processes, ProgramFields, DiscoveryAssumption
    <3>2. PICK content :
            /\ content \in {[started |-> process[pid].started,
                            interactive |-> process[pid].program.interactive], Garbled, None}
            /\ file' = [file EXCEPT ![OwnDir(process[pid].program)][pid] = content]
      BY <2>3 DEF WriteFile
    <3>3. content \in FileStates
      BY <3>1, <3>2 DEF FileStates
    <3>4. file' \in [Dirs -> [Pids -> FileStates]]
      BY <3>2, <3>3
    <3>. QED
      BY <2>3, <3>4 DEF WriteFile
  <2>4. CASE RegistryTick
    BY <2>4 DEF RegistryTick
  <2>5. CASE DiscoverCached
    <3>1. enumeration.found \in SUBSET Sightings
      BY <2>5 DEF DiscoverCached, Cached, FreshEntry
    <3>2. BeginReading(enumeration.found, {})
      BY <2>5 DEF DiscoverCached
    <3>3. /\ stage' \in Stages /\ toRead' \subseteq Dirs /\ entries' \subseteq Entries
          /\ panes' \subseteq [pid : Pids, pane : Times] /\ live' \subseteq Pids
          /\ lost' \subseteq Pids /\ begun' \in Nat
      <4>1. PICK found \in SUBSET Sightings, unknown \in SUBSET Pids :
              BeginReading(found, unknown)
        BY <3>1, <3>2
      <4>. QED
        BY <4>1, BeginType
    <3>. QED
      BY <2>5, <3>2, <3>3 DEF DiscoverCached, BeginReading
  <2>6. CASE Discover
    <3>1. PICK seen \in SUBSET Pids, unknown \in SUBSET WantsCwd(agent, process) :
            /\ BeginReading(Enumerated(agent, seen, process, unknown), unknown)
            /\ IF agent = "claude"
                 THEN /\ enumeration' = [at |-> clock,
                                         found |-> Enumerated(agent, seen, process, unknown)]
                      /\ foreign' = Remembered(ForeignUid(agent, process) \cap seen,
                                               ForeignUid(agent, process) \cap seen, foreign)
                 ELSE UNCHANGED <<enumeration, foreign>>
      BY <2>6 DEF Discover
    <3>2. /\ Enumerated(agent, seen, process, unknown) \in SUBSET Sightings
          /\ unknown \in SUBSET Pids
      BY EnumeratedType DEF WantsCwd, OfAgent
    <3>3. foreign' \subseteq Pids
      BY <3>1 DEF Remembered
    <3>4. enumeration' \in [at : Nat, found : SUBSET Sightings] \cup {None}
      BY <3>1, <3>2
    <3>. QED
      BY <3>1, <3>2, <3>3, <3>4, BeginType DEF BeginReading
  <2>7. CASE DiscoverFails
    BY <2>7, BeginType DEF DiscoverFails, BeginReading
  <2>8. CASE ReadDirectory
    <3>1. ASSUME NEW dir \in toRead
          PROVE  EntriesIn(dir) \subseteq Entries
      BY <3>1 DEF EntriesIn, Entries, FileStates, Times
    <3>. QED
      BY <2>8, <3>1 DEF ReadDirectory, Stages
  <2>9. CASE ReadFails
    BY <2>9 DEF ReadFails, EndSweep, Stages
  <2>10. CASE Translate
    <3>1. orphans' \subseteq Pids /\ warnings' \in [Pids -> Nat]
      <4>1. orphans' \subseteq Pids
        BY <2>10 DEF Translate, WarnOrphans, Remembered, OrphanPids
      <4>2. \A pid \in Pids : warnings[pid] \in Nat /\ warnings[pid] + 1 \in Nat
        OBVIOUS
      <4>3. warnings' \in [Pids -> Nat]
        <5>1. CASE agent = "claude" /\ override = {}
          BY <2>10, <4>2, <5>1 DEF Translate, WarnOrphans
        <5>2. CASE ~(agent = "claude" /\ override = {})
          BY <2>10, <5>2 DEF Translate, WarnOrphans
        <5>. QED
          BY <5>1, <5>2
      <4>. QED
        BY <4>1, <4>3
    <3>. QED
      BY <2>10, <3>1 DEF Translate, EndSweep, Stages
  <2>11. CASE UNCHANGED registryVars
    BY <2>11 DEF registryVars
  <2>. QED
    BY <2>1, <2>2, <2>3, <2>4, <2>5, <2>6, <2>7, <2>8, <2>9, <2>10, <2>11 DEF RegistryNext
<1>. QED
  BY <1>1, <1>2, PTL DEF RegistrySpec

-----------------------------------------------------------------------------
(***************************************************************************)
(* A pid is not given out again for a while: its process, if there is one, *)
(* started that much later than the last one ended.                        *)
(***************************************************************************)
PidsRest ==
  /\ \A pid \in Pids : freed[pid] <= clock
  /\ \A pid \in Pids : process[pid] # None =>
       freed[pid] + ReuseGap <= process[pid].started /\ process[pid].started <= clock

(***************************************************************************)
(* Pids rest.                                                              *)
(***************************************************************************)
LEMMA PidsRestInvariant == RegistrySpec => []PidsRest
<1>. USE RegistryAssumption DEF RegistryAssumption, PidsRest
<1>1. RegistryInit => PidsRest
  BY DEF RegistryInit
<1>2. ASSUME RegistryTypeOK, PidsRest, [RegistryNext]_registryVars
      PROVE  PidsRest'
  <2>. USE <1>2 DEF RegistryTypeOK, hostVars, Times
  <2>1. ASSUME NEW pid \in Pids, NEW program \in Programs, StartProcess(pid, program)
        PROVE  PidsRest'
    BY <2>1 DEF StartProcess
  <2>2. ASSUME NEW pid \in Pids, ExitProcess(pid)
        PROVE  PidsRest'
    BY <2>2 DEF ExitProcess
  <2>3. CASE RegistryTick
    BY <2>3 DEF RegistryTick, Processes
  <2>4. CASE UNCHANGED hostVars
    BY <2>4
  <2>5. UNCHANGED hostVars \/ RegistryTick
          \/ (\E pid \in Pids : ExitProcess(pid) \/ WriteFile(pid))
          \/ \E pid \in Pids, program \in Programs : StartProcess(pid, program)
    BY DEF RegistryNext, DiscoverCached, Discover, DiscoverFails, BeginReading,
           ReadDirectory, ReadFails, Translate, registryVars
  <2>6. ASSUME NEW pid \in Pids, WriteFile(pid)
        PROVE  PidsRest'
    BY <2>6 DEF WriteFile
  <2>. QED
    BY <2>1, <2>2, <2>3, <2>4, <2>5, <2>6
<1>. QED
  BY <1>1, <1>2, RegistryTypeCorrect, PTL DEF RegistrySpec

-----------------------------------------------------------------------------
(***************************************************************************)
(* What is on file under a pid, or has been read, was written by the       *)
(* process that has it, or by one that had given it back by the last time  *)
(* that it was given back.                                                 *)
(***************************************************************************)
Written(pid, started) ==
  \/ started <= freed[pid]
  \/ process[pid] # None /\ process[pid].started = started

FilesAreWritten ==
  /\ \A dir \in Dirs, pid \in Pids :
       file[dir][pid] \notin {None, Garbled} => Written(pid, file[dir][pid].started)
  /\ \A entry \in entries : Written(entry.pid, entry.started)

(***************************************************************************)
(* What was written stays written while processes come and go.             *)
(***************************************************************************)
LEMMA WrittenStays ==
  ASSUME RegistryTypeOK, PidsRest, [RegistryNext]_registryVars,
         NEW pid \in Pids, NEW started \in Times, Written(pid, started)
  PROVE  Written(pid, started)'
<1>. USE RegistryAssumption DEF RegistryAssumption, RegistryTypeOK, Written, Times
<1>1. ASSUME NEW p \in Pids, NEW program \in Programs, StartProcess(p, program)
      PROVE  Written(pid, started)'
  BY <1>1 DEF StartProcess
<1>2. ASSUME NEW p \in Pids, ExitProcess(p)
      PROVE  Written(pid, started)'
  BY <1>2 DEF ExitProcess, PidsRest, Processes
<1>3. CASE UNCHANGED <<process, freed>>
  BY <1>3
<1>4. UNCHANGED <<process, freed>> \/ (\E p \in Pids : ExitProcess(p))
        \/ \E p \in Pids, program \in Programs : StartProcess(p, program)
  BY DEF RegistryNext, RegistryTick, WriteFile, DiscoverCached, Discover, DiscoverFails,
         BeginReading, ReadDirectory, ReadFails, Translate, registryVars, hostVars
<1>. QED
  BY <1>1, <1>2, <1>3, <1>4

(***************************************************************************)
(* A file was written by its process, and an entry is what a file said.    *)
(***************************************************************************)
LEMMA FilesAreWrittenInvariant == RegistrySpec => []FilesAreWritten
<1>1. RegistryInit => FilesAreWritten
  BY DEF RegistryInit, FilesAreWritten
<1>2. ASSUME RegistryTypeOK, RegistryTypeOK', PidsRest, FilesAreWritten,
             [RegistryNext]_registryVars
      PROVE  FilesAreWritten'
  <2>1. ASSUME NEW pid \in Pids, NEW started \in Times, Written(pid, started)
        PROVE  Written(pid, started)'
    BY <1>2, <2>1, WrittenStays
  <2>2. ASSUME NEW dir \in Dirs, NEW pid \in Pids, file[dir][pid] \notin {None, Garbled}
        PROVE  \E started \in Times : started = file[dir][pid].started /\ Written(pid, started)'
    <3>1. file[dir][pid].started \in Times
      BY <1>2, <2>2 DEF RegistryTypeOK, FileStates
    <3>. QED
      BY <1>2, <2>1, <2>2, <3>1 DEF FilesAreWritten
  <2>3. ASSUME NEW dir \in Dirs, NEW pid \in Pids, file'[dir][pid] \notin {None, Garbled}
        PROVE  Written(pid, file[dir][pid].started)'
    <3>1. CASE file'[dir][pid] = file[dir][pid]
      BY <2>2, <2>3, <3>1 DEF Written
    <3>2. ASSUME NEW p \in Pids, WriteFile(p), file'[dir][pid] # file[dir][pid]
          PROVE  Written(pid, file[dir][pid].started)'
      <4>1. PICK content :
              /\ content \in {[started |-> process[p].started,
                              interactive |-> process[p].program.interactive], Garbled, None}
              /\ file' = [file EXCEPT ![OwnDir(process[p].program)][p] = content]
        BY <3>2 DEF WriteFile
      <4>2. p = pid /\ file'[dir][pid] = content
        BY <1>2, <3>2, <4>1 DEF RegistryTypeOK
      <4>3. file'[dir][pid].started = process[pid].started
        BY <2>3, <4>1, <4>2
      <4>. QED
        BY <3>2, <4>2, <4>3 DEF WriteFile, Written
    <3>3. file'[dir][pid] = file[dir][pid] \/ \E p \in Pids : WriteFile(p)
      BY <1>2 DEF RegistryNext, StartProcess, ExitProcess, RegistryTick, DiscoverCached,
         Discover, DiscoverFails, BeginReading, ReadDirectory, ReadFails, Translate,
         registryVars, hostVars
    <3>. QED
      BY <3>1, <3>2, <3>3
  <2>4. ASSUME NEW entry \in entries'
        PROVE  Written(entry.pid, entry.started)'
    <3>1. CASE entry \in entries
      <4>1. entry.pid \in Pids /\ entry.started \in Times
        BY <1>2, <3>1 DEF RegistryTypeOK, Entries
      <4>. QED
        BY <1>2, <2>1, <3>1, <4>1 DEF FilesAreWritten
    <3>2. CASE ReadDirectory /\ entry \notin entries
      <4>1. PICK dir \in Dirs : entry \in EntriesIn(dir)
        BY <1>2, <2>4, <3>2 DEF ReadDirectory, RegistryTypeOK
      <4>2. PICK pid \in Pids : /\ file[dir][pid] \notin {None, Garbled}
                                /\ entry.pid = pid /\ entry.started = file[dir][pid].started
        BY <4>1 DEF EntriesIn
      <4>3. Written(pid, file[dir][pid].started)
        BY <1>2, <4>2 DEF FilesAreWritten
      <4>. QED
        BY <3>2, <4>2, <4>3 DEF ReadDirectory, hostVars, Written
    <3>3. entry \in entries \/ ReadDirectory
      BY <1>2, <2>4 DEF RegistryNext, StartProcess, ExitProcess, WriteFile, RegistryTick,
         DiscoverCached, Discover, DiscoverFails, BeginReading, ReadFails, Translate, EndSweep,
         registryVars, sweepVars
    <3>. QED
      BY <3>1, <3>2, <3>3
  <2>. QED
    BY <2>3, <2>4 DEF FilesAreWritten
<1>. QED
  BY <1>1, <1>2, RegistryTypeCorrect, PidsRestInvariant, PTL DEF RegistrySpec

(***************************************************************************)
(* An entry passes for alive only if the process that wrote it still runs: *)
(* one that has the pid since started more than the tolerance later.       *)
(***************************************************************************)
LEMMA LiveEntriesRun ==
  ASSUME RegistryTypeOK, PidsRest, FilesAreWritten, NEW entry \in entries, IsLive(entry)
  PROVE  process[entry.pid] # None /\ process[entry.pid].started = entry.started
<1>1. entry.pid \in Pids /\ entry.started \in Int
  BY DEF RegistryTypeOK, Entries, Times
<1>2. process[entry.pid] # None /\ process[entry.pid].started \in Int /\ freed[entry.pid] \in Int
  BY <1>1 DEF IsLive, RegistryTypeOK, Processes, Times
<1>3. freed[entry.pid] + ReuseGap <= process[entry.pid].started
  BY <1>1, <1>2 DEF PidsRest
<1>4. ~(entry.started <= freed[entry.pid])
  BY <1>1, <1>2, <1>3, RegistryAssumption DEF IsLive, Distance, RegistryAssumption
<1>. QED
  BY <1>1, <1>2, <1>4 DEF FilesAreWritten, Written

(***************************************************************************)
(* A sweep that succeeds is a translation.                                 *)
(***************************************************************************)
LEMMA SweptIsTranslated ==
  ASSUME [RegistryNext]_registryVars, Swept
  PROVE  Translate
BY DEF Swept, RegistryNext, StartProcess, ExitProcess, WriteFile, RegistryTick,
       DiscoverCached, Discover, DiscoverFails, BeginReading, ReadDirectory, ReadFails,
       registryVars, sweepVars

(***************************************************************************)
(* What a sweep reports was running when it looked, for any tolerance      *)
(* smaller than the time a pid rests.                                      *)
(***************************************************************************)
THEOREM SweepsReportTheLiving == RegistrySpec => ReportedSessionsRun
<1>1. ASSUME RegistryTypeOK, PidsRest, FilesAreWritten, [RegistryNext]_registryVars, Swept,
             NEW s \in result'.sessions
      PROVE  process[s.pid] # None /\ process[s.pid].started = s.started
  <2>1. PICK entry \in entries : IsLive(entry) /\ entry.pid = s.pid /\ entry.started = s.started
    BY <1>1, SweptIsTranslated DEF Translate
  <2>. QED
    BY <1>1, <2>1, LiveEntriesRun
<1>2. RegistryTypeOK /\ PidsRest /\ FilesAreWritten /\ [RegistryNext]_registryVars
        => [Swept => \A s \in result'.sessions :
              process[s.pid] # None /\ process[s.pid].started = s.started]_registryVars
  BY <1>1
<1>. QED
  BY <1>2, RegistryTypeCorrect, PidsRestInvariant, FilesAreWrittenInvariant, PTL
  DEF RegistrySpec, ReportedSessionsRun

-----------------------------------------------------------------------------
(***************************************************************************)
(* What was seen of a process at some time is true of it as long as its    *)
(* pid has not been given back since.                                      *)
(***************************************************************************)
Sighted(s, at) ==
  \E proc \in Processes :
    /\ proc.started <= at
    /\ proc.program.agent = agent
    /\ proc.program.mine \/ proc.program.readable
    /\ s.pane \in {None, proc.started}
    /\ freed[s.pid] >= at \/ (process[s.pid] # None /\ process[s.pid] = proc)

EnumerationIsSighted ==
  enumeration # None =>
    enumeration.at <= clock /\ \A s \in enumeration.found : Sighted(s, enumeration.at)

Warns == agent = "claude" /\ override = {}

\* A sweep uses the panes and pids of the enumeration it dates from.
PanesWereSeen ==
  stage # "idle" =>
    /\ begun <= clock
    /\ panes # {} => /\ agent = "claude" => enumeration # None
                     /\ \A p \in panes : Sighted(p, SightedAt)
    /\ Warns => enumeration # None /\ live = LivePids(enumeration.found)

(***************************************************************************)
(* What was seen stays true while processes come and go.                   *)
(***************************************************************************)
LEMMA SightedStays ==
  ASSUME RegistryTypeOK, [RegistryNext]_registryVars,
         NEW s, s.pid \in Pids, NEW at \in Int, at <= clock,
         Sighted(s, at)
  PROVE  Sighted(s, at)'
<1>. USE DEF RegistryTypeOK, Times
<1>1. PICK proc \in Processes :
        /\ proc.started <= at
        /\ proc.program.agent = agent
        /\ proc.program.mine \/ proc.program.readable
        /\ s.pane \in {None, proc.started}
        /\ freed[s.pid] >= at \/ (process[s.pid] # None /\ process[s.pid] = proc)
  BY DEF Sighted
<1>2. agent' = agent
  BY DEF RegistryNext, StartProcess, ExitProcess, WriteFile, RegistryTick, DiscoverCached,
     Discover, DiscoverFails, BeginReading, ReadDirectory, ReadFails, Translate,
     registryVars, fixedVars
<1>3. freed'[s.pid] >= at \/ (process'[s.pid] # None /\ process'[s.pid] = proc)
  <2>1. ASSUME NEW p \in Pids, NEW program \in Programs, StartProcess(p, program)
        PROVE  freed'[s.pid] >= at \/ (process'[s.pid] # None /\ process'[s.pid] = proc)
    BY <1>1, <2>1 DEF StartProcess
  <2>2. ASSUME NEW p \in Pids, ExitProcess(p)
        PROVE  freed'[s.pid] >= at \/ (process'[s.pid] # None /\ process'[s.pid] = proc)
    BY <1>1, <2>2 DEF ExitProcess
  <2>3. UNCHANGED <<process, freed>> \/ (\E p \in Pids : ExitProcess(p))
          \/ \E p \in Pids, program \in Programs : StartProcess(p, program)
    BY DEF RegistryNext, RegistryTick, WriteFile, DiscoverCached, Discover, DiscoverFails,
           BeginReading, ReadDirectory, ReadFails, Translate, registryVars, hostVars
  <2>. QED
    BY <1>1, <2>1, <2>2, <2>3
<1>. QED
  BY <1>1, <1>2, <1>3 DEF Sighted

(***************************************************************************)
(* An enumeration says what is true when it is made.                       *)
(***************************************************************************)
LEMMA EnumeratedIsSighted ==
  ASSUME RegistryTypeOK, PidsRest, NEW seen \in SUBSET Pids, NEW unknown,
         NEW s \in Enumerated(agent, seen, process, unknown)
  PROVE  s.pid \in Pids /\ process[s.pid] # None /\ Sighted(s, clock)
<1>1. PICK pid \in Pids : /\ process[pid] # None
                          /\ process[pid].program.agent = agent
                          /\ process[pid].program.mine \/ process[pid].program.readable
                          /\ s = Sighting(pid, process, unknown)
  BY DEF Enumerated, OfAgent, ForeignUid
<1>2. s.pid = pid /\ s.pane \in {None, process[pid].started}
  BY <1>1 DEF Sighting
<1>3. process[pid] \in Processes /\ process[pid].started <= clock
  BY <1>1 DEF RegistryTypeOK, PidsRest
<1>. QED
  BY <1>1, <1>2, <1>3 DEF Sighted

(***************************************************************************)
(* What was seen of a pid is true of its process, unless that one started  *)
(* since: pids rest, so nothing had it before in the same moment.          *)
(***************************************************************************)
LEMMA SightedIsCurrent ==
  ASSUME RegistryTypeOK, PidsRest, NEW at \in Int,
         NEW s, s.pid \in Pids, Sighted(s, at), process[s.pid] # None,
         process[s.pid].started <= at
  PROVE  /\ process[s.pid].program.agent = agent
         /\ process[s.pid].program.mine \/ process[s.pid].program.readable
         /\ s.pane \in {None, process[s.pid].started}
<1>1. ~(freed[s.pid] >= at)
  <2>1. process[s.pid].started \in Int /\ freed[s.pid] \in Int
    BY DEF RegistryTypeOK, Processes, Times
  <2>2. freed[s.pid] + ReuseGap <= process[s.pid].started
    BY DEF PidsRest
  <2>. QED
    BY <2>1, <2>2, RegistryAssumption DEF RegistryAssumption
<1>. QED
  BY <1>1 DEF Sighted

(***************************************************************************)
(* The cached enumeration stays true.                                      *)
(***************************************************************************)
LEMMA EnumerationInvariant == RegistrySpec => []EnumerationIsSighted
<1>1. RegistryInit => EnumerationIsSighted
  BY DEF RegistryInit, EnumerationIsSighted
<1>2. ASSUME RegistryTypeOK, RegistryTypeOK', PidsRest, EnumerationIsSighted,
             [RegistryNext]_registryVars
      PROVE  EnumerationIsSighted'
  <2>1. clock \in Int /\ clock' \in Int /\ clock <= clock'
    <3>1. clock' = clock \/ clock' = clock + 1
      BY <1>2 DEF RegistryNext, StartProcess, ExitProcess, WriteFile, RegistryTick,
         DiscoverCached, Discover, DiscoverFails, BeginReading, ReadDirectory, ReadFails,
         Translate, registryVars, hostVars
    <3>. QED
      BY <1>2, <3>1 DEF RegistryTypeOK
  <2>2. CASE UNCHANGED enumeration /\ enumeration # None
    <3>1. PICK at \in Int : at = enumeration.at /\ at <= clock
      BY <1>2, <2>2 DEF RegistryTypeOK, EnumerationIsSighted
    <3>2. ASSUME NEW s \in enumeration.found
          PROVE  Sighted(s, at)'
      <4>1. s.pid \in Pids /\ Sighted(s, at)
        BY <1>2, <2>2, <3>1 DEF RegistryTypeOK, Sightings, EnumerationIsSighted
      <4>. QED
        BY <1>2, <3>1, <4>1, SightedStays
    <3>3. \A s \in enumeration'.found : Sighted(s, at)'
      BY <2>2, <3>2
    <3>. QED
      BY <2>1, <2>2, <3>1, <3>3 DEF EnumerationIsSighted, Sighted
  <2>3. CASE Discover /\ agent = "claude"
    <3>1. PICK seen \in SUBSET Pids, unknown \in SUBSET WantsCwd(agent, process) :
            enumeration' = [at |-> clock, found |-> Enumerated(agent, seen, process, unknown)]
      BY <2>3 DEF Discover
    <3>2. UNCHANGED <<hostVars, fixedVars>>
      BY <2>3 DEF Discover, BeginReading
    <3>3. ASSUME NEW s \in Enumerated(agent, seen, process, unknown)
          PROVE  Sighted(s, clock)
      BY <1>2, <3>3, EnumeratedIsSighted
    <3>. QED
      BY <2>1, <3>1, <3>2, <3>3 DEF EnumerationIsSighted, Sighted, hostVars, fixedVars
  <2>4. UNCHANGED enumeration \/ (Discover /\ agent = "claude")
    <3>1. Discover => enumeration' = enumeration \/ agent = "claude"
      <4>. SUFFICES ASSUME Discover, agent # "claude" PROVE enumeration' = enumeration
        OBVIOUS
      <4>1. UNCHANGED <<enumeration, foreign>>
        BY DEF Discover
      <4>. QED
        BY <4>1
    <3>2. enumeration' = enumeration \/ Discover
      BY <1>2 DEF RegistryNext, StartProcess, ExitProcess, WriteFile, RegistryTick,
         DiscoverCached, DiscoverFails, ReadDirectory, ReadFails, Translate, registryVars
    <3>. QED
      BY <3>1, <3>2, Zenon
  <2>. QED
    BY <2>2, <2>3, <2>4 DEF EnumerationIsSighted
<1>. QED
  BY <1>1, <1>2, RegistryTypeCorrect, PidsRestInvariant, PTL DEF RegistrySpec

\* What was seen of a process was seen of the pane found with it.
LEMMA PanesAreSighted ==
  ASSUME NEW found, NEW at, \A s \in found : Sighted(s, at),
         NEW p \in TmuxPanes(found)
  PROVE  Sighted(p, at)
<1>1. PICK s \in found : p = [pid |-> s.pid, pane |-> s.pane]
  BY DEF TmuxPanes
<1>2. p.pid = s.pid /\ p.pane = s.pane
  BY <1>1
<1>3. Sighted(s, at)
  OBVIOUS
<1>. QED
  BY <1>2, <1>3 DEF Sighted

(***************************************************************************)
(* A sweep begins with what an enumeration has found, and with its date.   *)
(***************************************************************************)
LEMMA SweepBegins ==
  ASSUME RegistryTypeOK, RegistryTypeOK', PidsRest, EnumerationIsSighted,
         DiscoverCached \/ Discover \/ DiscoverFails
  PROVE  PanesWereSeen'
<1>. USE RegistryAssumption DEF RegistryAssumption, RegistryTypeOK
<1>1. ASSUME NEW found, NEW unknown, BeginReading(found, unknown), NEW at,
             \A s \in found : Sighted(s, at),
             found # {} => at = IF agent = "claude" THEN enumeration'.at ELSE clock,
             agent = "claude" /\ found # {} => enumeration' # None,
             Warns => enumeration' # None /\ enumeration'.found = found
      PROVE  PanesWereSeen'
  <2>1. begun' = clock /\ clock' = clock /\ live' = LivePids(found) /\ panes' = TmuxPanes(found)
        /\ UNCHANGED <<process, freed, agent, override>>
    BY <1>1 DEF BeginReading, hostVars, fixedVars
  <2>2. \A p \in TmuxPanes(found) : Sighted(p, at)
    BY <1>1, PanesAreSighted
  <2>3. \A p \in panes' : Sighted(p, at)'
    BY <2>1, <2>2 DEF Sighted
  <2>4. panes' # {} => found # {}
    BY <2>1 DEF TmuxPanes
  <2>5. panes' # {} => SightedAt' = at
    BY <1>1, <2>1, <2>4 DEF SightedAt
  <2>6. Warns' => enumeration' # None /\ live' = LivePids(enumeration'.found)
    BY <1>1, <2>1 DEF Warns
  <2>7. begun' <= clock'
    BY <2>1
  <2>. QED
    BY <1>1, <2>1, <2>3, <2>4, <2>5, <2>6, <2>7 DEF PanesWereSeen, Sighted
<1>2. CASE DiscoverCached
  <2>1. /\ BeginReading(enumeration.found, {}) /\ enumeration' = enumeration
        /\ enumeration # None /\ agent = "claude"
    BY <1>2 DEF DiscoverCached, Cached, FreshEntry
  <2>2. \A s \in enumeration.found : Sighted(s, enumeration.at)
    BY <2>1 DEF EnumerationIsSighted
  <2>. QED
    BY <1>1, <2>1, <2>2
<1>3. CASE Discover
  <2>1. PICK seen \in SUBSET Pids, unknown \in SUBSET WantsCwd(agent, process) :
          /\ BeginReading(Enumerated(agent, seen, process, unknown), unknown)
          /\ agent = "claude" =>
               enumeration' = [at |-> clock, found |-> Enumerated(agent, seen, process, unknown)]
    BY <1>3 DEF Discover
  <2>2. \A s \in Enumerated(agent, seen, process, unknown) : Sighted(s, clock)
    BY EnumeratedIsSighted
  <2>3. agent = "claude" => enumeration' # None
    <3>1. Enumerated(agent, seen, process, unknown) \in SUBSET Sightings
      BY EnumeratedType
    <3>2. [at |-> clock, found |-> Enumerated(agent, seen, process, unknown)] # None
      BY <3>1
    <3>. QED
      BY <2>1, <3>2
  <2>4. agent = "claude" =>
          /\ enumeration'.at = clock
          /\ enumeration'.found = Enumerated(agent, seen, process, unknown)
    BY <2>1
  <2>. QED
    BY <1>1, <2>1, <2>2, <2>3, <2>4 DEF Warns
<1>4. CASE DiscoverFails
  <2>1. CASE override = {}
    <3>1. UNCHANGED <<agent, override, begun, clock, panes, enumeration, live, stage,
                      process, freed>> /\ stage = "idle"
      BY <1>4, <2>1 DEF DiscoverFails, sweepVars, fixedVars, hostVars
    <3>. QED
      BY <3>1 DEF PanesWereSeen
  <2>2. CASE override # {}
    <3>1. BeginReading({}, {})
      BY <1>4, <2>2 DEF DiscoverFails
    <3>2. ~Warns
      BY <2>2 DEF Warns
    <3>3. PICK found, unknown : found = {} /\ unknown = {}
      OBVIOUS
    <3>4. BeginReading(found, unknown)
      BY <3>1, <3>3
    <3>5. /\ \A s \in found : Sighted(s, clock)
          /\ ~(found # {})
      BY <3>3
    <3>. QED
      BY <1>1, <3>2, <3>4, <3>5
  <2>. QED
    BY <2>1, <2>2
<1>. QED
  BY <1>2, <1>3, <1>4

(***************************************************************************)
(* What a sweep uses was seen when its enumeration was made, or was so     *)
(* until its pid was given back.                                           *)
(***************************************************************************)
LEMMA SweepInvariant == RegistrySpec => []PanesWereSeen
<1>1. RegistryInit => PanesWereSeen
  BY DEF RegistryInit, PanesWereSeen
<1>2. ASSUME RegistryTypeOK, RegistryTypeOK', PidsRest, EnumerationIsSighted, PanesWereSeen,
             [RegistryNext]_registryVars
      PROVE  PanesWereSeen'
  <2>1. CASE DiscoverCached \/ Discover \/ DiscoverFails
    BY <1>2, <2>1, SweepBegins
  <2>2. CASE stage' = "idle"
    BY <2>2 DEF PanesWereSeen
  <2>3. CASE /\ UNCHANGED <<fixedVars, enumeration, panes, live, begun>>
             /\ stage # "idle"
             /\ clock' \in {clock, clock + 1}
    <3>1. begun' <= clock' /\ begun <= clock
      BY <1>2, <2>3 DEF RegistryTypeOK, PanesWereSeen
    <3>2. /\ SightedAt' = SightedAt
          /\ panes # {} => SightedAt \in Int /\ SightedAt <= clock
      BY <1>2, <2>3, <3>1
      DEF SightedAt, fixedVars, PanesWereSeen, EnumerationIsSighted, RegistryTypeOK
    <3>3. PICK at : at = SightedAt
      OBVIOUS
    <3>4. ASSUME NEW p \in panes PROVE Sighted(p, at)'
      <4>1. p.pid \in Pids /\ Sighted(p, at) /\ at \in Int /\ at <= clock
        BY <1>2, <2>3, <3>2, <3>3, <3>4 DEF RegistryTypeOK, PanesWereSeen
      <4>. QED
        BY <1>2, <4>1, SightedStays
    <3>5. \A p \in panes : Sighted(p, SightedAt)'
      BY <3>2, <3>3, <3>4 DEF Sighted
    <3>6. Warns' => Warns
      BY <2>3 DEF Warns, fixedVars
    <3>. QED
      BY <1>2, <2>3, <3>1, <3>5, <3>6 DEF PanesWereSeen, fixedVars
  <2>4. stage' = "idle" \/ DiscoverCached \/ Discover \/ DiscoverFails
        \/ /\ UNCHANGED <<fixedVars, enumeration, panes, live, begun>>
           /\ stage # "idle"
           /\ clock' \in {clock, clock + 1}
    <3>. USE <1>2 DEF sweepVars, hostVars
    <3>1. ASSUME NEW pid \in Pids, ExitProcess(pid) \/ WriteFile(pid)
          PROVE  UNCHANGED <<fixedVars, enumeration, sweepVars, begun, clock>>
      BY <3>1 DEF ExitProcess, WriteFile
    <3>2. ASSUME NEW pid \in Pids, NEW program \in Programs, StartProcess(pid, program)
          PROVE  UNCHANGED <<fixedVars, enumeration, sweepVars, begun, clock>>
      BY <3>2 DEF StartProcess
    <3>3. CASE RegistryTick
      BY <3>3 DEF RegistryTick
    <3>4. CASE ReadDirectory
      BY <3>4 DEF ReadDirectory
    <3>5. CASE ReadFails \/ Translate
      BY <3>5 DEF ReadFails, Translate, EndSweep
    <3>6. CASE UNCHANGED registryVars
      BY <3>6 DEF registryVars
    <3>. QED
      BY <3>1, <3>2, <3>3, <3>4, <3>5, <3>6 DEF RegistryNext
  <2>. QED
    BY <2>1, <2>2, <2>3, <2>4
<1>. QED
  BY <1>1, <1>2, RegistryTypeCorrect, PidsRestInvariant, EnumerationInvariant, PTL
  DEF RegistrySpec

(***************************************************************************)
(* A session that ran when the panes were seen is given its own pane or    *)
(* none, for any time to live of the cache, any reuse of pids that the     *)
(* tolerance stands, and any panes that tmux still lists.                  *)
(***************************************************************************)
THEOREM TargetsAreOwnPanes == RegistrySpec => SightedSessionsGetOwnPane
<1>1. ASSUME RegistryTypeOK, PidsRest, FilesAreWritten, EnumerationIsSighted, PanesWereSeen,
             [RegistryNext]_registryVars, Swept, NEW s \in result'.sessions
      PROVE  s.target # None /\ s.started <= SightedAt => s.target = s.started
  <2>. SUFFICES ASSUME s.target # None, s.started <= SightedAt
                PROVE  s.target = s.started
    OBVIOUS
  <2>1. PICK listing :
          result' = [sessions |->
            {[pid |-> entry.pid, started |-> entry.started,
              target |-> ResolveTarget(entry.pid, listing)] :
               entry \in {e \in entries : IsLive(e)}}]
    BY <1>1, SweptIsTranslated DEF Translate
  <2>2. PICK entry \in entries :
          /\ IsLive(entry) /\ entry.pid = s.pid /\ entry.started = s.started
          /\ s.target = ResolveTarget(entry.pid, listing)
    BY <1>1, <2>1
  <2>3. /\ process[s.pid] # None /\ process[s.pid].started = s.started
        /\ s.pid \in Pids
    BY <1>1, <2>2, LiveEntriesRun DEF RegistryTypeOK, Entries
  <2>4. PICK p \in panes : p.pid = s.pid /\ s.target = p.pane
    BY <1>1, <2>2 DEF ResolveTarget
  <2>5. PICK at : at = SightedAt
    OBVIOUS
  <2>6. at \in Int /\ Sighted(p, at)
    BY <1>1, <2>4, <2>5 DEF PanesWereSeen, Swept, SightedAt, RegistryTypeOK
  <2>7. p.pane \in {None, process[p.pid].started}
    BY <1>1, <2>3, <2>4, <2>5, <2>6, SightedIsCurrent
  <2>. QED
    BY <1>1, <2>3, <2>4, <2>7
<1>2. RegistryTypeOK /\ PidsRest /\ FilesAreWritten /\ EnumerationIsSighted
        /\ PanesWereSeen /\ [RegistryNext]_registryVars
        => [Swept => \A s \in result'.sessions :
              s.target # None /\ s.started <= SightedAt => s.target = s.started]_registryVars
  BY <1>1
<1>. QED
  BY <1>2, RegistryTypeCorrect, PidsRestInvariant, FilesAreWrittenInvariant,
     EnumerationInvariant, SweepInvariant, PTL DEF RegistrySpec, SightedSessionsGetOwnPane

-----------------------------------------------------------------------------
(***************************************************************************)
(* What makes OrphanWarnedOnce inductive: a process that was warned about  *)
(* and still runs is remembered, and the cached enumeration has it; one    *)
(* that has gone is remembered for as long as the enumeration has it.      *)
(***************************************************************************)
Enumeration == IF enumeration = None THEN {} ELSE LivePids(enumeration.found)

Remains(pid) ==
  process[pid] # None =>
    /\ pid \in orphans /\ pid \in Enumeration
    /\ process[pid].started <= enumeration.at
    /\ process[pid].program.agent = agent
    /\ process[pid].program.mine \/ process[pid].program.readable

WarnedIsKnown ==
  \A pid \in Pids :
    \/ warnings[pid] = 0
    \/ /\ warnings[pid] = 1
       /\ Warns
       /\ enumeration # None
       /\ pid \in Enumeration => pid \in orphans
       /\ Remains(pid)

(***************************************************************************)
(* A new enumeration has every process of its agent that is not new.       *)
(***************************************************************************)
LEMMA EnumerationFinds ==
  ASSUME RegistryTypeOK, RegistryTypeOK', PidsRest, EnumerationIsSighted, WarnedIsKnown,
         Discover, agent = "claude"
  PROVE  WarnedIsKnown'
<1>. USE RegistryAssumption, DiscoveryAssumption
     DEF RegistryAssumption, DiscoveryAssumption, RegistryTypeOK
<1>1. PICK seen \in SUBSET Pids, unknown \in SUBSET WantsCwd(agent, process) :
        /\ \A pid \in Pids \ seen : process[pid] # None => process[pid].started = clock
        /\ enumeration' = [at |-> clock, found |-> Enumerated(agent, seen, process, unknown)]
  BY DEF Discover
<1>2. UNCHANGED <<process, agent, override, orphans, warnings>>
  BY DEF Discover, BeginReading, hostVars, fixedVars
<1>3. enumeration' # None
  <2>1. Enumerated(agent, seen, process, unknown) \in SUBSET Sightings
    BY EnumeratedType
  <2>. QED
    BY <1>1, <2>1
<1>4. ASSUME NEW pid \in Pids
      PROVE  /\ pid \in Enumeration' => process[pid] # None
             /\ (/\ pid \in seen /\ process[pid] # None
                 /\ process[pid].program.agent = agent
                 /\ process[pid].program.mine \/ process[pid].program.readable)
                  => pid \in Enumeration'
  <2>1. Enumeration' = {s.pid : s \in Enumerated(agent, seen, process, unknown)}
    BY <1>1, <1>3 DEF Enumeration, LivePids
  <2>2. \A p \in Pids : Sighting(p, process, unknown).pid = p
    BY DEF Sighting
  <2>3. Enumeration' = (OfAgent(agent, process) \cap seen) \ ForeignUid(agent, process)
    BY <2>1, <2>2 DEF Enumerated, OfAgent
  <2>. QED
    BY <2>3 DEF OfAgent, ForeignUid
<1>5. ASSUME NEW pid \in Pids, warnings[pid] # 0
      PROVE  /\ warnings'[pid] = 1 /\ Warns' /\ enumeration' # None
             /\ pid \in Enumeration' => pid \in orphans'
             /\ Remains(pid)'
  <2>1. /\ warnings[pid] = 1 /\ Warns /\ enumeration # None
        /\ pid \in Enumeration => pid \in orphans
        /\ Remains(pid)
    BY <1>5 DEF WarnedIsKnown
  <2>2. CASE process[pid] = None
    BY <1>2, <1>3, <1>4, <2>1, <2>2 DEF Warns, Remains
  <2>3. CASE process[pid] # None
    <3>1. process[pid].started <= enumeration.at /\ pid \in orphans
          /\ process[pid].program.agent = agent
          /\ (process[pid].program.mine \/ process[pid].program.readable)
      BY <2>1, <2>3 DEF Remains
    <3>2. process[pid].started \in Int /\ enumeration.at \in Int
      BY <2>1, <2>3 DEF Processes, Times
    <3>3. clock >= enumeration.at + TTL
      BY <2>1, <3>2 DEF Discover, Cached, FreshEntry, EnumerationIsSighted
    <3>4. process[pid].started < clock
      BY <3>1, <3>2, <3>3
    <3>5. pid \in Enumeration'
      BY <1>1, <1>4, <2>3, <3>1, <3>2, <3>4
    <3>. QED
      BY <1>1, <1>2, <1>3, <2>1, <3>1, <3>2, <3>4, <3>5 DEF Warns, Remains
  <2>. QED
    BY <2>2, <2>3
<1>6. ASSUME NEW pid \in Pids, warnings[pid] = 0
      PROVE  warnings'[pid] = 0
  BY <1>2, <1>6
<1>. QED
  BY <1>5, <1>6 DEF WarnedIsKnown

(***************************************************************************)
(* A sweep warns only about what it does not remember.                     *)
(***************************************************************************)
LEMMA WarningsAreNew ==
  ASSUME RegistryTypeOK, RegistryTypeOK', PidsRest, EnumerationIsSighted, PanesWereSeen,
         WarnedIsKnown, Translate
  PROVE  WarnedIsKnown'
<1>. USE RegistryAssumption, DiscoveryAssumption
     DEF RegistryAssumption, DiscoveryAssumption, RegistryTypeOK
<1>1. UNCHANGED <<process, agent, override, enumeration>>
  BY DEF Translate, hostVars, fixedVars
<1>2. CASE ~Warns
  BY <1>1, <1>2 DEF Translate, WarnOrphans, Warns, WarnedIsKnown
<1>3. CASE Warns
  <2>1. enumeration # None /\ live = Enumeration /\ SightedAt = enumeration.at
    BY <1>3 DEF PanesWereSeen, Translate, Enumeration, Warns, SightedAt
  <2>2. /\ orphans' = (orphans \cap live) \cup OrphanPids
        /\ warnings' = [pid \in Pids |->
              IF pid \in OrphanPids \ (orphans \cap live) /\ IsSighted(pid)
                THEN warnings[pid] + 1 ELSE warnings[pid]]
    BY <1>3 DEF Translate, WarnOrphans, Warns, Remembered, NewPids
  <2>3. ASSUME NEW pid \in Pids, pid \in OrphanPids \ (orphans \cap live)
        PROVE  \/ warnings'[pid] = 0
               \/ warnings'[pid] = 1 /\ Remains(pid)'
    <3>1. pid \in live /\ pid \notin orphans
      BY <2>3 DEF OrphanPids
    <3>2. warnings[pid] = 0
      BY <2>1, <3>1 DEF WarnedIsKnown
    <3>0. CASE ~IsSighted(pid)
      BY <2>2, <2>3, <3>0, <3>2
    <3>3. ASSUME IsSighted(pid), process[pid] # None
          PROVE  /\ process[pid].started <= enumeration.at
                 /\ process[pid].program.agent = agent
                 /\ process[pid].program.mine \/ process[pid].program.readable
      <4>1. PICK at \in Int : at = enumeration.at /\ process[pid].started <= at
        BY <2>1, <3>3 DEF IsSighted
      <4>2. PICK s \in enumeration.found : s.pid = pid
        BY <2>1, <3>1 DEF Enumeration, LivePids
      <4>3. Sighted(s, at)
        BY <2>1, <4>1, <4>2 DEF EnumerationIsSighted
      <4>. QED
        BY <2>1, <3>3, <4>1, <4>2, <4>3, SightedIsCurrent
    <3>4. CASE IsSighted(pid)
      BY <1>1, <2>1, <2>2, <2>3, <3>1, <3>2, <3>3, <3>4 DEF Remains, Enumeration
    <3>. QED
      BY <3>0, <3>4
  <2>4. ASSUME NEW pid \in Pids, pid \notin OrphanPids \ (orphans \cap live), warnings[pid] # 0
        PROVE  /\ warnings'[pid] = 1
               /\ pid \in Enumeration => pid \in orphans'
               /\ Remains(pid)'
    <3>1. /\ warnings[pid] = 1
          /\ pid \in Enumeration => pid \in orphans
          /\ Remains(pid)
      BY <2>4 DEF WarnedIsKnown
    <3>2. Enumeration' = Enumeration
      BY <1>1 DEF Enumeration
    <3>3. Remains(pid)'
      BY <1>1, <2>1, <2>2, <3>1, <3>2 DEF Remains
    <3>. QED
      BY <2>1, <2>2, <2>4, <3>1, <3>3
  <2>5. Warns' /\ enumeration' # None /\ Enumeration' = Enumeration
    BY <1>1, <1>3, <2>1 DEF Warns, Enumeration
  <2>6. \A pid \in Pids : pid \in OrphanPids => pid \in orphans'
    BY <2>2
  <2>7. \A pid \in Pids : warnings[pid] = 0 /\ pid \notin OrphanPids \ (orphans \cap live)
          => warnings'[pid] = 0
    BY <2>2
  <2>. QED
    BY <2>3, <2>4, <2>5, <2>6, <2>7 DEF WarnedIsKnown
<1>. QED
  BY <1>2, <1>3

(***************************************************************************)
(* Every other step leaves what was warned about known.                    *)
(***************************************************************************)
LEMMA WarnedInvariant == RegistrySpec => []WarnedIsKnown
<1>1. RegistryInit => WarnedIsKnown
  BY DEF RegistryInit, WarnedIsKnown
<1>2. ASSUME RegistryTypeOK, RegistryTypeOK', PidsRest, EnumerationIsSighted, PanesWereSeen,
             WarnedIsKnown, [RegistryNext]_registryVars
      PROVE  WarnedIsKnown'
  <2>. USE <1>2
  <2>1. ASSUME NEW p \in Pids, NEW program \in Programs, StartProcess(p, program)
        PROVE  WarnedIsKnown'
    BY <2>1 DEF StartProcess, fixedVars, WarnedIsKnown, Warns, Remains, Enumeration, RegistryTypeOK
  <2>2. ASSUME NEW p \in Pids, ExitProcess(p)
        PROVE  WarnedIsKnown'
    BY <2>2 DEF ExitProcess, fixedVars, WarnedIsKnown, Warns, Remains, Enumeration, RegistryTypeOK
  <2>3. CASE UNCHANGED <<agent, override, process, enumeration, orphans, warnings>>
    BY <2>3 DEF WarnedIsKnown, Warns, Remains, Enumeration
  <2>4. CASE Discover
    <3>1. CASE agent = "claude"
      BY <2>4, <3>1, EnumerationFinds
    <3>2. CASE agent # "claude"
      <4>1. UNCHANGED <<agent, override, process, orphans, warnings>>
        BY <2>4 DEF Discover, BeginReading, hostVars, fixedVars
      <4>. QED
        BY <3>2, <4>1 DEF WarnedIsKnown, Warns
    <3>. QED
      BY <3>1, <3>2
  <2>5. CASE Translate
    BY <2>5, WarningsAreNew
  <2>6. \/ \E p \in Pids, program \in Programs : StartProcess(p, program)
        \/ \E p \in Pids : ExitProcess(p)
        \/ UNCHANGED <<agent, override, process, enumeration, orphans, warnings>>
        \/ Discover \/ Translate
    <3>1. ASSUME NEW p \in Pids, WriteFile(p)
          PROVE  UNCHANGED <<agent, override, process, enumeration, orphans, warnings>>
      BY <3>1 DEF WriteFile, fixedVars
    <3>2. CASE RegistryTick
      BY <3>2 DEF RegistryTick, fixedVars
    <3>3. CASE DiscoverCached \/ DiscoverFails
      BY <3>3 DEF DiscoverCached, DiscoverFails, BeginReading, hostVars, fixedVars
    <3>4. CASE ReadDirectory \/ ReadFails
      BY <3>4 DEF ReadDirectory, ReadFails, hostVars, fixedVars
    <3>5. CASE UNCHANGED registryVars
      BY <3>5 DEF registryVars, hostVars, fixedVars
    <3>. QED
      BY <3>1, <3>2, <3>3, <3>4, <3>5 DEF RegistryNext
  <2>. QED
    BY <2>1, <2>2, <2>3, <2>4, <2>5, <2>6
<1>. QED
  BY <1>1, <1>2, RegistryTypeCorrect, PidsRestInvariant, EnumerationInvariant,
     SweepInvariant, PTL DEF RegistrySpec

(***************************************************************************)
(* No process is reported as an orphan twice.                              *)
(***************************************************************************)
THEOREM OrphansAreWarnedOnce == RegistrySpec => []OrphanWarnedOnce
<1>1. WarnedIsKnown => OrphanWarnedOnce
  BY DEF WarnedIsKnown, OrphanWarnedOnce
<1>. QED
  BY <1>1, WarnedInvariant, PTL

-----------------------------------------------------------------------------
(***************************************************************************)
(* No session is left out.  Every file is in the directory of the process  *)
(* that wrote it, an enumeration found whatever had started before it, and *)
(* so the directories a sweep reads are those of the sessions it has to    *)
(* find.                                                                   *)
(***************************************************************************)
\* A process writes nowhere but in its own directory.
FilesAreOwn ==
  \A dir \in Dirs, pid \in Pids :
    /\ file[dir][pid] \notin {None, Garbled}
    /\ process[pid] # None /\ process[pid].started = file[dir][pid].started
    => dir = OwnDir(process[pid].program)

\* An enumeration found whatever of the watcher's own user had started before it.
Finds(found, pid) ==
  /\ process[pid].program.readable
  /\ \E t \in found : t.pid = pid /\ t.program = process[pid].program

EnumerationIsComplete ==
  enumeration # None =>
    \A pid \in Pids :
      /\ process[pid] # None /\ process[pid].started < enumeration.at
      /\ process[pid].program.agent = agent /\ process[pid].program.mine
      => Finds(enumeration.found, pid)

(***************************************************************************)
(* A session that a sweep has to find is in a directory still to be read,  *)
(* or among the entries read.                                              *)
(***************************************************************************)
EntryOf(s) == [pid |-> s.pid, started |-> s.started, interactive |-> TRUE]

SteadyIsCovered ==
  /\ steady \subseteq OnFile(Dirs, process, file)
  /\ stage = "read" => toRead = {}
  /\ \A s \in Due : OwnDir(process[s.pid].program) \in toRead \/ EntryOf(s) \in entries

-----------------------------------------------------------------------------
\* A session on file runs.
LEMMA OnFileRuns ==
  ASSUME NEW dirs, NEW table, NEW files, NEW s \in OnFile(dirs, table, files)
  PROVE  s.pid \in Pids /\ table[s.pid] # None
<1>1. PICK pid \in {p \in Pids : table[p] # None} :
        s = [pid |-> pid, started |-> table[pid].started]
  BY DEF OnFile
<1>2. s.pid = pid
  BY <1>1
<1>. QED
  BY <1>1, <1>2

\* Its file is in one of the directories.
LEMMA OnFileIs ==
  ASSUME NEW dirs, NEW table, NEW files, NEW s \in OnFile(dirs, table, files)
  PROVE  /\ s.pid \in Pids /\ table[s.pid] # None
         /\ s.started = table[s.pid].started
         /\ \E dir \in dirs :
              files[dir][s.pid] = [started |-> s.started, interactive |-> TRUE]
<1>1. PICK pid \in {p \in Pids : table[p] # None} :
        s = [pid |-> pid, started |-> table[pid].started]
  BY DEF OnFile
<1>2. s.pid = pid /\ s.started = table[pid].started
  BY <1>1
<1>3. \E dir \in dirs : files[dir][s.pid] = [started |-> s.started, interactive |-> TRUE]
  BY DEF OnFile
<1>. QED
  BY <1>1, <1>2, <1>3

\* It is the process with its pid.
LEMMA OnFileIsARecord ==
  ASSUME NEW dirs, NEW table, NEW files, NEW s \in OnFile(dirs, table, files)
  PROVE  s = [pid |-> s.pid, started |-> table[s.pid].started]
<1>1. PICK pid \in {p \in Pids : table[p] # None} :
        s = [pid |-> pid, started |-> table[pid].started]
  BY DEF OnFile
<1>2. s.pid = pid
  BY <1>1
<1>. QED
  BY <1>1, <1>2

\* It stays on file as long as its process and its file are there.
LEMMA OnFileStays ==
  ASSUME NEW dirs, NEW table, NEW other, NEW files, NEW s \in OnFile(dirs, table, files),
         other[s.pid] = table[s.pid]
  PROVE  s \in OnFile(dirs, other, files)
<1>1. /\ s.pid \in Pids /\ table[s.pid] # None
      /\ \E dir \in dirs : files[dir][s.pid] = [started |-> s.started, interactive |-> TRUE]
  BY OnFileIs
<1>2. s = [pid |-> s.pid, started |-> table[s.pid].started]
  BY OnFileIsARecord
<1>3. s \in {[pid |-> pid, started |-> other[pid].started] :
               pid \in {p \in Pids : other[p] # None}}
  BY <1>1, <1>2
<1>. QED
  BY <1>1, <1>3 DEF OnFile

\* A session on file is its process, and its file is in the directory that is its own.
LEMMA SteadyIsRunning ==
  ASSUME RegistryTypeOK, FilesAreOwn, NEW s \in OnFile(Dirs, process, file)
  PROVE  /\ s.pid \in Pids /\ process[s.pid] \in Processes /\ process[s.pid] # None
         /\ s.started = process[s.pid].started /\ s.started \in Int
         /\ process[s.pid].program \in ProgramFields
         /\ OwnDir(process[s.pid].program) \in Dirs
         /\ file[OwnDir(process[s.pid].program)][s.pid]
              = [started |-> s.started, interactive |-> TRUE]
<1>1. /\ s.pid \in Pids /\ process[s.pid] # None /\ s.started = process[s.pid].started
      /\ \E dir \in Dirs : file[dir][s.pid] = [started |-> s.started, interactive |-> TRUE]
  BY OnFileIs
<1>2. process[s.pid] \in Processes
  BY <1>1 DEF RegistryTypeOK
<1>3. /\ process[s.pid].program \in ProgramFields /\ process[s.pid].started \in Int
  BY <1>2, DiscoveryAssumption DEF Processes, Times, DiscoveryAssumption
<1>4. PICK dir \in Dirs : file[dir][s.pid] = [started |-> s.started, interactive |-> TRUE]
  BY <1>1
<1>5. /\ file[dir][s.pid] \notin {None, Garbled}
      /\ file[dir][s.pid].started = process[s.pid].started
  <2>1. s.started \in Int
    BY <1>1, <1>3
  <2>2. [started |-> s.started, interactive |-> TRUE] \in [started : Int, interactive : BOOLEAN]
    BY <2>1
  <2>3. file[dir][s.pid] \notin {None, Garbled}
    BY <1>4, <2>2, RegistryAssumption DEF RegistryAssumption
  <2>4. file[dir][s.pid].started = s.started
    BY <1>4
  <2>. QED
    BY <1>1, <2>3, <2>4
<1>6. dir = OwnDir(process[s.pid].program)
  BY <1>1, <1>5 DEF FilesAreOwn
<1>. QED
  BY <1>1, <1>2, <1>3, <1>4, <1>6

\* The watcher tells a program's own directory from an environment that names it.
LEMMA OwnDirIsTold ==
  ASSUME NEW program \in ProgramFields, program.agent \in Agents, program.mine,
         NamesDir(program), OwnDir(program) \in Dirs
  PROVE  DirOf(program.agent, program) = OwnDir(program)
<1>. USE DiscoveryAssumption DEF DiscoveryAssumption, ProgramFields, Settings
<1>1. CASE program.setting \in Dirs
  <2>1. OwnDir(program) = program.setting
    BY <1>1 DEF OwnDir
  <2>2. ResolveProcessConfigDir(program) = program.setting
    BY <1>1 DEF ResolveProcessConfigDir
  <2>3. ResolveAgentDir(program) = program.setting /\ program.setting # None
    BY <1>1 DEF ResolveAgentDir
  <2>. QED
    BY <2>1, <2>2, <2>3 DEF DirOf, PiDir
<1>2. CASE program.setting = "unset"
  <2>1. KnowsHome(program)
    BY <1>2 DEF KnowsHome, NamesDir
  <2>2. OwnDir(program) = DefaultDirIn[HomeOf(program)]
    BY <1>2, <2>1 DEF OwnDir
  <2>3. ResolveProcessConfigDir(program)
          = IF program.home \in Homes THEN DefaultDirIn[program.home] ELSE DefaultDirIn[WatcherHome]
    BY <1>2 DEF ResolveProcessConfigDir, DefaultConfigDirFor, DefaultConfigDir
  <2>4. ResolveAgentDir(program) = None
    BY <1>2 DEF ResolveAgentDir
  <2>. QED
    BY <2>2, <2>3, <2>4 DEF DirOf, HomeOf, PiDir, PiHome
<1>3. CASE program.agent = "pi" /\ program.setting = "tilde"
  <2>1. KnowsHome(program)
    BY <1>3 DEF KnowsHome, NamesDir
  <2>2. OwnDir(program) = TildeDirIn[HomeOf(program)]
    BY <1>3, <2>1 DEF OwnDir
  <2>3. ResolveAgentDir(program) = TildeDirIn[PiHome(program)]
    BY <1>3 DEF ResolveAgentDir
  <2>. QED
    BY <1>3, <2>2, <2>3 DEF DirOf, PiDir, PiHome, HomeOf
<1>4. CASE program.agent = "pi" /\ program.setting = "relative"
  <2>1. OwnDir(program) = program.below
    BY <1>4 DEF OwnDir
  <2>2. ResolveAgentDir(program) = program.below
    BY <1>4 DEF ResolveAgentDir
  <2>. QED
    BY <1>4, <2>1, <2>2 DEF DirOf, PiDir
<1>. QED
  BY <1>1, <1>2, <1>3, <1>4 DEF NamesDir

\* A start time is not used twice with a pid, so no file passes to another process.
LEMMA FilesAreOwnInvariant == RegistrySpec => []FilesAreOwn
<1>1. RegistryInit => FilesAreOwn
  BY DEF RegistryInit, FilesAreOwn
<1>2. ASSUME RegistryTypeOK, PidsRest, FilesAreWritten, FilesAreOwn,
             [RegistryNext]_registryVars
      PROVE  FilesAreOwn'
  <2>. USE <1>2
  <2>1. ASSUME NEW p \in Pids, NEW program \in Programs, StartProcess(p, program)
        PROVE  FilesAreOwn'
    <3>1. /\ process[p] = None /\ clock >= freed[p] + ReuseGap /\ UNCHANGED file
          /\ process' = [process EXCEPT ![p] = [started |-> clock, program |-> program]]
      BY <2>1 DEF StartProcess
    <3>2. ASSUME NEW dir \in Dirs, file[dir][p] \notin {None, Garbled}
          PROVE  file[dir][p].started # clock
      <4>1. file[dir][p].started <= freed[p]
        BY <3>1, <3>2 DEF FilesAreWritten, Written
      <4>2. file[dir][p].started \in Int /\ freed[p] \in Int /\ clock \in Int
        BY <3>2 DEF RegistryTypeOK, FileStates, Times
      <4>. QED
        BY <3>1, <4>1, <4>2, RegistryAssumption DEF RegistryAssumption
    <3>3. /\ process'[p].started = clock
          /\ \A pid \in Pids : pid # p => process'[pid] = process[pid]
      BY <3>1 DEF RegistryTypeOK
    <3>. QED
      BY <3>1, <3>2, <3>3 DEF FilesAreOwn
  <2>2. ASSUME NEW p \in Pids, ExitProcess(p)
        PROVE  FilesAreOwn'
    <3>1. process'[p] = None /\ UNCHANGED file
          /\ \A pid \in Pids : pid # p => process'[pid] = process[pid]
      BY <2>2 DEF ExitProcess, RegistryTypeOK
    <3>. QED
      BY <3>1 DEF FilesAreOwn
  <2>3. ASSUME NEW p \in Pids, WriteFile(p)
        PROVE  FilesAreOwn'
    <3>1. UNCHANGED process
      BY <2>3 DEF WriteFile
    <3>2. PICK content : file' = [file EXCEPT ![OwnDir(process[p].program)][p] = content]
      BY <2>3 DEF WriteFile
    <3>3. ASSUME NEW dir \in Dirs, NEW pid \in Pids
          PROVE  file'[dir][pid] = file[dir][pid]
                   \/ (pid = p /\ dir = OwnDir(process[p].program))
      BY <3>2 DEF RegistryTypeOK
    <3>. QED
      BY <3>1, <3>3 DEF FilesAreOwn
  <2>4. CASE UNCHANGED <<process, file>>
    BY <2>4 DEF FilesAreOwn
  <2>5. \/ UNCHANGED <<process, file>>
        \/ \E p \in Pids : ExitProcess(p) \/ WriteFile(p)
        \/ \E p \in Pids, program \in Programs : StartProcess(p, program)
    BY DEF RegistryNext, RegistryTick, DiscoverCached, Discover, DiscoverFails, BeginReading,
           ReadDirectory, ReadFails, Translate, registryVars, hostVars
  <2>. QED
    BY <2>1, <2>2, <2>3, <2>4, <2>5
<1>. QED
  BY <1>1, <1>2, RegistryTypeCorrect, PidsRestInvariant, FilesAreWrittenInvariant, PTL
  DEF RegistrySpec

\* The processes a walk came across, and those it may have missed.
LEMMA WalkFinds ==
  ASSUME ~Unreadable(agent, platform, process), NEW seen \in SUBSET Pids,
         \A pid \in Pids \ seen : process[pid] # None => process[pid].started = clock,
         NEW pid \in Pids, process[pid] # None, process[pid].started # clock,
         process[pid].program.agent = agent, process[pid].program.mine,
         process[pid].program.readable \/ agent = "claude" \/ platform = "linux",
         NEW unknown, pid \notin unknown
  PROVE  Finds(Enumerated(agent, seen, process, unknown), pid)
<1>1. pid \in seen /\ pid \in OfAgent(agent, process)
  BY DEF OfAgent
<1>2. process[pid].program.readable
  BY <1>1 DEF Unreadable
<1>3. pid \in (OfAgent(agent, process) \cap seen) \ ForeignUid(agent, process)
  BY <1>1 DEF ForeignUid
<1>4. Sighting(pid, process, unknown) \in Enumerated(agent, seen, process, unknown)
  BY <1>3 DEF Enumerated
<1>5. Sighting(pid, process, unknown).pid = pid
      /\ Sighting(pid, process, unknown).program = process[pid].program
  BY <1>2 DEF Sighting
<1>. QED
  BY <1>2, <1>4, <1>5 DEF Finds

\* A walk that succeeds misses only what starts meanwhile.
LEMMA EnumerationIsCompleteInvariant == RegistrySpec => []EnumerationIsComplete
<1>1. RegistryInit => EnumerationIsComplete
  BY DEF RegistryInit, EnumerationIsComplete
<1>2. ASSUME RegistryTypeOK, EnumerationIsSighted, EnumerationIsComplete,
             [RegistryNext]_registryVars
      PROVE  EnumerationIsComplete'
  <2>. USE <1>2
  <2>1. ASSUME NEW p \in Pids, UNCHANGED <<enumeration, agent>>,
               process'[p] = None \/ process'[p].started = clock,
               \A pid \in Pids : pid # p => process'[pid] = process[pid]
        PROVE  EnumerationIsComplete'
    <3>1. enumeration # None => ~(clock < enumeration.at)
      BY DEF EnumerationIsSighted, RegistryTypeOK
    <3>. QED
      BY <2>1, <3>1 DEF EnumerationIsComplete, Finds
  <2>2. ASSUME NEW p \in Pids, NEW program \in Programs, StartProcess(p, program)
        PROVE  EnumerationIsComplete'
    BY <2>1, <2>2 DEF StartProcess, RegistryTypeOK, fixedVars
  <2>3. ASSUME NEW p \in Pids, ExitProcess(p)
        PROVE  EnumerationIsComplete'
    BY <2>1, <2>3 DEF ExitProcess, RegistryTypeOK, fixedVars
  <2>4. CASE Discover /\ agent = "claude"
    <3>1. PICK seen \in SUBSET Pids, unknown \in SUBSET WantsCwd(agent, process) :
            /\ \A pid \in Pids \ seen : process[pid] # None => process[pid].started = clock
            /\ enumeration' = [at |-> clock,
                               found |-> Enumerated(agent, seen, process, unknown)]
      BY <2>4 DEF Discover
    <3>2. ~Unreadable(agent, platform, process) /\ UNCHANGED <<process, agent>>
      BY <2>4 DEF Discover, BeginReading, hostVars, fixedVars
    <3>3. ASSUME NEW pid \in Pids, process[pid] # None, process[pid].started < clock,
                 process[pid].program.agent = agent, process[pid].program.mine
          PROVE  Finds(Enumerated(agent, seen, process, unknown), pid)
      <4>0. unknown = {}
        BY <2>4 DEF WantsCwd
      <4>1. process[pid].started \in Int /\ clock \in Int
        BY <3>3 DEF RegistryTypeOK, Processes, Times
      <4>2. process[pid].started # clock
        BY <3>3, <4>1
      <4>. QED
        BY <2>4, <3>1, <3>2, <3>3, <4>0, <4>2, WalkFinds
    <3>. QED
      BY <3>1, <3>2, <3>3 DEF EnumerationIsComplete, Finds
  <2>5. CASE UNCHANGED <<enumeration, process, agent>>
    BY <2>5 DEF EnumerationIsComplete, Finds
  <2>6. \/ UNCHANGED <<enumeration, process, agent>>
        \/ Discover /\ agent = "claude"
        \/ \E p \in Pids : ExitProcess(p)
        \/ \E p \in Pids, program \in Programs : StartProcess(p, program)
    <3>1. Discover => agent = "claude" \/ UNCHANGED <<enumeration, process, agent>>
      <4>. SUFFICES ASSUME Discover, agent # "claude"
                    PROVE  UNCHANGED <<enumeration, process, agent>>
        OBVIOUS
      <4>1. UNCHANGED <<enumeration, foreign>>
        BY DEF Discover
      <4>2. UNCHANGED <<process, agent>>
        BY DEF Discover, BeginReading, hostVars, fixedVars
      <4>. QED
        BY <4>1, <4>2
    <3>2. \/ UNCHANGED <<enumeration, process, agent>>
          \/ Discover
          \/ \E p \in Pids : ExitProcess(p)
          \/ \E p \in Pids, program \in Programs : StartProcess(p, program)
      BY DEF RegistryNext, RegistryTick, WriteFile, DiscoverCached, DiscoverFails, BeginReading,
             ReadDirectory, ReadFails, Translate, registryVars, hostVars, fixedVars
    <3>. QED
      BY <3>1, <3>2
  <2>. QED
    BY <2>2, <2>3, <2>4, <2>5, <2>6
<1>. QED
  BY <1>1, <1>2, RegistryTypeCorrect, EnumerationInvariant, PTL DEF RegistrySpec

-----------------------------------------------------------------------------
\* The sweep reads the directory of every session it has to find.
LEMMA BeginCovers ==
  ASSUME RegistryTypeOK, FilesAreOwn, NEW found, NEW unknown, BeginReading(found, unknown),
         override = {} =>
           \A pid \in Pids :
             /\ process[pid] # None
             /\ process[pid].program.agent = agent /\ process[pid].program.mine
             /\ process[pid].program.readable \/ agent = "claude" \/ platform = "linux"
             /\ Settled([pid |-> pid, started |-> process[pid].started])
             /\ pid \notin unknown
             => Finds(found, pid)
  PROVE  SteadyIsCovered'
<1>1. /\ stage' = "reading" /\ UNCHANGED <<process, file, agent, platform, override>>
      /\ lost' = unknown
      /\ toRead' = IF override = {} THEN UnionDiscovery(agent, found) ELSE override
      /\ steady' = {s \in OnFile(Dirs, process, file) : Settled(s)}
  BY DEF BeginReading, BeginSteady, hostVars, fixedVars
<1>2. ASSUME NEW s \in Due'
      PROVE  OwnDir(process[s.pid].program) \in toRead'
  <2>1. /\ s \in OnFile(Dirs, process, file) /\ Settled(s)
        /\ process[s.pid].program.agent = agent /\ process[s.pid].program.mine
        /\ override = {} =>
             /\ process[s.pid].program.readable \/ agent = "claude" \/ platform = "linux"
             /\ NamesDir(process[s.pid].program)
             /\ s.pid \notin unknown
        /\ override # {} => OwnDir(process[s.pid].program) \in override
    BY <1>1, <1>2 DEF Due
  <2>2. /\ s.pid \in Pids /\ process[s.pid] # None
        /\ process[s.pid].program \in ProgramFields
        /\ OwnDir(process[s.pid].program) \in Dirs
    BY <2>1, SteadyIsRunning
  <2>3. s = [pid |-> s.pid, started |-> process[s.pid].started]
    <3>1. s \in OnFile(Dirs, process, file)
      BY <2>1
    <3>. QED
      BY <3>1, OnFileIsARecord
  <2>4. CASE override # {}
    BY <1>1, <2>1, <2>4
  <2>5. CASE override = {}
    <3>1. Settled([pid |-> s.pid, started |-> process[s.pid].started])
      BY <2>1, <2>3
    <3>2. Finds(found, s.pid)
      BY <2>1, <2>2, <2>5, <3>1
    <3>3. PICK t \in found : t.program = process[s.pid].program
      BY <3>2 DEF Finds
    <3>4. DirOf(agent, t.program) \in toRead'
      BY <1>1, <2>5 DEF UnionDiscovery
    <3>5. DirOf(agent, process[s.pid].program) = OwnDir(process[s.pid].program)
      BY <2>1, <2>2, <2>5, OwnDirIsTold DEF RegistryTypeOK
    <3>. QED
      BY <3>3, <3>4, <3>5
  <2>. QED
    BY <2>4, <2>5
<1>. QED
  BY <1>1, <1>2 DEF SteadyIsCovered

\* Cached or not, an enumeration is recent enough for the sessions it has to find.
LEMMA SweepCovers ==
  ASSUME RegistryTypeOK, FilesAreOwn, EnumerationIsSighted, EnumerationIsComplete,
         SteadyIsCovered, DiscoverCached \/ Discover \/ DiscoverFails
  PROVE  SteadyIsCovered'
<1>. DEFINE Wanted(pid) ==
       /\ process[pid] # None
       /\ process[pid].program.agent = agent /\ process[pid].program.mine
       /\ process[pid].program.readable \/ agent = "claude" \/ platform = "linux"
       /\ Settled([pid |-> pid, started |-> process[pid].started])
<1>1. ASSUME NEW pid \in Pids, Wanted(pid), override = {}
      PROVE  /\ process[pid].started \in Int /\ clock \in Int
             /\ agent = "claude" => process[pid].started + TTL <= clock
             /\ process[pid].started < clock
  <2>1. process[pid].started \in Int /\ clock \in Int /\ agent \in Agents
    BY <1>1 DEF RegistryTypeOK, Processes, Times
  <2>2. \/ agent = "claude" /\ process[pid].started + TTL <= clock
        \/ agent = "pi" /\ process[pid].started < clock
    BY <1>1 DEF Settled
  <2>. QED
    BY <2>1, <2>2, DiscoveryAssumption DEF DiscoveryAssumption
<1>2. CASE DiscoverCached
  <2>1. /\ BeginReading(enumeration.found, {}) /\ agent = "claude" /\ enumeration # None
        /\ clock - enumeration.at < TTL
    BY <1>2 DEF DiscoverCached, Cached, FreshEntry
  <2>2. ASSUME NEW pid \in Pids, Wanted(pid), override = {}
        PROVE  Finds(enumeration.found, pid)
    <3>1. enumeration.at \in Int
      BY <2>1 DEF RegistryTypeOK
    <3>2. process[pid].started < enumeration.at
      BY <1>1, <2>1, <2>2, <3>1, DiscoveryAssumption DEF DiscoveryAssumption
    <3>. QED
      BY <2>1, <2>2, <3>2 DEF EnumerationIsComplete
  <2>. QED
    BY <2>1, <2>2, BeginCovers
<1>3. CASE Discover
  <2>1. PICK seen \in SUBSET Pids, unknown \in SUBSET WantsCwd(agent, process) :
          /\ \A pid \in Pids \ seen : process[pid] # None => process[pid].started = clock
          /\ BeginReading(Enumerated(agent, seen, process, unknown), unknown)
    BY <1>3 DEF Discover
  <2>2. ~Unreadable(agent, platform, process)
    BY <1>3 DEF Discover
  <2>3. ASSUME NEW pid \in Pids, Wanted(pid), override = {}, pid \notin unknown
        PROVE  Finds(Enumerated(agent, seen, process, unknown), pid)
    <3>1. process[pid].started # clock
      BY <1>1, <2>3
    <3>. QED
      BY <2>1, <2>2, <2>3, <3>1, WalkFinds
  <2>. QED
    BY <2>1, <2>3, BeginCovers
<1>4. CASE DiscoverFails
  <2>1. CASE override = {}
    <3>1. UNCHANGED <<process, file, agent, platform, override, steady, stage, toRead, entries,
                      lost>>
      BY <1>4, <2>1 DEF DiscoverFails, hostVars, fixedVars, sweepVars
    <3>. QED
      BY <3>1 DEF SteadyIsCovered, Due
  <2>2. CASE override # {}
    <3>1. BeginReading({}, {})
      BY <1>4, <2>2 DEF DiscoverFails
    <3>. QED
      BY <2>2, <3>1, BeginCovers
  <2>. QED
    BY <2>1, <2>2
<1>. QED
  BY <1>2, <1>3, <1>4

\* A session that remains steady stays covered while directories are read.
LEMMA SteadyIsCoveredInvariant == RegistrySpec => []SteadyIsCovered
<1>1. RegistryInit => SteadyIsCovered
  BY DEF RegistryInit, SteadyIsCovered, Due
<1>2. ASSUME RegistryTypeOK, FilesAreOwn, EnumerationIsSighted,
             EnumerationIsComplete, SteadyIsCovered, [RegistryNext]_registryVars
      PROVE  SteadyIsCovered'
  <2>. USE <1>2
  \* What happens on the host: the sessions that remain steady are as they were.
  <2>1. ASSUME UNCHANGED <<agent, platform, override, stage, toRead, entries, lost>>,
               steady' \subseteq OnFile(Dirs, process', file'), steady' \subseteq steady,
               \A s \in steady' : process'[s.pid] = process[s.pid]
        PROVE  SteadyIsCovered'
    <3>1. \A s \in Due' : s \in Due
      BY <2>1 DEF Due
    <3>. QED
      BY <2>1, <3>1 DEF SteadyIsCovered, Due
  <2>2. ASSUME NEW p \in Pids, NEW program \in Programs, StartProcess(p, program)
        PROVE  SteadyIsCovered'
    <3>1. /\ UNCHANGED <<agent, platform, override, stage, toRead, entries, lost, steady, file>>
          /\ process[p] = None
          /\ \A pid \in Pids : pid # p => process'[pid] = process[pid]
      BY <2>2 DEF StartProcess, RegistryTypeOK, sweepVars, fixedVars
    <3>2. \A s \in steady : s.pid \in Pids /\ s.pid # p
      BY <3>1, SteadyIsRunning DEF SteadyIsCovered
    <3>3. ASSUME NEW s \in steady
          PROVE  s \in OnFile(Dirs, process', file')
      <4>1. s \in OnFile(Dirs, process, file) /\ process'[s.pid] = process[s.pid] /\ file' = file
        BY <3>1, <3>2, <3>3 DEF SteadyIsCovered
      <4>. QED
        BY <4>1, OnFileStays
    <3>. QED
      BY <2>1, <3>1, <3>2, <3>3
  <2>3. ASSUME NEW p \in Pids, ExitProcess(p)
        PROVE  SteadyIsCovered'
    <3>1. /\ UNCHANGED <<agent, platform, override, stage, toRead, entries, lost, file>>
          /\ steady' = steady \cap OnFile(Dirs, process', file)
          /\ process'[p] = None
          /\ \A pid \in Pids : pid # p => process'[pid] = process[pid]
      BY <2>3 DEF ExitProcess, StaysSteady, RegistryTypeOK, sweepVars, fixedVars
    <3>2. ASSUME NEW s \in steady'
          PROVE  s.pid \in Pids /\ process'[s.pid] # None
      <4>1. s \in OnFile(Dirs, process', file)
        BY <3>1, <3>2
      <4>. QED
        BY <4>1, OnFileRuns
    <3>. QED
      BY <2>1, <3>1, <3>2
  <2>4. ASSUME NEW p \in Pids, WriteFile(p)
        PROVE  SteadyIsCovered'
    <3>1. /\ UNCHANGED <<agent, platform, override, stage, toRead, entries, lost, process>>
          /\ steady' = steady \cap OnFile(Dirs, process, file')
      BY <2>4 DEF WriteFile, StaysSteady, sweepVars, fixedVars
    <3>. QED
      BY <2>1, <3>1
  <2>5. CASE RegistryTick \/ UNCHANGED registryVars
    <3>1. UNCHANGED <<agent, platform, override, stage, toRead, entries, lost, process, file,
                      steady>>
      BY <2>5 DEF RegistryTick, registryVars, hostVars, sweepVars, fixedVars
    <3>. QED
      BY <3>1 DEF SteadyIsCovered, Due
  <2>6. CASE DiscoverCached \/ Discover \/ DiscoverFails
    BY <2>6, SweepCovers
  <2>7. CASE ReadDirectory
    <3>1. PICK dir \in toRead : /\ entries' = entries \cup EntriesIn(dir)
                                /\ toRead' = toRead \ {dir}
      BY <2>7 DEF ReadDirectory
    <3>2. /\ stage' = "read" => toRead' = {}
          /\ UNCHANGED <<agent, platform, override, process, file, steady, lost>>
      BY <2>7 DEF ReadDirectory, hostVars, fixedVars
    <3>3. ASSUME NEW s \in Due, OwnDir(process[s.pid].program) = dir
          PROVE  EntryOf(s) \in entries'
      <4>1. s \in OnFile(Dirs, process, file)
        BY DEF SteadyIsCovered, Due
      <4>2. /\ s.pid \in Pids /\ s.started \in Int
            /\ file[dir][s.pid] = [started |-> s.started, interactive |-> TRUE]
        BY <3>3, <4>1, SteadyIsRunning
      <4>3. file[dir][s.pid] \notin {None, Garbled}
        <5>1. [started |-> s.started, interactive |-> TRUE]
                \in [started : Int, interactive : BOOLEAN]
          BY <4>2
        <5>. QED
          BY <4>2, <5>1, RegistryAssumption DEF RegistryAssumption
      <4>4. [pid |-> s.pid, started |-> file[dir][s.pid].started,
             interactive |-> file[dir][s.pid].interactive] \in EntriesIn(dir)
        BY <4>2, <4>3 DEF EntriesIn
      <4>. QED
        BY <3>1, <4>2, <4>4 DEF EntryOf
    <3>4. Due' = Due
      BY <3>2 DEF Due
    <3>. QED
      BY <3>1, <3>2, <3>3, <3>4 DEF SteadyIsCovered
  <2>8. CASE ReadFails \/ Translate
    <3>1. steady' = {} /\ stage' = "idle"
      BY <2>8 DEF ReadFails, Translate, EndSweep
    <3>. QED
      BY <3>1 DEF SteadyIsCovered, Due
  <2>. QED
    BY <2>2, <2>3, <2>4, <2>5, <2>6, <2>7, <2>8 DEF RegistryNext
<1>. QED
  BY <1>1, <1>2, RegistryTypeCorrect, FilesAreOwnInvariant, EnumerationInvariant,
     EnumerationIsCompleteInvariant, PTL DEF RegistrySpec

(***************************************************************************)
(* A sweep that succeeds leaves no session out: every session on file      *)
(* since the sweep began is reported, once it is older than the            *)
(* enumeration can be, wherever its environment says that its registry is; *)
(* but for a pi below a working directory that could not be looked up.     *)
(***************************************************************************)
THEOREM SweepsLeaveNobodyOut == RegistrySpec => SettledSessionsAreFound
<1>1. RegistryTypeOK /\ FilesAreOwn /\ SteadyIsCovered /\ [RegistryNext]_registryVars =>
        [Swept => \A s \in Due : \E found \in result'.sessions :
           found.pid = s.pid /\ found.started = s.started]_registryVars
  <2>. SUFFICES ASSUME RegistryTypeOK, FilesAreOwn, SteadyIsCovered, RegistryNext, Swept,
                       NEW s \in Due
                PROVE  \E found \in result'.sessions :
                         found.pid = s.pid /\ found.started = s.started
    OBVIOUS
  <2>1. Translate /\ stage = "read"
    BY SweptIsTranslated DEF Swept
  <2>2. PICK listing \in PaneListings :
          result' = [sessions |->
            {[pid |-> entry.pid, started |-> entry.started,
              target |-> ResolveTarget(entry.pid, listing)] :
               entry \in {e \in entries : IsLive(e)}}]
    BY <2>1 DEF Translate
  <2>3. EntryOf(s) \in entries
    BY <2>1 DEF SteadyIsCovered
  <2>4. s \in OnFile(Dirs, process, file)
    BY DEF SteadyIsCovered, Due
  <2>5. /\ process[s.pid] # None /\ process[s.pid].started = s.started /\ s.started \in Int
    BY <2>4, SteadyIsRunning
  <2>6. IsLive(EntryOf(s))
    BY <2>5, RegistryAssumption DEF IsLive, EntryOf, Distance, RegistryAssumption
  <2>7. [pid |-> EntryOf(s).pid, started |-> EntryOf(s).started,
         target |-> ResolveTarget(EntryOf(s).pid, listing)] \in result'.sessions
    BY <2>2, <2>3, <2>6
  <2>. QED
    BY <2>7 DEF EntryOf
<1>. QED
  BY <1>1, RegistryTypeCorrect, FilesAreOwnInvariant, SteadyIsCoveredInvariant, PTL
  DEF RegistrySpec, SettledSessionsAreFound

-----------------------------------------------------------------------------
(***************************************************************************)
(* The Codex source.  What a sweep has listed and the homes it has still   *)
(* to read cover, between them, every thread open since it began.          *)
(***************************************************************************)
CodexSourceTypeOK ==
  /\ codexOverride \in CodexHomes \cup {NoHome}
  /\ running \subseteq Codexes
  /\ holder \in [Threads -> Codexes \cup {NoHome}]
  /\ lockFiles \subseteq CodexHomes \X Threads
  /\ homes \in (SUBSET CodexHomes) \cup {NoHome}
  /\ opened \subseteq Threads /\ kept \subseteq Threads

\* A lock is held by a process that runs, in the home it keeps its threads in.
LocksAreHeld ==
  \A thread \in Open : /\ holder[thread] \in running
                       /\ <<CodexHomeOf(holder[thread]), thread>> \in lockFiles

\* A thread open since the sweep began is listed, or its home is still to be
\* swept, unless there is a reason to miss it.
KeptAreListed ==
  \A thread \in kept :
    /\ thread \in Open
    /\ LET codex == holder[thread]
       IN  \/ record[thread].subagent
           \/ ~codex.readable /\ ~codex.mine
           \/ codexOverride \notin {NoHome, CodexHomeOf(codex)}
           \/ CodexHomeOf(codex) \in homes
           \/ <<CodexHomeOf(codex), thread>> \in unread
           \/ \E session \in listed : session.id = thread

\* What is listed was open, is no subagent that could be told, and once.
ListedWereOpen ==
  /\ Open \subseteq opened
  /\ \A session \in listed :
       /\ session.id \in opened
       /\ record[session.id].subagent /\ record[session.id].inState => session.id \in blind
       /\ \A other \in listed : other.id = session.id => other = session

CodexSweepInv ==
  /\ CodexSourceTypeOK
  /\ LocksAreHeld
  /\ homes # NoHome => KeptAreListed /\ ListedWereOpen

-----------------------------------------------------------------------------
LEMMA HomesAreTold ==
  ASSUME NEW codex \in Codexes
  PROVE  /\ HomeFor(codex) = CodexHomeOf(codex)
         /\ CodexHomeOf(codex) \in CodexHomes
         /\ DefaultHome \in CodexHomes
<1>1. DotCodex \in [UserHomes -> CodexHomes] /\ WatcherUser \in UserHomes
  BY CodexSourceAssumption
<1>. QED
  BY <1>1 DEF HomeFor, CodexHomeOf, DefaultHome

LEMMA NoHomeIsNone ==
  /\ NoHome \notin CodexHomes /\ NoHome \notin Codexes /\ NoHome \notin SUBSET CodexHomes
BY CodexSourceAssumption

LEMMA CodexHostStep ==
  ASSUME CodexSweepInv, NEW codex \in Codexes,
         \/ StartCodex(codex) \/ StopCodex(codex)
         \/ \E thread \in Threads : TakeLock(codex, thread)
  PROVE  CodexSweepInv'
<1>. USE NoHomeIsNone
<1>1. CASE StartCodex(codex)
  <2>1. UNCHANGED <<codexOverride, holder, lockFiles, record, homes, listed, opened, kept,
                    unread, blind>> /\ running' = running \cup {codex}
    BY <1>1 DEF StartCodex
  <2>. QED
    BY <2>1 DEF CodexSweepInv, CodexSourceTypeOK, LocksAreHeld, KeptAreListed, ListedWereOpen, Open
<1>2. CASE StopCodex(codex)
  <2>1. /\ UNCHANGED <<codexOverride, lockFiles, record, homes, listed, opened, unread, blind>>
        /\ running' = running \ {codex}
        /\ holder' = [thread \in Threads |->
                        IF holder[thread] = codex THEN NoHome ELSE holder[thread]]
        /\ kept' = {thread \in kept : holder'[thread] # NoHome}
    BY <1>2 DEF StopCodex
  <2>2. CodexSourceTypeOK'
    BY <2>1 DEF CodexSweepInv, CodexSourceTypeOK
  <2>3. \A thread \in Open' : thread \in Open /\ holder'[thread] = holder[thread]
                              /\ holder[thread] # codex
    BY <2>1 DEF Open
  <2>4. LocksAreHeld'
    BY <2>1, <2>3 DEF CodexSweepInv, LocksAreHeld
  <2>5. homes' # NoHome => KeptAreListed'
    <3>1. \A thread \in kept' : thread \in kept /\ thread \in Open'
      BY <2>1 DEF CodexSweepInv, CodexSourceTypeOK, Open
    <3>. QED
      BY <2>1, <2>3, <3>1 DEF CodexSweepInv, KeptAreListed
  <2>6. homes' # NoHome => ListedWereOpen'
    BY <2>1, <2>3 DEF CodexSweepInv, ListedWereOpen
  <2>. QED
    BY <2>2, <2>4, <2>5, <2>6 DEF CodexSweepInv
<1>3. ASSUME NEW thread \in Threads, TakeLock(codex, thread)
      PROVE  CodexSweepInv'
  <2>1. /\ UNCHANGED <<codexOverride, running, record, homes, listed, kept, unread, blind>>
        /\ codex \in running /\ holder[thread] = NoHome
        /\ holder' = [holder EXCEPT ![thread] = codex]
        /\ lockFiles' = lockFiles \cup {<<CodexHomeOf(codex), thread>>}
        /\ opened' = IF homes = NoHome THEN {} ELSE opened \cup {thread}
    BY <1>3 DEF TakeLock
  <2>2. CodexSourceTypeOK'
    BY <2>1, HomesAreTold DEF CodexSweepInv, CodexSourceTypeOK
  <2>3. /\ Open' = Open \cup {thread} /\ thread \notin Open
        /\ \A t \in Open : holder'[t] = holder[t]
        /\ holder'[thread] = codex
    BY <2>1 DEF CodexSweepInv, CodexSourceTypeOK, Open
  <2>4. LocksAreHeld'
    BY <2>1, <2>3 DEF CodexSweepInv, LocksAreHeld
  <2>5. homes' # NoHome => KeptAreListed'
    <3>. SUFFICES ASSUME homes # NoHome, NEW t \in kept
                  PROVE  /\ t \in Open'
                         /\ holder'[t] = holder[t]
      BY <2>1, <2>3 DEF CodexSweepInv, KeptAreListed
    <3>1. t \in Open
      BY DEF CodexSweepInv, KeptAreListed
    <3>. QED
      BY <2>3, <3>1
  <2>6. homes' # NoHome => ListedWereOpen'
    BY <2>1, <2>3 DEF CodexSweepInv, ListedWereOpen
  <2>. QED
    BY <2>2, <2>4, <2>5, <2>6 DEF CodexSweepInv
<1>. QED
  BY <1>1, <1>2, <1>3

LEMMA BeginHomesStep ==
  ASSUME CodexSweepInv, BeginHomes
  PROVE  CodexSweepInv'
<1>1. /\ homes' = ResolvedHomes({codex \in running : codex.readable})
      /\ codexOverride # NoHome \/ EnvironmentsReadable
      /\ listed' = {} /\ opened' = Open /\ kept' = Open
      /\ UNCHANGED <<codexOverride, running, holder, lockFiles, record>>
  BY DEF BeginHomes, codexHostVars
<1>2. /\ \A codex \in running : codex \in Codexes
      /\ \A codex \in Codexes : HomeFor(codex) = CodexHomeOf(codex) /\ HomeFor(codex) \in CodexHomes
      /\ DefaultHome \in CodexHomes
  BY HomesAreTold, CodexSourceAssumption DEF CodexSweepInv, CodexSourceTypeOK, DefaultHome
<1>3. homes' \in SUBSET CodexHomes
  BY <1>1, <1>2 DEF ResolvedHomes, CodexSweepInv, CodexSourceTypeOK
<1>4. CodexSourceTypeOK'
  BY <1>1, <1>3 DEF CodexSweepInv, CodexSourceTypeOK, Open
<1>5. Open' = Open /\ LocksAreHeld'
  BY <1>1 DEF CodexSweepInv, LocksAreHeld, Open
<1>6. KeptAreListed'
  <2>. SUFFICES ASSUME NEW thread \in Open
                PROVE  \/ ~holder[thread].readable /\ ~holder[thread].mine
                       \/ codexOverride \notin {NoHome, CodexHomeOf(holder[thread])}
                       \/ CodexHomeOf(holder[thread]) \in homes'
    BY <1>1, <1>5 DEF KeptAreListed
  <2>1. holder[thread] \in running /\ HomeFor(holder[thread]) = CodexHomeOf(holder[thread])
    BY <1>2 DEF CodexSweepInv, LocksAreHeld
  <2>2. CASE codexOverride # NoHome
    BY <1>1, <2>2 DEF ResolvedHomes
  <2>3. CASE codexOverride = NoHome
    <3>1. holder[thread].mine => holder[thread].readable
      BY <1>1, <2>1, <2>3 DEF EnvironmentsReadable
    <3>2. holder[thread].readable => HomeFor(holder[thread]) \in homes'
      BY <1>1, <2>1, <2>3 DEF ResolvedHomes
    <3>. QED
      BY <2>1, <3>1, <3>2
  <2>. QED
    BY <2>2, <2>3
<1>7. ListedWereOpen'
  BY <1>1, <1>5 DEF ListedWereOpen
<1>. QED
  BY <1>4, <1>5, <1>6, <1>7 DEF CodexSweepInv

LEMMA SweepHomeStep ==
  ASSUME CodexSweepInv, NEW home \in CodexHomes, SweepHome(home)
  PROVE  CodexSweepInv'
<1>1. PICK unreadable \in SUBSET Columns,
           skipped \in SUBSET {thread \in Threads : Locked(home, thread)} :
        LET columns == Columns \ unreadable
            found == {thread \in Threads \ skipped :
                        Locked(home, thread) /\ ~Subagent(thread, columns)}
            seen == {session.id : session \in listed}
        IN  /\ listed' = listed \cup {SessionOf(home, thread, columns) : thread \in found \ seen}
            /\ blind' = IF "source" \in unreadable THEN blind \cup found ELSE blind
            /\ unread' = unread \cup ({home} \X skipped)
  BY DEF SweepHome
<1>. DEFINE columns == Columns \ unreadable
            found == {thread \in Threads \ skipped :
                        Locked(home, thread) /\ ~Subagent(thread, columns)}
            seen == {session.id : session \in listed}
            new == {SessionOf(home, thread, columns) : thread \in found \ seen}
<1>2. /\ listed' = listed \cup new
      /\ blind' = IF "source" \in unreadable THEN blind \cup found ELSE blind
      /\ unread \subseteq unread' /\ \A thread \in skipped : <<home, thread>> \in unread'
  BY <1>1
<1>3. /\ homes' = homes \ {home} /\ home \in homes /\ homes # NoHome /\ homes' # NoHome
      /\ UNCHANGED <<codexOverride, running, holder, lockFiles, record, opened, kept>>
  <2>1. /\ homes' = homes \ {home} /\ home \in homes /\ homes # NoHome
        /\ UNCHANGED <<codexOverride, running, holder, lockFiles, record, opened, kept>>
    BY DEF SweepHome, codexHostVars
  <2>2. homes \ {home} \in SUBSET CodexHomes
    BY <2>1 DEF CodexSweepInv, CodexSourceTypeOK
  <2>. QED
    BY <2>1, <2>2, NoHomeIsNone
<1>4. \A thread : SessionOf(home, thread, columns).id = thread
  BY DEF SessionOf
<1>5. /\ \A session \in new : session.id \in found /\ session.id \notin seen
                              /\ session = SessionOf(home, session.id, columns)
      /\ \A thread \in found \ seen : \E session \in new : session.id = thread
  BY <1>4
<1>6. /\ found \subseteq Open
      /\ \A thread \in found : ("source" \in unreadable \/ ~record[thread].inState
                                  \/ ~record[thread].subagent)
      /\ \A thread \in Open : CodexHomeOf(holder[thread]) = home /\ ~record[thread].subagent
                                /\ <<home, thread>> \in lockFiles
                                /\ thread \notin skipped => thread \in found
  BY DEF Locked, Subagent, Open, Columns
<1>7. \A session \in listed : session.id \in seen
  OBVIOUS
<1>8. \A thread \in seen : \E session \in listed : session.id = thread
  OBVIOUS
<1>. HIDE DEF columns, found, seen, new
<1>9. Open' = Open /\ CodexSourceTypeOK' /\ LocksAreHeld'
  BY <1>3 DEF CodexSweepInv, CodexSourceTypeOK, LocksAreHeld, Open
<1>10. KeptAreListed'
  <2>. SUFFICES ASSUME NEW thread \in kept, ~record[thread].subagent,
                       CodexHomeOf(holder[thread]) = home, thread \notin skipped
                PROVE  \E session \in listed' : session.id = thread
    BY <1>2, <1>3, <1>9 DEF CodexSweepInv, KeptAreListed
  <2>1. thread \in found
    BY <1>3, <1>6 DEF CodexSweepInv, KeptAreListed, LocksAreHeld
  <2>. QED
    BY <1>2, <1>5, <1>8, <2>1
<1>11. ListedWereOpen'
  <2>1. Open' \subseteq opened'
    BY <1>3, <1>9 DEF CodexSweepInv, ListedWereOpen
  <2>2. ASSUME NEW session \in listed'
        PROVE  /\ session.id \in opened'
               /\ record'[session.id].subagent /\ record'[session.id].inState
                    => session.id \in blind'
    <3>1. CASE session \in listed
      BY <1>2, <1>3, <3>1 DEF CodexSweepInv, ListedWereOpen
    <3>2. CASE session \in new
      BY <1>2, <1>3, <1>5, <1>6, <3>2 DEF CodexSweepInv, ListedWereOpen
    <3>. QED
      BY <1>2, <3>1, <3>2
  <2>3. \A session, other \in listed' : other.id = session.id => other = session
    BY <1>2, <1>3, <1>5, <1>7 DEF CodexSweepInv, ListedWereOpen
  <2>. QED
    BY <2>1, <2>2, <2>3 DEF ListedWereOpen
<1>. QED
  BY <1>3, <1>9, <1>10, <1>11 DEF CodexSweepInv

LEMMA CodexSweepStep ==
  CodexSweepInv /\ [CodexSourceNext]_codexSourceVars => CodexSweepInv'
<1>. SUFFICES ASSUME CodexSweepInv, [CodexSourceNext]_codexSourceVars PROVE CodexSweepInv'
  OBVIOUS
<1>1. CASE \E codex \in Codexes : \/ StartCodex(codex) \/ StopCodex(codex)
                                  \/ \E thread \in Threads : TakeLock(codex, thread)
  BY <1>1, CodexHostStep
<1>2. CASE BeginHomes
  BY <1>2, BeginHomesStep
<1>3. CASE HomesFail
  BY <1>3 DEF HomesFail, codexHostVars, CodexSweepInv, CodexSourceTypeOK, LocksAreHeld, Open
<1>4. ASSUME NEW home \in CodexHomes, SweepHome(home) PROVE CodexSweepInv'
  BY <1>4, SweepHomeStep
<1>5. ASSUME NEW home \in CodexHomes, LocksUnreadable(home) PROVE CodexSweepInv'
  <2>1. /\ homes' = homes \ {home} /\ unread' = unread \cup ({home} \X Threads) /\ homes # NoHome
        /\ UNCHANGED <<codexOverride, running, holder, lockFiles, record, listed, opened, kept,
                       blind>>
    BY <1>5 DEF LocksUnreadable, codexHostVars
  <2>2. CodexSourceTypeOK' /\ LocksAreHeld' /\ Open' = Open
    BY <2>1 DEF CodexSweepInv, CodexSourceTypeOK, LocksAreHeld, Open
  <2>3. \A thread \in kept : <<home, thread>> \in unread'
    BY <2>1 DEF CodexSweepInv, CodexSourceTypeOK
  <2>4. KeptAreListed' /\ ListedWereOpen'
    BY <2>1, <2>2, <2>3 DEF CodexSweepInv, KeptAreListed, ListedWereOpen
  <2>. QED
    BY <2>2, <2>4 DEF CodexSweepInv
<1>6. CASE EndHomes
  <2>1. homes' = NoHome /\ kept' = {} /\ opened' = {}
        /\ UNCHANGED <<codexOverride, running, holder, lockFiles>>
    BY <1>6 DEF EndHomes, codexHostVars
  <2>2. CodexSourceTypeOK'
    BY <2>1 DEF CodexSweepInv, CodexSourceTypeOK
  <2>3. LocksAreHeld'
    BY <2>1 DEF CodexSweepInv, LocksAreHeld, Open
  <2>. QED
    BY <2>1, <2>2, <2>3 DEF CodexSweepInv
<1>7. CASE UNCHANGED codexSourceVars
  BY <1>7 DEF codexSourceVars, codexHostVars, CodexSweepInv, CodexSourceTypeOK, LocksAreHeld,
              KeptAreListed, ListedWereOpen, Open
<1>. QED
  BY <1>1, <1>2, <1>3, <1>4, <1>5, <1>6, <1>7 DEF CodexSourceNext

LEMMA CodexSweepIsInductive == CodexSourceSpec => []CodexSweepInv
<1>1. CodexSourceInit => CodexSweepInv
  <2>. SUFFICES ASSUME CodexSourceInit PROVE CodexSweepInv
    OBVIOUS
  <2>1. codexOverride \in CodexHomes \cup {NoHome}
    BY CodexSourceAssumption DEF CodexSourceInit
  <2>2. CodexSourceTypeOK
    BY <2>1 DEF CodexSourceInit, CodexSourceTypeOK
  <2>3. Open = {} /\ homes = NoHome
    BY DEF CodexSourceInit, Open
  <2>. QED
    BY <2>2, <2>3 DEF CodexSweepInv, LocksAreHeld
<1>. QED
  BY <1>1, CodexSweepStep, PTL DEF CodexSourceSpec

\* Only the end of a sweep publishes what was listed.
LEMMA SweepsEnd ==
  ASSUME CodexSweepInv, CodexSourceNext, HomesSwept
  PROVE  homes # NoHome /\ published' = listed /\ KeptAreListed /\ ListedWereOpen
<1>1. homes = {} /\ homes # NoHome /\ homes' = NoHome
  BY NoHomeIsNone DEF HomesSwept
<1>2. EndHomes
  BY <1>1 DEF CodexSourceNext, StartCodex, StopCodex, TakeLock, BeginHomes, HomesFail, SweepHome,
              LocksUnreadable
<1>. QED
  BY <1>1, <1>2 DEF EndHomes, CodexSweepInv

(***************************************************************************)
(* A thread open all through a sweep is reported, however many homes there *)
(* are and whatever Codex processes do meanwhile, unless its own lock, the *)
(* directory of the locks or the environment of a Codex of another user    *)
(* could not be read: no failure hides a thread that it is not about.      *)
(***************************************************************************)
THEOREM OpenThreadsAreNotMissed == CodexSourceSpec => OpenThreadsAreFound
<1>1. CodexSweepInv /\ [CodexSourceNext]_codexSourceVars =>
        [HomesSwept => \A thread \in kept :
           LET codex == holder[thread]
           IN  \/ record[thread].subagent
               \/ ~codex.readable /\ ~codex.mine
               \/ codexOverride \notin {NoHome, CodexHomeOf(codex)}
               \/ <<CodexHomeOf(codex), thread>> \in unread
               \/ \E session \in published' : session.id = thread]_codexSourceVars
  BY SweepsEnd DEF KeptAreListed, HomesSwept
<1>. QED
  BY <1>1, CodexSweepIsInductive, PTL DEF CodexSourceSpec, OpenThreadsAreFound

(***************************************************************************)
(* Nothing is reported that was not open, no thread twice, and a subagent  *)
(* only where its row could not be read.                                   *)
(***************************************************************************)
THEOREM NothingElseIsReported == CodexSourceSpec => FoundThreadsWereOpen
<1>1. CodexSweepInv /\ [CodexSourceNext]_codexSourceVars =>
        [HomesSwept => \A session \in published' :
           /\ session.id \in opened
           /\ record[session.id].subagent /\ record[session.id].inState => session.id \in blind
           /\ \A other \in published' : other.id = session.id => other = session]_codexSourceVars
  BY SweepsEnd DEF ListedWereOpen
<1>. QED
  BY <1>1, CodexSweepIsInductive, PTL DEF CodexSourceSpec, FoundThreadsWereOpen

-----------------------------------------------------------------------------
(***************************************************************************)
(* Lines of ps.  What a reading says is a function of the process; as the  *)
(* pieces of a process cover its words, the words that the parser finds by *)
(* looking for assignments are those of whole pieces.                      *)
(***************************************************************************)
ReadingIs ==
  reading # NoKey =>
    /\ reading.outcome = ParsePsOutput(Append(Others, LineOf(observed)))
    /\ reading.uid = ParseUid(LineOf(observed).uid)
    /\ reading.claude = IsClaudeCommand(CommandTokens(PsWords(observed)))
    /\ reading.dir = Value(PsWords(observed), "CLAUDE_CONFIG_DIR")

LEMMA ReadingInvariant == LinesSpec => [](observed \in Observable /\ ReadingIs)
<1>1. LinesInit => observed \in Observable /\ ReadingIs
  BY DEF LinesInit, ReadingIs
<1>2. observed \in Observable /\ ReadingIs /\ [LinesNext]_lineVars
        => (observed \in Observable /\ ReadingIs)'
  <2>. SUFFICES ASSUME observed \in Observable, ReadingIs, [LinesNext]_lineVars
                PROVE  (observed \in Observable /\ ReadingIs)'
    OBVIOUS
  <2>1. CASE Read
    <3>1. UNCHANGED observed
      BY <2>1 DEF Read
    <3>2. /\ reading'.outcome = ParsePsOutput(Append(Others, LineOf(observed)))
          /\ reading'.uid = ParseUid(LineOf(observed).uid)
          /\ reading'.claude = IsClaudeCommand(CommandTokens(PsWords(observed)))
          /\ reading'.dir = Value(PsWords(observed), "CLAUDE_CONFIG_DIR")
      BY <2>1 DEF Read
    <3>. QED
      BY <3>1, <3>2 DEF ReadingIs
  <2>2. CASE UNCHANGED lineVars
    BY <2>2 DEF lineVars, ReadingIs
  <2>. QED
    BY <2>1, <2>2 DEF LinesNext
<1>. QED
  BY <1>1, <1>2, PTL DEF LinesSpec

LEMMA PiecesAre ==
  ASSUME NEW list, IsPieces(list)
  PROVE  /\ Len(list.words) \in Nat /\ Len(list.ends) \in Nat
         /\ list.words \in Seq(Words)
         /\ \A i \in Pieces(list) :
              /\ Start(list, i) \in Nat /\ End(list, i) \in Nat
              /\ 1 <= Start(list, i) /\ Start(list, i) <= End(list, i)
              /\ End(list, i) <= Len(list.words)
         /\ \A i \in Pieces(list) : i + 1 \in Pieces(list) =>
              Start(list, i + 1) = End(list, i) + 1
         /\ \A i \in Pieces(list) : i + 1 \notin Pieces(list) => End(list, i) = Len(list.words)
         /\ Pieces(list) = {} => Len(list.words) = 0
         /\ Pieces(list) # {} => 1 \in Pieces(list) /\ Start(list, 1) = 1
<1>1. /\ list.words \in Seq(Words) /\ list.ends \in Seq(Nat)
      /\ Len(list.words) \in Nat /\ Len(list.ends) \in Nat
      /\ \A i \in 1..Len(list.ends) : list.ends[i] \in Nat /\ list.ends[i] > 0
      /\ \A i, j \in 1..Len(list.ends) : i < j => list.ends[i] < list.ends[j]
      /\ Len(list.words) = IF list.ends = <<>> THEN 0 ELSE list.ends[Len(list.ends)]
  BY DEF IsPieces
<1>2. ASSUME NEW i \in 1..Len(list.ends)
      PROVE  /\ list.ends[i] <= Len(list.words)
             /\ i + 1 \notin 1..Len(list.ends) => list.ends[i] = Len(list.words)
  <2>1. list.ends # <<>> /\ Len(list.ends) \in 1..Len(list.ends)
    BY <1>1
  <2>2. Len(list.words) = list.ends[Len(list.ends)]
    BY <1>1, <2>1
  <2>3. CASE i = Len(list.ends)
    BY <1>1, <2>2, <2>3
  <2>4. CASE i # Len(list.ends)
    <3>1. i < Len(list.ends) /\ i + 1 \in 1..Len(list.ends)
      BY <1>1, <2>4
    <3>2. list.ends[i] < list.ends[Len(list.ends)]
      BY <1>1, <2>1, <3>1
    <3>. QED
      BY <1>1, <2>2, <3>1, <3>2
  <2>. QED
    BY <2>3, <2>4
<1>3. ASSUME NEW i \in 1..Len(list.ends)
      PROVE  /\ Start(list, i) \in Nat /\ 1 <= Start(list, i)
             /\ Start(list, i) <= list.ends[i]
  <2>1. CASE i = 1
    BY <1>1, <2>1 DEF Start
  <2>2. CASE i # 1
    <3>1. i - 1 \in 1..Len(list.ends) /\ i - 1 < i
      BY <1>1, <2>2
    <3>2. list.ends[i - 1] < list.ends[i] /\ list.ends[i - 1] \in Nat
      BY <1>1, <3>1
    <3>. QED
      BY <1>1, <2>2, <3>2 DEF Start
  <2>. QED
    BY <2>1, <2>2
<1>4. \A i \in 1..Len(list.ends) : Start(list, i + 1) = list.ends[i] + 1
  BY <1>1 DEF Start
<1>5. Len(list.ends) = 0 => list.ends = <<>>
  BY <1>1
<1>6. 1..Len(list.ends) = {} => Len(list.ends) = 0
  <2>. SUFFICES ASSUME Len(list.ends) # 0 PROVE 1 \in 1..Len(list.ends)
    OBVIOUS
  <2>. QED
    BY <1>1
<1>7. 1..Len(list.ends) # {} => 1 \in 1..Len(list.ends)
  BY <1>1
<1>. QED
  BY <1>1, <1>2, <1>3, <1>4, <1>5, <1>6, <1>7 DEF Pieces, End, Start

LEMMA JoinedAre ==
  ASSUME NEW a \in Seq(Words), NEW e \in Seq(Words)
  PROVE  /\ a \o e \in Seq(Words)
         /\ Len(a \o e) = Len(a) + Len(e)
         /\ \A k \in 1..Len(a) : (a \o e)[k] = a[k]
         /\ \A k \in 1..Len(e) : (a \o e)[Len(a) + k] = e[k]
<1>1. /\ a \o e \in Seq(Words)
      /\ Len(a \o e) = Len(a) + Len(e)
      /\ \A k \in 1..(Len(a) + Len(e)) : (a \o e)[k] = IF k <= Len(a) THEN a[k] ELSE e[k - Len(a)]
  BY ConcatProperties
<1>2. Len(a) \in Nat /\ Len(e) \in Nat
  OBVIOUS
<1>3. \A k \in 1..Len(a) : k \in 1..(Len(a) + Len(e)) /\ k <= Len(a)
  BY <1>2
<1>4. \A k \in 1..Len(e) : /\ Len(a) + k \in 1..(Len(a) + Len(e))
                           /\ ~(Len(a) + k <= Len(a)) /\ (Len(a) + k) - Len(a) = k
  BY <1>2
<1>. QED
  BY <1>1, <1>3, <1>4, Zenon

LEMMA PsWordsAre ==
  ASSUME NEW proc, IsProcess(proc)
  PROVE  /\ PsWords(proc) \in Seq(Words)
         /\ Len(PsWords(proc)) = Len(proc.args.words) + Len(proc.env.words)
         /\ \A k \in 1..Len(proc.args.words) : PsWords(proc)[k] = proc.args.words[k]
         /\ \A k \in 1..Len(proc.env.words) :
              PsWords(proc)[Len(proc.args.words) + k] = proc.env.words[k]
<1>1. proc.args.words \in Seq(Words) /\ proc.env.words \in Seq(Words)
  BY DEF IsProcess, IsPieces
<1>. QED
  BY <1>1, JoinedAre DEF PsWords

\* The environment starts right after arguments that assign nothing.
LEMMA CommandIsArguments ==
  ASSUME NEW proc, IsProcess(proc),
         \A k \in 1..Len(proc.args.words) : ~Assigns(proc.args.words[k])
  PROVE  CommandTokens(PsWords(proc)) = proc.args.words
<1>. DEFINE words == PsWords(proc)
            args == proc.args.words
            env == proc.env.words
            Begins(i) == /\ i <= Len(words) => Assigns(words[i])
                         /\ \A j \in 1..(i - 1) : ~Assigns(words[j])
<1>1. /\ args \in Seq(Words) /\ Len(args) \in Nat /\ Len(env) \in Nat
      /\ words \in Seq(Words) /\ Len(words) = Len(args) + Len(env)
      /\ \A k \in 1..Len(args) : words[k] = args[k]
      /\ \A k \in 1..Len(env) : words[Len(args) + k] = env[k]
  BY PsWordsAre, PiecesAre DEF IsProcess
<1>2. Len(env) > 0 => Assigns(env[1])
  BY PiecesAre DEF IsProcess, KeyOf, Assigns
<1>. HIDE DEF words, args, env
<1>3. Len(args) + 1 \in 1..(Len(words) + 1)
  BY <1>1
<1>4. Begins(Len(args) + 1)
  <2>1. Len(args) + 1 <= Len(words) => Assigns(words[Len(args) + 1])
    <3>. SUFFICES ASSUME Len(args) + 1 <= Len(words) PROVE Assigns(words[Len(args) + 1])
      OBVIOUS
    <3>1. 1 \in 1..Len(env)
      BY <1>1
    <3>2. words[Len(args) + 1] = env[1]
      BY <1>1, <3>1
    <3>. QED
      BY <1>1, <1>2, <3>1, <3>2
  <2>2. \A j \in 1..((Len(args) + 1) - 1) : ~Assigns(words[j])
    BY <1>1 DEF args
  <2>. QED
    BY <2>1, <2>2
<1>5. \A i, j \in 1..(Len(words) + 1) : Begins(i) /\ Begins(j) => ~(i < j)
  <2>. SUFFICES ASSUME NEW i \in 1..(Len(words) + 1), NEW j \in 1..(Len(words) + 1),
                       Begins(i), Begins(j), i < j
                PROVE  FALSE
    OBVIOUS
  <2>1. i <= Len(words) /\ i \in 1..(j - 1)
    BY <1>1
  <2>. QED
    BY <2>1
<1>6. EnvStart(words) = CHOOSE i \in 1..(Len(words) + 1) : Begins(i)
  BY DEF EnvStart
<1>. HIDE DEF Begins
<1>7. EnvStart(words) \in 1..(Len(words) + 1) /\ Begins(EnvStart(words))
  BY <1>3, <1>4, <1>6
<1>8. EnvStart(words) = Len(args) + 1
  <2>1. ~(EnvStart(words) < Len(args) + 1) /\ ~(Len(args) + 1 < EnvStart(words))
    BY <1>3, <1>4, <1>5, <1>7
  <2>. QED
    BY <1>1, <1>7, <2>1
<1>9. CommandTokens(words) = SubSeq(words, 1, Len(args))
  BY <1>1, <1>8 DEF CommandTokens
<1>10. SubSeq(words, 1, Len(args)) = args
  BY <1>1
<1>. QED
  BY <1>9, <1>10 DEF words, args

\* A piece of no more words than are joined is among the joins.
LEMMA PieceIsJoined ==
  ASSUME NEW list, IsPieces(list), NEW i \in Pieces(list),
         MAX_TOKEN_MERGE \in Nat, End(list, i) - Start(list, i) < MAX_TOKEN_MERGE
  PROVE  End(list, i) \in MergeEnds(list.words, Start(list, i))
<1>1. /\ Start(list, i) \in Nat /\ End(list, i) \in Nat /\ Len(list.words) \in Nat
      /\ Start(list, i) <= End(list, i) /\ End(list, i) <= Len(list.words)
  BY PiecesAre
<1>. QED
  BY <1>1 DEF MergeEnds, Lesser

\* Claude Code is recognised by its arguments, as ps prints them and as /proc
\* keeps them.
LEMMA ArgumentsTell ==
  ASSUME NEW proc, IsProcess(proc), IsClaude(proc),
         MAX_TOKEN_MERGE \in Nat \ {0}
  PROVE  IsClaudeCommand(proc.args.words) /\ IsClaudeCommand(ProcWords(proc))
<1>. DEFINE list == proc.args
            whole == ProcWords(proc)
<1>1. /\ IsPieces(list) /\ 1 \in Pieces(list) /\ Start(list, 1) = 1
      /\ \A i \in Pieces(list) : i + 1 \in Pieces(list) =>
           Start(list, i + 1) = End(list, i) + 1
  BY PiecesAre DEF IsProcess
<1>2. \A i \in Pieces(list) : End(list, i) \in MergeEnds(list.words, Start(list, i))
  BY <1>1, PieceIsJoined DEF IsClaude
<1>3. /\ whole = [i \in 1..Len(list.ends) |-> ProcArg(list, i)]
      /\ Len(list.ends) \in Nat
  BY <1>1, PiecesAre DEF ProcWords, Pieces
<1>4. Len(whole) = Len(list.ends)
  BY <1>3
<1>5. \A i \in Pieces(list) :
        /\ whole[i].stem = CandidateStem(list.words, Start(list, i), End(list, i))
        /\ whole[i].package => \E k \in Start(list, i)..End(list, i) : list.words[k].package
        /\ i \in MergeEnds(whole, i) /\ CandidateStem(whole, i, i) = whole[i].stem
  <2>. SUFFICES ASSUME NEW i \in Pieces(list)
                PROVE  /\ whole[i].stem = CandidateStem(list.words, Start(list, i), End(list, i))
                       /\ whole[i].package => \E k \in Start(list, i)..End(list, i) :
                                              list.words[k].package
                       /\ i \in MergeEnds(whole, i) /\ CandidateStem(whole, i, i) = whole[i].stem
    OBVIOUS
  <2>1. i \in 1..Len(list.ends)
    BY DEF Pieces
  <2>2. whole[i] = ProcArg(list, i)
    BY <1>3, <2>1
  <2>3. i \in MergeEnds(whole, i)
    <3>. HIDE DEF whole
    <3>. QED
      BY <1>3, <1>4, <2>1 DEF MergeEnds, Lesser
  <2>4. CandidateStem(whole, i, i) = whole[i].stem
    BY DEF CandidateStem
  <2>5. /\ ProcArg(list, i).stem = CandidateStem(list.words, Start(list, i), End(list, i))
        /\ ProcArg(list, i).package = \E k \in Start(list, i)..End(list, i) :
                                        list.words[k].package
    BY DEF ProcArg
  <2>. QED
    BY <2>2, <2>3, <2>4, <2>5
<1>6. whole[1].stem = "claude" \/ (/\ whole[1].stem = "node" /\ Len(whole) > 1
                                  /\ whole[2].stem = "cli" /\ whole[2].package)
  BY DEF IsClaude
<1>. HIDE DEF list, whole
<1>7. CASE whole[1].stem = "claude"
  <2>1. IsClaudeExe(list.words, 1, End(list, 1)) /\ End(list, 1) \in MergeEnds(list.words, 1)
    BY <1>1, <1>2, <1>5, <1>7 DEF IsClaudeExe
  <2>2. IsClaudeExe(whole, 1, 1) /\ 1 \in MergeEnds(whole, 1)
    BY <1>1, <1>5, <1>7 DEF IsClaudeExe
  <2>. QED
    BY <2>1, <2>2 DEF IsClaudeCommand, list, whole
<1>8. CASE /\ whole[1].stem = "node" /\ Len(whole) > 1
           /\ whole[2].stem = "cli" /\ whole[2].package
  <2>1. 2 \in Pieces(list) /\ Start(list, 2) = End(list, 1) + 1
    <3>1. 1 + 1 \in Pieces(list)
      BY <1>3, <1>4, <1>8 DEF Pieces
    <3>. QED
      BY <1>1, <3>1
  <2>2. LooksLikeNode(list.words, 1, End(list, 1)) /\ End(list, 1) \in MergeEnds(list.words, 1)
    BY <1>1, <1>2, <1>5, <1>8 DEF LooksLikeNode
  <2>3. /\ LooksLikeClaudeCodeScript(list.words, End(list, 1) + 1, End(list, 2))
        /\ End(list, 2) \in MergeEnds(list.words, End(list, 1) + 1)
    BY <1>2, <1>5, <1>8, <2>1 DEF LooksLikeClaudeCodeScript
  <2>4. LooksLikeNode(whole, 1, 1) /\ 1 \in MergeEnds(whole, 1)
    BY <1>1, <1>5, <1>8 DEF LooksLikeNode
  <2>5. LooksLikeClaudeCodeScript(whole, 1 + 1, 2) /\ 2 \in MergeEnds(whole, 1 + 1)
    <3>1. CandidateStem(whole, 2, 2) = "cli" /\ 2 \in MergeEnds(whole, 2) /\ 2 \in 2..2
      BY <1>5, <1>8, <2>1
    <3>. QED
      BY <1>8, <3>1 DEF LooksLikeClaudeCodeScript
  <2>. QED
    BY <2>2, <2>3, <2>4, <2>5 DEF IsClaudeCommand, list, whole
<1>. QED
  BY <1>6, <1>7, <1>8

\* The line of a process is an entry, under the uid it has.
LEMMA LineIsEntry ==
  ASSUME NEW proc, IsProcess(proc), UidHalf \in Nat \ {0}
  PROVE  /\ ParseUid(LineOf(proc).uid) = proc.uid
         /\ ParsePsOutput(Append(Others, LineOf(proc))) = "Entries"
<1>. DEFINE line == LineOf(proc)
            lines == Append(Others, line)
<1>1. /\ line.blank = FALSE /\ line.pid = 1
      /\ line.uid = PrintedUid(proc.uid) /\ line.words = PsWords(proc)
  BY DEF LineOf
<1>2. ParseUid(PrintedUid(proc.uid)) = proc.uid /\ proc.uid >= 0
  <2>1. proc.uid \in 0..(2 * UidHalf - 1)
    BY DEF IsProcess
  <2>2. CASE proc.uid < UidHalf
    BY <2>1, <2>2 DEF PrintedUid, ParseUid
  <2>3. CASE ~(proc.uid < UidHalf)
    <3>1. PrintedUid(proc.uid) = proc.uid - 2 * UidHalf
      BY <2>3 DEF PrintedUid
    <3>2. /\ proc.uid - 2 * UidHalf \in (0 - UidHalf)..(0 - 1)
          /\ proc.uid - 2 * UidHalf \notin 0..(2 * UidHalf - 1)
          /\ (proc.uid - 2 * UidHalf) + 2 * UidHalf = proc.uid
      BY <2>1, <2>3
    <3>. QED
      BY <2>1, <3>1, <3>2 DEF ParseUid
  <2>. QED
    BY <2>1, <2>2, <2>3
<1>3. PsWords(proc) # <<>>
  <2>1. /\ IsPieces(proc.args) /\ 1 \in Pieces(proc.args)
        /\ Len(proc.args.words) \in Nat /\ Len(proc.env.words) \in Nat
    BY PiecesAre DEF IsProcess
  <2>2. Len(proc.args.words) > 0
    <3>1. /\ Start(proc.args, 1) \in Nat /\ End(proc.args, 1) \in Nat
          /\ 1 <= Start(proc.args, 1) /\ Start(proc.args, 1) <= End(proc.args, 1)
          /\ End(proc.args, 1) <= Len(proc.args.words)
      BY <2>1, PiecesAre
    <3>. QED
      BY <2>1, <3>1
  <2>3. Len(PsWords(proc)) = Len(proc.args.words) + Len(proc.env.words)
    BY PsWordsAre
  <2>. DEFINE a == Len(proc.args.words)
              e == Len(proc.env.words)
              n == Len(PsWords(proc))
  <2>4. n # 0
    <3>1. a \in Nat /\ e \in Nat /\ a > 0 /\ n = a + e
      BY <2>1, <2>2, <2>3
    <3>. HIDE DEF a, e, n
    <3>. QED
      BY <3>1
  <2>. QED
    BY <2>4
<1>4. LineOutcome(line) = "Entry"
  <2>. HIDE DEF line
  <2>1. ParseUid(line.uid) = proc.uid /\ ~(line.pid < 0) /\ line.words # <<>> /\ ~line.blank
    BY <1>1, <1>2, <1>3
  <2>2. ~(proc.uid < 0)
    BY DEF IsProcess
  <2>. QED
    BY <2>1, <2>2 DEF LineOutcome
<1>. HIDE DEF line
<1>5. Len(lines) = 3 /\ lines[1] = Others[1] /\ lines[2] = Others[2] /\ lines[3] = line
  BY DEF Others
<1>6. LineOutcome(Others[1]) # "Malformed" /\ LineOutcome(Others[2]) # "Malformed"
  BY DEF Others, LineOutcome, ParseUid
<1>. HIDE DEF lines
<1>7. \A i \in 1..Len(lines) : LineOutcome(lines[i]) # "Malformed"
  <2>1. \A i \in 1..Len(lines) : i = 1 \/ i = 2 \/ i = 3
    BY <1>5
  <2>. QED
    BY <1>4, <1>5, <1>6, <2>1
<1>8. 3 \in 1..Len(lines) /\ LineOutcome(lines[3]) # "Benign"
  BY <1>4, <1>5
<1>9. ParsePsOutput(lines) = "Entries"
  BY <1>7, <1>8 DEF ParsePsOutput
<1>. QED
  BY <1>1, <1>2, <1>9 DEF lines, line

(***************************************************************************)
(* Claude Code is recognised among any processes, whatever its paths and   *)
(* its environment hold, as long as no argument looks like an assignment.  *)
(***************************************************************************)
THEOREM ClaudeIsAlwaysRecognised == LinesSpec => []ClaudeIsRecognised
<1>1. observed \in Observable /\ ReadingIs => ClaudeIsRecognised
  <2>. SUFFICES ASSUME observed \in Observable, ReadingIs, reading # NoKey
                PROVE  /\ reading.outcome = "Entries"
                       /\ reading.uid = observed.uid
                       /\ IsClaude(observed) /\ ArgumentsAssignNothing =>
                            reading.claude /\ IsClaudeCommand(ProcWords(observed))
    BY DEF ClaudeIsRecognised
  <2>1. IsProcess(observed) /\ UidHalf \in Nat \ {0} /\ MAX_TOKEN_MERGE \in Nat \ {0}
    BY LinesAssumption
  <2>2. reading.outcome = "Entries" /\ reading.uid = observed.uid
    BY <2>1, LineIsEntry DEF ReadingIs
  <2>3. ASSUME IsClaude(observed), ArgumentsAssignNothing
        PROVE  reading.claude /\ IsClaudeCommand(ProcWords(observed))
    <3>1. CommandTokens(PsWords(observed)) = observed.args.words
      BY <2>1, <2>3, CommandIsArguments DEF ArgumentsAssignNothing
    <3>2. reading.claude = IsClaudeCommand(observed.args.words)
      BY <3>1 DEF ReadingIs
    <3>. QED
      BY <2>1, <2>3, <3>2, ArgumentsTell
  <2>. QED
    BY <2>2, <2>3
<1>. QED
  BY <1>1, ReadingInvariant, PTL

\* The value of a variable is its piece of the environment, when no argument
\* assigns anything, no earlier word has its key and no later word of its own
\* piece assigns anything.
LEMMA ValueIsPiece ==
  ASSUME NEW proc, IsProcess(proc), NEW key \in Keys, NoKey \notin Keys,
         \A k \in 1..Len(proc.args.words) : ~Assigns(proc.args.words[k]),
         NEW i \in Pieces(proc.env), KeyOf(proc.env, i) = key,
         \A k \in (Start(proc.env, i) + 1)..End(proc.env, i) : ~Assigns(proc.env.words[k]),
         \A k \in 1..(Start(proc.env, i) - 1) : proc.env.words[k].key # key
  PROVE  Value(PsWords(proc), key) = Piece(proc.env, i)
<1>. DEFINE words == PsWords(proc)
            args == proc.args.words
            env == proc.env.words
            s == Start(proc.env, i)
            t == End(proc.env, i)
            n == Len(args)
<1>1. /\ env \in Seq(Words)
      /\ n \in Nat /\ Len(env) \in Nat /\ Len(words) = n + Len(env)
      /\ \A k \in 1..n : words[k] = args[k]
      /\ \A k \in 1..Len(env) : words[n + k] = env[k]
  BY PsWordsAre, PiecesAre DEF IsProcess
<1>2. s \in Nat /\ t \in Nat /\ 1 <= s /\ s <= t /\ t <= Len(env)
  BY PiecesAre DEF IsProcess
<1>3. t < Len(env) => Assigns(env[t + 1])
  <2>. SUFFICES ASSUME t < Len(env) PROVE Assigns(env[t + 1])
    OBVIOUS
  <2>1. i + 1 \in Pieces(proc.env) /\ Start(proc.env, i + 1) = t + 1
    BY <1>2, PiecesAre DEF IsProcess
  <2>2. KeyOf(proc.env, i + 1) # NoKey
    BY <2>1 DEF IsProcess
  <2>. QED
    BY <2>1, <2>2 DEF KeyOf, Assigns
<1>4. /\ env[s].key = key
      /\ \A k \in (s + 1)..t : ~Assigns(env[k])
      /\ \A k \in 1..(s - 1) : env[k].key # key
      /\ \A k \in 1..n : args[k].key # key
  BY DEF KeyOf, Assigns
<1>5. Piece(proc.env, i) = SubSeq(env, s, t)
  BY DEF Piece
<1>. HIDE DEF words, args, env, s, t, n
<1>6. words[n + s].key = key /\ n + s \in 1..Len(words)
  BY <1>1, <1>2, <1>4
<1>7. \A k \in 1..((n + s) - 1) : words[k].key # key
  <2>. SUFFICES ASSUME NEW k \in 1..((n + s) - 1) PROVE words[k].key # key
    OBVIOUS
  <2>1. CASE k <= n
    BY <1>1, <1>2, <1>4, <2>1
  <2>2. CASE ~(k <= n)
    <3>1. k - n \in 1..(s - 1) /\ k - n \in 1..Len(env) /\ n + (k - n) = k
      BY <1>1, <1>2, <2>2
    <3>2. words[k] = env[k - n]
      BY <1>1, <3>1
    <3>. QED
      BY <1>4, <3>1, <3>2
  <2>. QED
    BY <2>1, <2>2
<1>. DEFINE First(k) == words[k].key = key /\ \A j \in 1..(k - 1) : words[j].key # key
<1>8. FirstAssignment(words, key) = n + s
  <2>1. First(n + s)
    BY <1>6, <1>7
  <2>2. ASSUME NEW k \in 1..Len(words), First(k) PROVE k = n + s
    <3>1. ~(k < n + s) /\ ~(n + s < k)
      BY <1>1, <1>2, <1>6, <1>7, <2>2
    <3>. QED
      BY <1>1, <1>2, <3>1
  <2>3. FirstAssignment(words, key) = CHOOSE k \in 1..Len(words) : First(k)
    BY DEF FirstAssignment
  <2>. HIDE DEF First
  <2>. QED
    BY <1>6, <2>1, <2>2, <2>3
<1>. DEFINE Last(k) == /\ k < Len(words) => Assigns(words[k + 1])
                       /\ \A j \in ((n + s) + 1)..k : ~Assigns(words[j])
<1>9. ValueEnd(words, n + s) = n + t
  <2>1. n + t \in (n + s)..Len(words)
    BY <1>1, <1>2
  <2>2. Last(n + t)
    <3>1. n + t < Len(words) => Assigns(words[(n + t) + 1])
      <4>. SUFFICES ASSUME n + t < Len(words) PROVE Assigns(words[(n + t) + 1])
        OBVIOUS
      <4>1. t < Len(env) /\ t + 1 \in 1..Len(env) /\ n + (t + 1) = (n + t) + 1
        BY <1>1, <1>2
      <4>2. words[(n + t) + 1] = env[t + 1]
        BY <1>1, <4>1
      <4>. QED
        BY <1>3, <4>1, <4>2
    <3>2. ASSUME NEW j \in ((n + s) + 1)..(n + t) PROVE ~Assigns(words[j])
      <4>1. j - n \in (s + 1)..t /\ j - n \in 1..Len(env) /\ n + (j - n) = j
        BY <1>1, <1>2
      <4>2. words[j] = env[j - n]
        BY <1>1, <4>1
      <4>. QED
        BY <1>4, <4>1, <4>2
    <3>. QED
      BY <3>1, <3>2
  <2>3. ASSUME NEW k \in (n + s)..Len(words), Last(k) PROVE k = n + t
    <3>1. ~(k < n + t)
      <4>. SUFFICES ASSUME k < n + t PROVE FALSE
        OBVIOUS
      <4>1. k < Len(words) /\ k + 1 \in ((n + s) + 1)..(n + t)
        BY <1>1, <1>2, <2>1
      <4>. QED
        BY <2>2, <2>3, <4>1
    <3>2. ~(n + t < k)
      <4>. SUFFICES ASSUME n + t < k PROVE FALSE
        OBVIOUS
      <4>1. n + t < Len(words) /\ (n + t) + 1 \in ((n + s) + 1)..k
        BY <1>1, <1>2
      <4>. QED
        BY <2>2, <2>3, <4>1
    <3>3. k \in Int /\ n + t \in Int
      BY <1>1, <1>2
    <3>. QED
      BY <3>1, <3>2, <3>3
  <2>4. ValueEnd(words, n + s) = CHOOSE k \in (n + s)..Len(words) : Last(k)
    BY DEF ValueEnd
  <2>. HIDE DEF Last
  <2>. QED
    BY <2>1, <2>2, <2>3, <2>4
<1>10. Value(words, key) = SubSeq(words, n + s, n + t)
  BY <1>6, <1>8, <1>9 DEF Value
<1>11. SubSeq(words, n + s, n + t) = SubSeq(env, s, t)
  <2>1. \A k \in s..t : k \in 1..Len(env) /\ words[n + k] = env[k]
    BY <1>1, <1>2
  <2>2. /\ \A k \in (n + s)..(n + t) : words[k] \in Words
        /\ \A k \in s..t : env[k] \in Words
    <3>1. \A k \in s..t : env[k] \in Words
      BY <1>1, <1>2
    <3>2. ASSUME NEW k \in (n + s)..(n + t) PROVE words[k] \in Words
      <4>1. k - n \in s..t /\ n + (k - n) = k
        BY <1>1, <1>2
      <4>. QED
        BY <2>1, <3>1, <4>1
    <3>. QED
      BY <3>1, <3>2
  <2>3. /\ n + s \in Int /\ n + t \in Int /\ s \in Int /\ t \in Int
        /\ (n + t) - (n + s) + 1 = t - s + 1
    BY <1>1, <1>2
  <2>4. /\ SubSeq(words, n + s, n + t) \in Seq(Words)
        /\ Len(SubSeq(words, n + s, n + t)) = t - s + 1
        /\ \A k \in 1..(t - s + 1) : SubSeq(words, n + s, n + t)[k] = words[(n + s) + k - 1]
    BY <1>1, <1>2, <2>2, <2>3, SubSeqProperties
  <2>5. /\ SubSeq(env, s, t) \in Seq(Words)
        /\ Len(SubSeq(env, s, t)) = t - s + 1
        /\ \A k \in 1..(t - s + 1) : SubSeq(env, s, t)[k] = env[s + k - 1]
    BY <1>2, <2>2, <2>3, SubSeqProperties
  <2>6. \A k \in 1..(t - s + 1) : SubSeq(words, n + s, n + t)[k] = SubSeq(env, s, t)[k]
    <3>. SUFFICES ASSUME NEW k \in 1..(t - s + 1)
                  PROVE  words[(n + s) + k - 1] = env[s + k - 1]
      BY <2>4, <2>5
    <3>1. s + k - 1 \in s..t /\ n + (s + k - 1) = (n + s) + k - 1
      BY <1>1, <1>2
    <3>. QED
      BY <2>1, <3>1
  <2>. QED
    BY <2>4, <2>5, <2>6, SeqEqual
<1>. QED
  BY <1>5, <1>10, <1>11 DEF words, env, s, t

(***************************************************************************)
(* The first-wins rule: whatever the values of other variables hold, the   *)
(* directory read is the one the process was given, if the variable comes  *)
(* before every value that looks like an assignment of it.                 *)
(***************************************************************************)
THEOREM FirstAssignmentIsReal == LinesSpec => []RealAssignmentWins
<1>1. observed \in Observable /\ ReadingIs => RealAssignmentWins
  BY LinesAssumption, ValueIsPiece DEF RealAssignmentWins, ReadingIs, ArgumentsAssignNothing
<1>. QED
  BY <1>1, ReadingInvariant, PTL
=============================================================================
