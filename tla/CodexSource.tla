---------------------------- MODULE CodexSource ----------------------------
(***************************************************************************)
(* The Codex source of the watcher (crates/watcher/src/codex.rs): which    *)
(* Codex homes to look in, from the environments of the Codex processes,   *)
(* which writer locks in them are held, and what the state database and    *)
(* the rollouts say of the thread behind a lock.                           *)
(*                                                                         *)
(* Codex processes start and end and take and release locks between the    *)
(* steps of a sweep.  Only the enumeration can fail a sweep; whatever else *)
(* cannot be read makes the list shorter or an entry poorer.               *)
(***************************************************************************)
EXTENDS Integers, FiniteSets

CONSTANTS
  Codexes,        \* processes running Codex: records, see CodexFields
  Threads,
  CodexHomes,
  UserHomes,
  DotCodex,       \* the .codex directory below a user's home
  WatcherUser,    \* the watcher's own HOME
  HomeOverrides,  \* values of CSM_WATCHER_CODEX_HOME: a home, or NoHome
  NoHome,
  Records         \* what there is to know of a thread, see RecordFields

CodexFields ==
  [mine : BOOLEAN, readable : BOOLEAN,
   codexHome : CodexHomes \cup {"unset", "relative"},
   home : UserHomes \cup {"unset", "relative"}]

\* inState: has a row in the state database; rollout: its rollout file.
RecordFields ==
  [subagent : BOOLEAN, inState : BOOLEAN, recent : BOOLEAN,
   rollout : {"none", "plain", "compressed"}]

ASSUME CodexSourceAssumption ==
  /\ Codexes \subseteq CodexFields
  /\ DotCodex \in [UserHomes -> CodexHomes]
  /\ WatcherUser \in UserHomes
  /\ NoHome \notin CodexHomes \cup CodexFields
  /\ \A some \in SUBSET CodexHomes : some # NoHome
  /\ HomeOverrides \subseteq CodexHomes \cup {NoHome}
  /\ Records \subseteq RecordFields

Columns == {"source", "cwd", "updated_at"}

VARIABLES
  codexOverride,
  running,   \* the Codex processes
  holder,    \* per thread, the process that holds its writer lock or NoHome
  lockFiles, \* the lock files there are
  record,    \* per thread, what there is to know of it
  homes,     \* the homes still to be swept; NoHome between sweeps
  listed,    \* the sessions gathered so far
  opened,    \* the threads open at some time since the sweep began
  kept,      \* the threads open ever since the sweep began
  unread,    \* the locks the sweep could not read, by home and thread
  blind,     \* the threads whose source the sweep could not read
  published  \* what the last sweep found

codexHostVars == <<codexOverride, running, holder, lockFiles, record>>
codexSourceVars == <<codexHostVars, homes, listed, opened, kept, unread, blind, published>>

Open == {thread \in Threads : holder[thread] # NoHome}

\* Where a Codex keeps its threads.
CodexHomeOf(codex) ==
  CASE codex.codexHome \in CodexHomes -> codex.codexHome
    [] codex.codexHome \notin CodexHomes /\ codex.home \in UserHomes -> DotCodex[codex.home]
    [] OTHER -> DotCodex[WatcherUser]

-----------------------------------------------------------------------------
StartCodex(codex) ==
  /\ codex \notin running
  /\ running' = running \cup {codex}
  /\ UNCHANGED <<codexOverride, holder, lockFiles, record, homes, listed, opened, kept,
                 unread, blind, published>>

\* The locks go with the process, the files stay.
StopCodex(codex) ==
  /\ codex \in running
  /\ running' = running \ {codex}
  /\ holder' = [thread \in Threads |->
                  IF holder[thread] = codex THEN NoHome ELSE holder[thread]]
  /\ kept' = {thread \in kept : holder'[thread] # NoHome}
  /\ UNCHANGED <<codexOverride, lockFiles, record, homes, listed, opened, unread, blind,
                 published>>

TakeLock(codex, thread) ==
  /\ codex \in running
  /\ holder[thread] = NoHome
  /\ holder' = [holder EXCEPT ![thread] = codex]
  /\ lockFiles' = lockFiles \cup {<<CodexHomeOf(codex), thread>>}
  /\ opened' = IF homes = NoHome THEN {} ELSE opened \cup {thread}
  /\ UNCHANGED <<codexOverride, running, record, homes, listed, kept, unread, blind,
                 published>>

-----------------------------------------------------------------------------
DefaultHome == DotCodex[WatcherUser]

\* Mutant: CODEX_HOME is not looked at.
HomeFromHome(codex) == IF codex.home \in UserHomes THEN DotCodex[codex.home] ELSE DefaultHome

HomeFor(codex) ==
  IF codex.codexHome \in CodexHomes THEN codex.codexHome
  ELSE IF codex.home \in UserHomes THEN DotCodex[codex.home] ELSE DefaultHome

ResolvedHomes(codexes) ==
  IF codexOverride # NoHome THEN {codexOverride}
                            ELSE {DefaultHome} \cup {HomeFor(codex) : codex \in codexes}

\* A Codex of this user whose environment cannot be read fails the sweep.
EnvironmentsReadable == \A codex \in running : codex.mine => codex.readable

BeginHomes ==
  /\ homes = NoHome
  /\ codexOverride # NoHome \/ EnvironmentsReadable
  /\ homes' = ResolvedHomes({codex \in running : codex.readable})
  /\ listed' = {}
  /\ opened' = Open
  /\ kept' = Open
  /\ published' = NoHome
  /\ UNCHANGED <<codexHostVars, unread, blind>>

HomesFail ==
  /\ homes = NoHome
  /\ codexOverride = NoHome
  /\ published' = NoHome
  /\ UNCHANGED <<codexHostVars, homes, listed, opened, kept, unread, blind>>

\* is_locked_by_writer: the lock is held by whoever created it there.
Locked(home, thread) ==
  /\ <<home, thread>> \in lockFiles
  /\ holder[thread] # NoHome
  /\ CodexHomeOf(holder[thread]) = home

\* Mutant: the source of a thread is not looked at.
NeverSubagent(thread, columns) == FALSE

\* What is known of a thread when these columns of its row can be read.
Subagent(thread, columns) ==
  record[thread].inState /\ "source" \in columns /\ record[thread].subagent

\* A rollout that is not compressed and starts with the session's header.
Rollout(thread) == record[thread].rollout = "plain"

Cwd(thread, columns) ==
  IF record[thread].inState /\ "cwd" \in columns THEN "state"
  ELSE IF Rollout(thread) THEN "rollout" ELSE ""

StatusOf(thread, columns) ==
  IF /\ (record[thread].inState /\ "updated_at" \in columns) \/ Rollout(thread)
     /\ record[thread].recent
    THEN "busy" ELSE "idle"

\* live_session.
SessionOf(home, thread, columns) ==
  [id |-> thread, home |-> home, cwd |-> Cwd(thread, columns),
   status |-> StatusOf(thread, columns)]

\* A lock whose directory entry, file or flock cannot be read is left out alone.
\* The columns of each row are read one by one from a database that may be
\* busy or missing at any of them.  An id already listed is left out.
SweepHome(home) ==
  /\ homes # NoHome /\ home \in homes
  /\ \E unreadable \in SUBSET Columns,
        skipped \in SUBSET {thread \in Threads : Locked(home, thread)} :
       LET columns == Columns \ unreadable
           found == {thread \in Threads \ skipped :
                       Locked(home, thread) /\ ~Subagent(thread, columns)}
           seen == {session.id : session \in listed}
       IN  /\ listed' = listed \cup {SessionOf(home, thread, columns) : thread \in found \ seen}
           /\ blind' = IF "source" \in unreadable THEN blind \cup found ELSE blind
           /\ unread' = unread \cup ({home} \X skipped)
  /\ homes' = homes \ {home}
  /\ UNCHANGED <<codexHostVars, opened, kept, published>>

\* A lock directory that is missing or cannot be read counts as empty.
LocksUnreadable(home) ==
  /\ homes # NoHome /\ home \in homes
  /\ homes' = homes \ {home}
  /\ unread' = unread \cup ({home} \X Threads)
  /\ UNCHANGED <<codexHostVars, listed, opened, kept, blind, published>>

EndHomes ==
  /\ homes = {}
  /\ homes' = NoHome
  /\ published' = listed
  /\ listed' = {} /\ opened' = {} /\ kept' = {} /\ unread' = {} /\ blind' = {}
  /\ UNCHANGED codexHostVars

-----------------------------------------------------------------------------
CodexSourceInit ==
  /\ codexOverride \in HomeOverrides
  /\ running = {}
  /\ holder = [thread \in Threads |-> NoHome]
  /\ lockFiles = {}
  /\ record \in [Threads -> Records]
  /\ homes = NoHome
  /\ listed = {} /\ opened = {} /\ kept = {} /\ unread = {} /\ blind = {}
  /\ published = NoHome

CodexSourceNext ==
  \/ \E codex \in Codexes : StartCodex(codex) \/ StopCodex(codex)
  \/ \E codex \in Codexes, thread \in Threads : TakeLock(codex, thread)
  \/ BeginHomes \/ HomesFail
  \/ \E home \in CodexHomes : SweepHome(home) \/ LocksUnreadable(home)
  \/ EndHomes

CodexSourceSpec == CodexSourceInit /\ [][CodexSourceNext]_codexSourceVars

-----------------------------------------------------------------------------
\* A sweep that succeeds in this step.
HomesSwept == homes = {} /\ homes' = NoHome

\* A thread that stays open through a sweep is reported, in whatever home its
\* Codex keeps it, unless its own lock or the whole directory of the home's
\* locks cannot be read, or the environment of a foreign Codex cannot; what
\* fails of one lock hides no other (codex.rs: homes, live_sessions).
OpenThreadsAreFound ==
  [][HomesSwept => \A thread \in kept :
       LET codex == holder[thread]
       IN  \/ record[thread].subagent
           \/ ~codex.readable /\ ~codex.mine
           \/ codexOverride \notin {NoHome, CodexHomeOf(codex)}
           \/ <<CodexHomeOf(codex), thread>> \in unread
           \/ \E session \in published' : session.id = thread]_codexSourceVars

\* What is reported was open during the sweep, is no subagent unless its row
\* could not be read, and has one entry however many homes are swept.
FoundThreadsWereOpen ==
  [][HomesSwept => \A session \in published' :
       /\ session.id \in opened
       /\ record[session.id].subagent /\ record[session.id].inState => session.id \in blind
       /\ \A other \in published' : other.id = session.id => other = session]_codexSourceVars
=============================================================================
