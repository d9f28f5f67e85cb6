------------------------------ MODULE Commands ------------------------------
(***************************************************************************)
(* A child command of the watcher (crates/watcher/src/command.rs: run):    *)
(* the calling thread that polls it until a deadline, the thread that      *)
(* drains its output, the child, and the processes the child starts.       *)
(*                                                                         *)
(* Who holds the write end of the pipe matters most: the reader, and with  *)
(* it the caller, waits for the last of them.  A helper of the child is in *)
(* its process group unless it has left it.                                *)
(***************************************************************************)
EXTENDS Naturals, FiniteSets

CONSTANTS
  Timeout,   \* in ticks
  PipeSize,  \* how much the child can write before somebody reads
  MaxOutput  \* the longest output, in the same unit

ASSUME CommandAssumption ==
  /\ Timeout \in Nat \ {0}
  /\ PipeSize \in Nat \ {0}
  /\ MaxOutput \in Nat

Helpers == {"helper", "escaped"}
Ends == {"success", "failure"}

VARIABLES
  phase,     \* of the caller: idle, polling, joining
  child,     \* none, running, an end not yet waited for, reaped, or reaped
             \* after it was killed
  written,   \* what the child has written
  toWrite,   \* what it has still to write
  pipe,      \* what is in the pipe
  holders,   \* the processes that hold the write end
  helpers,   \* the processes started by the child that run
  reader,    \* of the reader thread: none, reading, done
  elapsed,   \* since the child was started
  verdict    \* what run returns: none, success, failure

runVars == <<phase, child, written, toWrite, pipe, holders, helpers, reader, elapsed, verdict>>

CommandTypeOK ==
  /\ phase \in {"idle", "polling", "joining"}
  /\ child \in {"none", "running", "reaped", "killed"} \cup Ends
  /\ written \in Nat
  /\ toWrite \in Nat
  /\ written + toWrite <= MaxOutput
  /\ pipe \in 0..PipeSize
  /\ holders \subseteq Helpers \cup {"child"}
  /\ helpers \subseteq Helpers
  /\ reader \in {"none", "reading", "done"}
  /\ elapsed \in 0..Timeout
  /\ verdict \in {"none"} \cup Ends

Group == {"child", "helper"}

-----------------------------------------------------------------------------
(***************************************************************************)
(* The child and its helpers.                                              *)
(***************************************************************************)

\* A chunk goes into the pipe when there is room for it.
ChildWrites ==
  /\ child = "running"
  /\ toWrite > 0 /\ pipe < PipeSize
  /\ toWrite' = toWrite - 1
  /\ written' = written + 1
  /\ pipe' = pipe + 1
  /\ UNCHANGED <<phase, child, holders, helpers, reader, elapsed, verdict>>

\* A helper inherits the pipe or is given another output; one that makes
\* itself a daemon leaves the group.
ChildForks ==
  /\ child = "running"
  /\ helpers = {}
  /\ \E helper \in Helpers :
       /\ helpers' = {helper}
       /\ holders' \in {holders, holders \cup {helper}}
  /\ UNCHANGED <<phase, child, written, toWrite, pipe, reader, elapsed, verdict>>

\* A child that has written everything ends, well or not.
ChildExits ==
  /\ child = "running"
  /\ toWrite = 0
  /\ child' \in Ends
  /\ holders' = holders \ {"child"}
  /\ UNCHANGED <<phase, written, toWrite, pipe, helpers, reader, elapsed, verdict>>

HelperExits ==
  /\ helpers # {}
  /\ helpers' = {}
  /\ holders' = holders \ helpers
  /\ UNCHANGED <<phase, child, written, toWrite, pipe, reader, elapsed, verdict>>

-----------------------------------------------------------------------------
(***************************************************************************)
(* run and its reader thread.                                              *)
(***************************************************************************)

Spawn ==
  /\ phase = "idle"
  /\ verdict = "none"
  /\ phase' = "polling"
  /\ child' = "running"
  /\ written' = 0
  /\ toWrite' \in 0..MaxOutput
  /\ pipe' = 0
  /\ holders' = {"child"}
  /\ helpers' = {}
  /\ reader' = "reading"
  /\ elapsed' = 0
  /\ UNCHANGED verdict

\* The program is missing or its directory is.
SpawnFails ==
  /\ phase = "idle"
  /\ verdict = "none"
  /\ verdict' = "failure"
  /\ UNCHANGED <<phase, child, written, toWrite, pipe, holders, helpers, reader, elapsed>>

\* Mutant: the pipe is read once the child has ended.
ReadsAfterExit == reader = "reading" /\ child # "running" /\ pipe > 0

\* read_to_string has something to read.
ReaderReads == reader = "reading" /\ pipe > 0

ReaderDrains ==
  /\ ReaderReads
  /\ pipe' = pipe - 1
  /\ UNCHANGED <<phase, child, written, toWrite, holders, helpers, reader, elapsed, verdict>>

ReaderSeesEnd ==
  /\ reader = "reading"
  /\ pipe = 0 /\ holders = {}
  /\ reader' = "done"
  /\ UNCHANGED <<phase, child, written, toWrite, pipe, holders, helpers, elapsed, verdict>>

\* Mutant: the child alone is killed.
KillChild ==
  /\ child' = "killed"
  /\ holders' = holders \ {"child"}
  /\ UNCHANGED helpers

\* kill_and_reap: the whole group, then wait for the child.
KillAndReap ==
  /\ child' = "killed"
  /\ holders' = holders \ Group
  /\ helpers' = helpers \ Group

\* try_wait finds that the child has ended.
PollReaps ==
  /\ phase = "polling"
  /\ child \in Ends
  /\ phase' = "joining"
  /\ child' = "reaped"
  /\ verdict' = IF child = "success" /\ written > 0 THEN "success" ELSE "failure"
  /\ UNCHANGED <<written, toWrite, pipe, holders, helpers, reader, elapsed>>

\* Nothing yet: past the deadline the group is killed.
PollTimesOut ==
  /\ phase = "polling"
  /\ child = "running"
  /\ elapsed = Timeout
  /\ phase' = "joining"
  /\ KillAndReap
  /\ verdict' = "failure"
  /\ UNCHANGED <<written, toWrite, pipe, reader, elapsed>>

\* Mutant: the child is left behind, as it was before the wait was shared.
PollFailsLeaks ==
  /\ phase = "polling"
  /\ phase' = "joining"
  /\ verdict' = "failure"
  /\ UNCHANGED <<child, written, toWrite, pipe, holders, helpers, reader, elapsed>>

\* try_wait fails.
PollFails ==
  /\ phase = "polling"
  /\ phase' = "joining"
  /\ KillAndReap
  /\ verdict' = "failure"
  /\ UNCHANGED <<written, toWrite, pipe, reader, elapsed>>

\* join_reader returns, and run with it.
JoinReader ==
  /\ phase = "joining"
  /\ reader = "done"
  /\ phase' = "idle"
  /\ reader' = "none"
  /\ UNCHANGED <<child, written, toWrite, pipe, holders, helpers, elapsed, verdict>>

RunInit ==
  /\ phase = "idle" /\ child = "none"
  /\ written = 0 /\ toWrite = 0 /\ pipe = 0
  /\ holders = {} /\ helpers = {}
  /\ reader = "none"
  /\ elapsed = 0
  /\ verdict = "none"

\* A tick is long for threads and pipes: time passes when nothing is left to
\* be written or read.
RunIdles == ~ReaderReads /\ (child = "running" /\ toWrite > 0 => pipe = PipeSize)

\* Mutant: the deadline is set anew at each poll.
AgesNever == elapsed' = 0

RunAges ==
  elapsed' = IF phase = "polling" /\ elapsed < Timeout THEN elapsed + 1 ELSE elapsed

-----------------------------------------------------------------------------
\* The pipe is kept open after the child has gone by a process that run does
\* not reach: one that has left the group, or, after a child that ended by
\* itself, any that still runs.
HeldOpen ==
  /\ phase = "joining"
  /\ IF child = "reaped" THEN holders # {} ELSE "escaped" \in holders

\* A child that overran or could not be waited for leaves no process of its
\* group, whatever it has started, and no child is left running or unreaped
\* when run returns, on any path (command.rs:11, "A child that times out is
\* killed by its whole process group").
NoProcessIsLeftBehind ==
  /\ child = "killed" => "helper" \notin helpers
  /\ phase = "idle" => child \in {"none", "reaped", "killed"}

\* A child killed at the deadline was not waiting for its output to be read,
\* however much longer than a pipe that is (command.rs:21).
NoneOverrunsOnOutput == [][PollTimesOut => toWrite = 0]_runVars
=============================================================================
