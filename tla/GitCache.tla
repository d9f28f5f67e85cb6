------------------------------ MODULE GitCache ------------------------------
(***************************************************************************)
(* The cache of git lookups (crates/watcher/src/git.rs): a lookup that     *)
(* misses runs up to three commands one after the other, see Commands,     *)
(* while the repositories change and time passes.  tmux.rs runs its one    *)
(* command the same way, without a cache.                                  *)
(***************************************************************************)
EXTENDS Commands

CONSTANTS
  Cwds,
  Branches,  \* what is checked out: branches and "HEAD", a detached head
  GitTTL,    \* DEFAULT_TTL, in ticks
  NoEntry    \* no entry, no answer

ASSUME GitCacheAssumption ==
  /\ GitTTL \in Nat \ {0}
  /\ "HEAD" \in Branches
  /\ NoEntry \notin Branches \cup Cwds

Bookmark == "bookmark"  \* what jj says of any detached head
Answers == Branches \cup {Bookmark, NoEntry}

VARIABLES
  checkedOut, \* per directory
  cached,     \* GitCache.entries: age and answer, or NoEntry
  lookup,     \* the directory looked up, or NoEntry
  command,    \* the command that runs for it
  read,       \* what the child printed, as it was when the child ended
  branch,     \* the branch found by this lookup
  answer,     \* what the last lookup returned, and for which directory, until
              \* time passes
  settled     \* per directory, how long it has been as it is, from the end of
              \* the lookup under way when it changed

gitVars == <<checkedOut, cached, lookup, command, read, branch, answer, settled>>
commandVars == <<runVars, gitVars>>

GitCacheTypeOK ==
  /\ CommandTypeOK
  /\ checkedOut \in [Cwds -> Branches]
  /\ cached \in [Cwds -> [age : 0..GitTTL, branch : Answers] \cup {NoEntry}]
  /\ lookup \in Cwds \cup {NoEntry}
  /\ command \in {"none", "branch", "bookmark", "remote"}
  /\ read \in Answers
  /\ branch \in Answers
  /\ answer \in [cwd : Cwds, branch : Answers] \cup {NoEntry}
  /\ settled \in [Cwds -> 0..GitTTL]

-----------------------------------------------------------------------------
\* Mutant: an entry is still good when it is as old as the TTL.
FreshAtTTL(cwd) == cached[cwd] # NoEntry /\ cached[cwd].age <= GitTTL

\* fresh_entry.
Fresh(cwd) == cached[cwd] # NoEntry /\ cached[cwd].age < GitTTL

Hit(cwd) ==
  /\ lookup = NoEntry
  /\ Fresh(cwd)
  /\ answer' = [cwd |-> cwd, branch |-> cached[cwd].branch]
  /\ UNCHANGED <<runVars, checkedOut, cached, lookup, command, read, branch, settled>>

\* detect; the lock on the cache is not held from here on.
Miss(cwd) ==
  /\ lookup = NoEntry
  /\ ~Fresh(cwd)
  /\ lookup' = cwd
  /\ command' = "branch"
  /\ verdict' = "none"
  /\ UNCHANGED <<phase, child, written, toWrite, pipe, holders, helpers, reader, elapsed,
                 checkedOut, cached, read, branch, answer, settled>>

BeginCommand ==
  /\ lookup # NoEntry
  /\ Spawn \/ SpawnFails
  /\ UNCHANGED gitVars

\* What a command prints at this moment.
Printed == IF command = "bookmark" THEN Bookmark ELSE checkedOut[lookup]

GitChildExits ==
  /\ lookup # NoEntry
  /\ ChildExits
  /\ read' = Printed
  /\ UNCHANGED <<checkedOut, cached, lookup, command, branch, answer, settled>>

CommandReturned == phase = "idle" /\ verdict \in Ends

\* Mutant: a detached head is not looked up in jj.
NeverAsksJj == FALSE

\* A detached head is looked up once more, in jj.
AsksJj == command = "branch" /\ verdict = "success" /\ read = "HEAD"

\* On to the next command; what git or jj said is kept, its failure too.
NextCommand ==
  /\ lookup # NoEntry
  /\ CommandReturned
  /\ command \in {"branch", "bookmark"}
  /\ command' = IF AsksJj THEN "bookmark" ELSE "remote"
  /\ branch' = IF verdict = "success" /\ ~AsksJj THEN read ELSE NoEntry
  /\ verdict' = "none"
  /\ UNCHANGED <<phase, child, written, toWrite, pipe, holders, helpers, reader, elapsed,
                 checkedOut, cached, lookup, read, answer, settled>>

\* store: what has expired goes, and the new answer is kept, None or not.
Store ==
  /\ lookup # NoEntry
  /\ CommandReturned
  /\ command = "remote"
  /\ cached' = [cwd \in Cwds |-> IF cwd = lookup THEN [age |-> 0, branch |-> branch]
                                 ELSE IF Fresh(cwd) THEN cached[cwd] ELSE NoEntry]
  /\ answer' = [cwd |-> lookup, branch |-> branch]
  /\ lookup' = NoEntry
  /\ command' = "none"
  /\ UNCHANGED <<runVars, checkedOut, read, branch, settled>>

CheckOut(cwd) ==
  /\ checkedOut' \in {[checkedOut EXCEPT ![cwd] = b] : b \in Branches \ {checkedOut[cwd]}}
  /\ settled' = [settled EXCEPT ![cwd] = 0]
  /\ UNCHANGED <<runVars, cached, lookup, command, read, branch, answer>>

Older(age) == IF age < GitTTL THEN age + 1 ELSE age

GitTick ==
  /\ RunIdles
  /\ RunAges
  /\ cached' = [cwd \in Cwds |->
       IF cached[cwd] = NoEntry THEN NoEntry ELSE [cached[cwd] EXCEPT !.age = Older(@)]]
  /\ settled' = [cwd \in Cwds |-> IF cwd = lookup THEN settled[cwd] ELSE Older(settled[cwd])]
  /\ answer' = NoEntry
  /\ UNCHANGED <<phase, child, written, toWrite, pipe, holders, helpers, reader, verdict,
                 checkedOut, lookup, command, read, branch>>

\* A step of the run alone.
RunStep ==
  /\ \/ ChildWrites \/ ChildForks \/ HelperExits
     \/ ReaderDrains \/ ReaderSeesEnd
     \/ PollReaps \/ PollTimesOut \/ PollFails \/ JoinReader
  /\ UNCHANGED gitVars

GitCacheInit ==
  /\ RunInit
  /\ checkedOut \in [Cwds -> Branches]
  /\ cached = [cwd \in Cwds |-> NoEntry]
  /\ lookup = NoEntry
  /\ command = "none"
  /\ read = NoEntry
  /\ branch = NoEntry
  /\ answer = NoEntry
  /\ settled = [cwd \in Cwds |-> 0]

GitCacheNext ==
  \/ \E cwd \in Cwds : Hit(cwd) \/ Miss(cwd) \/ CheckOut(cwd)
  \/ BeginCommand \/ GitChildExits \/ NextCommand \/ Store
  \/ GitTick
  \/ RunStep

\* The threads of the watcher run and time passes.  A child owes nothing, but
\* to write what it writes: one that hangs has nothing left to write.
GitCacheFairness ==
  /\ WF_commandVars(GitTick)
  /\ WF_commandVars(ChildWrites /\ UNCHANGED gitVars)
  /\ WF_commandVars(ReaderDrains /\ UNCHANGED gitVars)
  /\ WF_commandVars(ReaderSeesEnd /\ UNCHANGED gitVars)
  /\ WF_commandVars((PollReaps \/ PollTimesOut) /\ UNCHANGED gitVars)
  /\ WF_commandVars(JoinReader /\ UNCHANGED gitVars)
  /\ WF_commandVars(BeginCommand)
  /\ WF_commandVars(NextCommand)
  /\ WF_commandVars(Store)

GitCacheSpec == GitCacheInit /\ [][GitCacheNext]_commandVars /\ GitCacheFairness

-----------------------------------------------------------------------------
\* What a lookup should say of a directory.
Shown(cwd) == IF checkedOut[cwd] = "HEAD" THEN Bookmark ELSE checkedOut[cwd]

\* A directory that has been as it is for the TTL is shown as it is, or not at
\* all while a command fails: no entry and no command under way when it
\* changed is served longer (git.rs:78).
SettledBranchIsShown ==
  [][\A cwd \in Cwds : (Hit(cwd) \/ (Store /\ lookup = cwd)) /\ settled[cwd] = GitTTL =>
       answer'.branch \in {Shown(cwd), NoEntry}]_commandVars

\* A lookup ends, whatever the child does: only a process that keeps the pipe
\* open out of the reach of run can hold it up (command.rs:6, "A hung child
\* must never stall a sweep").
LookupsEnd == lookup # NoEntry ~> (lookup = NoEntry \/ HeldOpen)
=============================================================================
