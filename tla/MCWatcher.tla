----------------------------- MODULE MCWatcher -----------------------------
(***************************************************************************)
(* The watcher and the commands it runs, on small instances: two of its    *)
(* sources, one id per source; one directory whose branch is looked up.    *)
(* The two do not share state: subject says which of them runs, the other  *)
(* is at rest, in a state in which nothing of it has to happen.            *)
(***************************************************************************)
EXTENDS Watcher, GitCache

ClaudeThenCodex == <<"claude", "codex">>

VARIABLE subject

bothVars == <<watcherVars, commandVars, subject>>

\* A watcher that has stopped.
WatcherRests ==
  /\ live = [kind \in Kinds |-> NoFind]
  /\ tracked = live /\ reported = live
  /\ recent = [kind \in Kinds |-> [last |-> NoFind, before |-> NoFind]]
  /\ stage = "stopped"
  /\ next = 1
  /\ outcome = "Published"
  /\ shutdown = FALSE
  /\ current = BackoffBase /\ wait = Interval
  /\ late = NoRequest
  /\ faults = 0 /\ restarts = 0

\* No lookup, and no age that still grows.
CommandsRest ==
  /\ RunInit
  /\ checkedOut = [cwd \in Cwds |-> "HEAD"]
  /\ cached = [cwd \in Cwds |-> NoEntry]
  /\ lookup = NoEntry /\ read = NoEntry /\ branch = NoEntry /\ answer = NoEntry
  /\ command = "none"
  /\ settled = [cwd \in Cwds |-> GitTTL]

MCInit ==
  \/ subject = "watcher" /\ WatcherInit /\ CommandsRest
  \/ subject = "commands" /\ GitCacheInit /\ WatcherRests

\* There is no session of Claude Code: its sweeps succeed without one or fail.
MCNext ==
  \/ subject = "watcher" /\ WatcherNext /\ live'["claude"] = NoFind
       /\ UNCHANGED <<subject, commandVars>>
  \/ subject = "commands" /\ GitCacheNext /\ UNCHANGED <<subject, watcherVars>>

MCSpec ==
  MCInit /\ [][MCNext]_bothVars /\ WatcherFairness /\ GitCacheFairness
=============================================================================
