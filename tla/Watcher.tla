------------------------------- MODULE Watcher -------------------------------
(***************************************************************************)
(* The watcher daemon (crates/watcher/src/main.rs): run_daemon's loop over *)
(* run_cycle, the debounce of each session source, the backoff of the      *)
(* loop, its signals, and the snapshots it publishes to the server.        *)
(*                                                                         *)
(* The loop is single-threaded; what surrounds it is not.  Sessions come   *)
(* and go while it sweeps, signals arrive between any two of its steps,    *)
(* and a request whose client has given up (PUBLISH_TIMEOUT) may still be  *)
(* carried out by the server, at once or after later requests.  The server *)
(* is what a snapshot makes of it (see SessionStore): the last snapshot    *)
(* applied for a kind is what it lists for that kind.                      *)
(***************************************************************************)
EXTENDS Debounce, Sequences

CONSTANTS
  Sources,      \* the kinds of configured_sources, in their order
  BrokenKinds,  \* the kinds whose sweeps may fail for ever
  Interval,     \* --interval
  MIN_INTERVAL,
  MAX_BACKOFF,
  MaxFaults,    \* bound on failed sweeps of other kinds and failed publishes
  MaxRestarts,  \* bound on new watcher processes
  NoRequest     \* no abandoned request

Kinds == {Sources[i] : i \in 1..Len(Sources)}

\* How the sweep of each source can fail.
SweepErrors ==
  [claude |-> {"DiscoveryFailed", "SweepFailed"},
   codex  |-> {"DiscoveryFailed"},
   pi     |-> {"SweepFailed"}]

Outcomes == {"Published", "DiscoveryFailed", "SweepFailed", "PublishFailed"}

Stages == {"start", "sweep", "publish", "reply", "waiting", "stopped", "crashed"}

Smaller(a, b) == IF a <= b THEN a ELSE b
Larger(a, b) == IF a >= b THEN a ELSE b

\* parse_interval refuses anything below the minimum.
ASSUME WatcherAssumption ==
  /\ Sources \in Seq({"claude", "codex", "pi"})
  /\ MIN_INTERVAL \in Nat \ {0}
  /\ Interval \in Nat /\ MIN_INTERVAL <= Interval
  /\ MAX_BACKOFF \in Nat /\ MIN_INTERVAL <= MAX_BACKOFF
  /\ MaxFaults \in Nat
  /\ MaxRestarts \in Nat

VARIABLES
  live,      \* per kind, what a successful sweep would find now
  tracked,   \* per kind, the source's debounce
  recent,    \* per kind, the last two successful sweeps of this process
  stage,     \* where the loop is
  next,      \* position of the current source
  outcome,   \* the cycle's outcome so far
  shutdown,  \* the flag set by the first signal
  current,   \* the backoff's next wait
  wait,      \* the wait between cycles last chosen
  reported,  \* per kind, the sessions the server lists
  late,      \* a request abandoned by its client and not yet carried out
  faults,    \* failures so far
  restarts   \* processes started after the first

processVars == <<tracked, recent, stage, next, outcome, shutdown, current, wait>>
watcherVars == <<live, processVars, reported, late, faults, restarts>>

Requests == [kind : Kinds, sessions : Finds]

ASSUME NoRequestAssumption == NoRequest \notin Requests

WatcherTypeOK ==
  /\ live \in [Kinds -> Finds]
  /\ tracked \in [Kinds -> TrackedMaps]
  /\ recent \in [Kinds -> [last : Finds, before : Finds]]
  /\ stage \in Stages
  /\ next \in 1..(Len(Sources) + 1)
  /\ stage \in {"publish", "reply"} => next <= Len(Sources)
  /\ outcome \in Outcomes
  /\ shutdown \in BOOLEAN
  /\ current \in Nat
  /\ wait \in Nat
  /\ reported \in [Kinds -> Finds]
  /\ late \in Requests \cup {NoRequest}
  /\ faults \in 0..MaxFaults
  /\ restarts \in 0..MaxRestarts

-----------------------------------------------------------------------------
\* Backoff::new and Backoff::reset.
BackoffBase == Smaller(Larger(Interval, MIN_INTERVAL), MAX_BACKOFF)

\* Mutant: the cap is forgotten.
DoubledForever(duration) == 2 * Larger(duration, MIN_INTERVAL)

\* What Backoff::fail leaves for the next failure.
Doubled(duration) == Smaller(2 * Larger(duration, MIN_INTERVAL), MAX_BACKOFF)

\* Mutant: a failed source ends the cycle instead of being skipped.
EndsCycle == stage' = "sweep" /\ next' = Len(Sources) + 1

\* On to the next source, if any.
NextSource == stage' = "sweep" /\ next' = next + 1

\* A failure there is still allowance for.
Fails(kind) ==
  \/ kind \in BrokenKinds /\ UNCHANGED faults
  \/ kind \notin BrokenKinds /\ faults < MaxFaults /\ faults' = faults + 1

\* Mutant: each cycle is given a flag of its own, as run_once does.
BeginCycleFreshFlag ==
  /\ stage = "start"
  /\ shutdown' = FALSE
  /\ stage' = "sweep"
  /\ next' = 1
  /\ outcome' = "Published"
  /\ UNCHANGED <<live, tracked, recent, current, wait, reported, late, faults, restarts>>

BeginCycle ==
  /\ stage = "start"
  /\ ~shutdown
  /\ stage' = "sweep"
  /\ next' = 1
  /\ outcome' = "Published"
  /\ UNCHANGED <<live, tracked, recent, shutdown, current, wait, reported, late,
                 faults, restarts>>

SweepSucceeds ==
  /\ stage = "sweep"
  /\ next <= Len(Sources)
  /\ LET kind == Sources[next]
     IN  /\ tracked' = [tracked EXCEPT ![kind] = Apply(@, live[kind])]
         /\ recent' = [recent EXCEPT ![kind] = [last |-> live[kind], before |-> @.last]]
  /\ stage' = "publish"
  /\ UNCHANGED <<live, next, outcome, shutdown, current, wait, reported, late,
                 faults, restarts>>

\* The debounce stays as it was; the first failure of a cycle names it.
SweepFails ==
  /\ stage = "sweep"
  /\ next <= Len(Sources)
  /\ Fails(Sources[next])
  /\ \E error \in SweepErrors[Sources[next]] :
       outcome' = IF outcome = "Published" THEN error ELSE outcome
  /\ NextSource
  /\ UNCHANGED <<live, tracked, recent, shutdown, current, wait, reported, late, restarts>>

\* The flag is looked at once more before a request is sent.
Publish ==
  /\ stage = "publish"
  /\ stage' = IF shutdown THEN "stopped" ELSE "reply"
  /\ UNCHANGED <<live, tracked, recent, next, outcome, shutdown, current, wait,
                 reported, late, faults, restarts>>

Request == [kind |-> Sources[next], sessions |-> Published(tracked[Sources[next]])]

Deliver(request) == reported' = [reported EXCEPT ![request.kind] = request.sessions]

PublishSucceeds ==
  /\ stage = "reply"
  /\ Deliver(Request)
  /\ NextSource
  /\ UNCHANGED <<live, tracked, recent, outcome, shutdown, current, wait, late,
                 faults, restarts>>

\* No answer, or an answer that is no success: the request was refused or lost,
\* carried out with its answer lost, or is still on its way to the store.
PublishFails ==
  /\ stage = "reply"
  /\ faults < MaxFaults
  /\ faults' = faults + 1
  /\ \/ UNCHANGED <<reported, late>>
     \/ Deliver(Request) /\ UNCHANGED late
     \/ late = NoRequest /\ late' = Request /\ UNCHANGED reported
  /\ outcome' = "PublishFailed"
  /\ NextSource
  /\ UNCHANGED <<live, tracked, recent, shutdown, current, wait, restarts>>

\* Mutant: a success resets the backoff but is not followed by the interval.
EndCycleAtBackoff ==
  /\ stage = "sweep"
  /\ next = Len(Sources) + 1
  /\ wait' = current
  /\ current' = IF outcome = "Published" THEN BackoffBase ELSE Doubled(current)
  /\ stage' = "waiting"
  /\ UNCHANGED <<live, tracked, recent, next, outcome, shutdown, reported, late,
                 faults, restarts>>

\* The wait is chosen when every source has had its turn.
EndCycle ==
  /\ stage = "sweep"
  /\ next = Len(Sources) + 1
  /\ IF outcome = "Published"
     THEN wait' = Interval /\ current' = BackoffBase
     ELSE wait' = current /\ current' = Doubled(current)
  /\ stage' = "waiting"
  /\ UNCHANGED <<live, tracked, recent, next, outcome, shutdown, reported, late,
                 faults, restarts>>

\* sleep_interruptible is over: the wait has passed, or the flag was seen.
Wake ==
  /\ stage = "waiting"
  /\ stage' = "start"
  /\ UNCHANGED <<live, tracked, recent, next, outcome, shutdown, current, wait,
                 reported, late, faults, restarts>>

Stop ==
  /\ stage = "start"
  /\ shutdown
  /\ stage' = "stopped"
  /\ UNCHANGED <<live, tracked, recent, next, outcome, shutdown, current, wait,
                 reported, late, faults, restarts>>

-----------------------------------------------------------------------------
Running == stage \notin {"stopped", "crashed"}

\* A session appears, changes, ends, or escapes one sweep.
Change ==
  /\ \E kind \in Kinds, found \in Finds : live' = [live EXCEPT ![kind] = found]
  /\ UNCHANGED <<processVars, reported, late, faults, restarts>>

FirstSignal ==
  /\ Running
  /\ ~shutdown
  /\ shutdown' = TRUE
  /\ UNCHANGED <<live, tracked, recent, stage, next, outcome, current, wait,
                 reported, late, faults, restarts>>

\* The process dies where it is, by a second signal or any other way; a request
\* it had sent may yet be carried out.
Crash ==
  /\ Running
  /\ restarts < MaxRestarts
  /\ stage' = "crashed"
  /\ \/ UNCHANGED late
     \/ stage = "reply" /\ late = NoRequest /\ late' = Request
  /\ UNCHANGED <<live, tracked, recent, next, outcome, shutdown, current, wait,
                 reported, faults, restarts>>

\* A new process starts with nothing, and with its first cycle.
FreshProcess ==
  /\ tracked' = [kind \in Kinds |-> NoFind]
  /\ recent' = [kind \in Kinds |-> [last |-> NoFind, before |-> NoFind]]
  /\ stage' = "start"
  /\ next' = 1
  /\ outcome' = "Published"
  /\ shutdown' = FALSE
  /\ current' = BackoffBase
  /\ wait' = Interval

Respawn ==
  /\ ~Running
  /\ restarts < MaxRestarts
  /\ restarts' = restarts + 1
  /\ FreshProcess
  /\ UNCHANGED <<live, reported, late, faults>>

\* The server gets round to the abandoned request, or never does.
LateArrival ==
  /\ late # NoRequest
  /\ Deliver(late) \/ UNCHANGED reported
  /\ late' = NoRequest
  /\ UNCHANGED <<live, processVars, faults, restarts>>

-----------------------------------------------------------------------------
WatcherInit ==
  /\ live = [kind \in Kinds |-> NoFind]
  /\ tracked = [kind \in Kinds |-> NoFind]
  /\ recent = [kind \in Kinds |-> [last |-> NoFind, before |-> NoFind]]
  /\ stage = "start"
  /\ next = 1
  /\ outcome = "Published"
  /\ shutdown = FALSE
  /\ current = BackoffBase
  /\ wait = Interval
  /\ reported = [kind \in Kinds |-> NoFind]
  /\ late = NoRequest
  /\ faults = 0
  /\ restarts = 0

\* One step of the loop.
Loop ==
  \/ BeginCycle \/ SweepSucceeds \/ SweepFails \/ Publish
  \/ PublishSucceeds \/ PublishFails \/ EndCycle \/ Wake \/ Stop

WatcherNext ==
  \/ Loop \/ Change \/ FirstSignal \/ Crash \/ Respawn \/ LateArrival

WatcherSpec == WatcherInit /\ [][WatcherNext]_watcherVars

\* Commands and requests have timeouts, so the loop never stops on its own, and
\* the service manager restarts a process that died.
WatcherFairness ==
  /\ WF_watcherVars(Loop)
  /\ WF_watcherVars(stage = "crashed" /\ Respawn)

-----------------------------------------------------------------------------
\* What two sweeps leave in a debounce that held nothing else.
Window(last, before) ==
  [id \in DOMAIN last \cup DOMAIN before |->
     IF id \in DOMAIN last
     THEN [session |-> last[id], missing_streak |-> 0]
     ELSE [session |-> before[id], missing_streak |-> 1]]

(***************************************************************************)
(* The debounce holds exactly the last two successful sweeps of its source *)
(* in this process, however many failed ones, failed publishes and signals *)
(* came between them: what the last one saw, as it saw it, and what only   *)
(* the one before saw, frozen and with one absence on its count.           *)
(***************************************************************************)
TrackedIsTwoSweeps ==
  \A kind \in Kinds : tracked[kind] = Window(recent[kind].last, recent[kind].before)

(***************************************************************************)
(* The server stops listing a session only when the last two successful    *)
(* sweeps of this process both missed it (debounce.rs), unless it is an    *)
(* abandoned request of the past that arrives.                             *)
(***************************************************************************)
NeverEndedEarly ==
  [][\A kind \in Kinds, id \in SessionIds :
       (id \in DOMAIN reported[kind] \ DOMAIN reported'[kind] /\ late' = late) =>
         id \notin DOMAIN recent[kind].last \cup DOMAIN recent[kind].before]_watcherVars

(***************************************************************************)
(* The wait between two cycles is never short of the minimum (no busy loop *)
(* against a server that is down) and never longer than the backoff's cap, *)
(* or the interval when that is longer still; and a cycle in which every   *)
(* source was published is followed by the interval.                       *)
(***************************************************************************)
WaitsAreBounded ==
  stage = "waiting" =>
    /\ MIN_INTERVAL <= wait
    /\ wait <= Larger(Interval, MAX_BACKOFF)
    /\ outcome = "Published" => wait = Interval

(***************************************************************************)
(* A kind whose sessions stay as they are is in the end reported exactly,  *)
(* whatever late, failed and repeated requests and crashes came before,    *)
(* and although the sweeps of another kind fail for ever, unless the       *)
(* watcher was told to stop (run_cycle: "A source failure [...] does not   *)
(* prevent the remaining sources from running").                           *)
(***************************************************************************)
StableSessionsAreReported ==
  \A kind \in Kinds \ BrokenKinds, found \in Finds :
    <>[](live[kind] = found) => <>[](reported[kind] = found) \/ <>[](stage = "stopped")

(***************************************************************************)
(* A signal ends the process: it is acted on between cycles, and between a *)
(* sweep and its publish, and no step of the loop waits for ever.          *)
(***************************************************************************)
SignalStopsWatcher == shutdown ~> ~Running
=============================================================================
