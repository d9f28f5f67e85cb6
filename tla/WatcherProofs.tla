---------------------------- MODULE WatcherProofs ----------------------------
(***************************************************************************)
(* Theorems about the watcher daemon, for any sources, sessions, intervals *)
(* and bounds.                                                             *)
(***************************************************************************)
EXTENDS Watcher, TLAPS

\* The numbers of WatcherAssumption, apart from its strings.
LEMMA Durations ==
  /\ MIN_INTERVAL \in Nat \ {0} /\ Interval \in Nat /\ MAX_BACKOFF \in Nat
  /\ MIN_INTERVAL <= Interval /\ MIN_INTERVAL <= MAX_BACKOFF
BY WatcherAssumption

LEMMA Allowances == MaxFaults \in Nat /\ MaxRestarts \in Nat
BY WatcherAssumption

LEMMA SourcesType ==
  /\ Len(Sources) \in Nat
  /\ \A i \in 1..Len(Sources) :
       Sources[i] \in Kinds /\ Sources[i] \in {"claude", "codex", "pi"}
BY WatcherAssumption DEF Kinds

LEMMA NoFindType == NoFind \in Finds /\ NoFind \in TrackedMaps /\ DOMAIN NoFind = {}
BY DEF NoFind, Finds, TrackedMaps

(***************************************************************************)
(* What apply leaves in the debounce: the sessions of this sweep, and of   *)
(* the others those not yet missed MAX_MISSING_STREAK times in a row.      *)
(***************************************************************************)
LEMMA ApplyType ==
  ASSUME NEW held \in TrackedMaps, NEW fresh \in Finds
  PROVE  Apply(held, fresh) \in TrackedMaps
<1>1. /\ DOMAIN held \subseteq SessionIds
      /\ \A id \in DOMAIN held : held[id] \in Tracked
  BY DEF TrackedMaps
<1>2. /\ DOMAIN fresh \subseteq SessionIds
      /\ \A id \in DOMAIN fresh : fresh[id] \in Facts
  BY DEF Finds
<1>. DEFINE ids == DOMAIN fresh \cup Retained(held, fresh)
<1>3. ids \in SUBSET SessionIds
  BY <1>1, <1>2 DEF Retained
<1>4. \A id \in DOMAIN fresh : [session |-> fresh[id], missing_streak |-> 0] \in Tracked
  BY <1>2 DEF Tracked, MAX_MISSING_STREAK
<1>5. \A id \in Retained(held, fresh) :
        [held[id] EXCEPT !.missing_streak = @ + 1] \in Tracked
  BY <1>1 DEF Retained, Tracked, MAX_MISSING_STREAK
<1>6. Apply(held, fresh) \in [ids -> Tracked]
  BY <1>4, <1>5 DEF Apply
<1>. QED
  BY <1>3, <1>6 DEF TrackedMaps

LEMMA PublishedType ==
  ASSUME NEW held \in TrackedMaps
  PROVE  Published(held) \in Finds /\ DOMAIN Published(held) = DOMAIN held
<1>1. /\ DOMAIN held \in SUBSET SessionIds
      /\ \A id \in DOMAIN held : held[id].session \in Facts
  BY DEF TrackedMaps, Tracked
<1>2. Published(held) \in [DOMAIN held -> Facts]
  BY <1>1 DEF Published
<1>. QED
  BY <1>1, <1>2 DEF Finds

LEMMA BackoffType ==
  /\ BackoffBase \in Nat
  /\ \A duration \in Nat : Doubled(duration) \in Nat
BY Durations DEF BackoffBase, Doubled, Smaller, Larger

-----------------------------------------------------------------------------
LEMMA StartingPoint ==
  /\ 1 \in 1..(Len(Sources) + 1)
  /\ 0 \in 0..MaxFaults
  /\ 0 \in 0..MaxRestarts
  /\ BackoffBase \in Nat /\ Interval \in Nat
BY SourcesType, Allowances, BackoffType, Durations

LEMMA WatcherTypeInit == WatcherInit => WatcherTypeOK
<1>. SUFFICES ASSUME WatcherInit PROVE WatcherTypeOK
  OBVIOUS
<1>1. /\ live \in [Kinds -> Finds]
      /\ tracked \in [Kinds -> TrackedMaps]
      /\ recent \in [Kinds -> [last : Finds, before : Finds]]
      /\ reported \in [Kinds -> Finds]
  BY NoFindType DEF WatcherInit
<1>2. next \in 1..(Len(Sources) + 1) /\ current \in Nat /\ wait \in Nat
  BY StartingPoint DEF WatcherInit
<1>3. faults \in 0..MaxFaults /\ restarts \in 0..MaxRestarts
  BY StartingPoint DEF WatcherInit
<1>. QED
  BY <1>1, <1>2, <1>3 DEF WatcherInit, WatcherTypeOK, Stages, Outcomes

LEMMA WatcherTypeStep == WatcherTypeOK /\ [WatcherNext]_watcherVars => WatcherTypeOK'
<1>. SUFFICES ASSUME WatcherTypeOK, [WatcherNext]_watcherVars
              PROVE  WatcherTypeOK'
  OBVIOUS
<1>1. CASE BeginCycle
  BY <1>1, SourcesType DEF BeginCycle, WatcherTypeOK, Stages, Outcomes
<1>2. CASE SweepSucceeds
  <2>. DEFINE kind == Sources[next]
  <2>1. kind \in Kinds /\ next <= Len(Sources)
    BY <1>2, SourcesType DEF SweepSucceeds, WatcherTypeOK
  <2>2. tracked' \in [Kinds -> TrackedMaps]
    BY <1>2, <2>1, ApplyType DEF SweepSucceeds, WatcherTypeOK
  <2>3. recent' \in [Kinds -> [last : Finds, before : Finds]]
    BY <1>2, <2>1 DEF SweepSucceeds, WatcherTypeOK
  <2>. QED
    BY <1>2, <2>1, <2>2, <2>3 DEF SweepSucceeds, WatcherTypeOK, Stages
<1>3. CASE SweepFails
  <2>1. next' \in 1..(Len(Sources) + 1)
    BY <1>3, SourcesType DEF SweepFails, NextSource, WatcherTypeOK
  <2>2. faults' \in 0..MaxFaults
    BY <1>3, Allowances DEF SweepFails, Fails, WatcherTypeOK
  <2>3. Sources[next] \in {"claude", "codex", "pi"}
    BY <1>3, SourcesType DEF SweepFails, WatcherTypeOK
  <2>4. SweepErrors[Sources[next]] \subseteq Outcomes
    BY <2>3 DEF SweepErrors, Outcomes
  <2>5. outcome' \in Outcomes
    BY <1>3, <2>4 DEF SweepFails, WatcherTypeOK
  <2>. QED
    BY <1>3, <2>1, <2>2, <2>5 DEF SweepFails, NextSource, WatcherTypeOK, Stages
<1>4. CASE Publish
  BY <1>4 DEF Publish, WatcherTypeOK, Stages
<1>5. ASSUME stage = "reply"
      PROVE  /\ Request \in Requests
             /\ Request.kind \in Kinds /\ Request.sessions \in Finds
             /\ next + 1 \in 1..(Len(Sources) + 1)
  <2>1. next \in 1..Len(Sources)
    BY <1>5, SourcesType DEF WatcherTypeOK
  <2>2. Sources[next] \in Kinds /\ tracked[Sources[next]] \in TrackedMaps
    BY <2>1, SourcesType DEF WatcherTypeOK
  <2>. QED
    BY <2>1, <2>2, SourcesType, PublishedType DEF Request, Requests
<1>6. CASE PublishSucceeds
  BY <1>5, <1>6 DEF PublishSucceeds, Deliver, NextSource, WatcherTypeOK, Stages
<1>7. CASE PublishFails
  <2>1. faults' \in 0..MaxFaults
    BY <1>7, Allowances DEF PublishFails, WatcherTypeOK
  <2>2. reported' \in [Kinds -> Finds] /\ late' \in Requests \cup {NoRequest}
    BY <1>5, <1>7 DEF PublishFails, Deliver, WatcherTypeOK
  <2>. QED
    BY <1>5, <1>7, <2>1, <2>2
    DEF PublishFails, NextSource, WatcherTypeOK, Stages, Outcomes
<1>8. CASE EndCycle
  BY <1>8, BackoffType, Durations DEF EndCycle, WatcherTypeOK, Stages
<1>9. CASE Wake \/ Stop
  BY <1>9 DEF Wake, Stop, WatcherTypeOK, Stages
<1>10. CASE Change
  BY <1>10 DEF Change, processVars, WatcherTypeOK
<1>11. CASE FirstSignal
  BY <1>11 DEF FirstSignal, WatcherTypeOK
<1>12. CASE Crash
  BY <1>5, <1>12 DEF Crash, WatcherTypeOK, Stages
<1>13. CASE Respawn
  <2>1. restarts' \in 0..MaxRestarts
    BY <1>13, Allowances DEF Respawn, WatcherTypeOK
  <2>. QED
    BY <1>13, <2>1, NoFindType, StartingPoint
    DEF Respawn, FreshProcess, WatcherTypeOK, Stages, Outcomes
<1>14. CASE LateArrival
  <2>1. late \in Requests
    BY <1>14 DEF LateArrival, WatcherTypeOK
  <2>. QED
    BY <1>14, <2>1 DEF LateArrival, Deliver, Requests, processVars, WatcherTypeOK
<1>15. CASE UNCHANGED watcherVars
  BY <1>15 DEF watcherVars, processVars, WatcherTypeOK
<1>. QED
  BY <1>1, <1>2, <1>3, <1>4, <1>6, <1>7, <1>8, <1>9, <1>10, <1>11, <1>12, <1>13,
     <1>14, <1>15
  DEF WatcherNext, Loop

(***************************************************************************)
(* The loop's state and the server's lists keep their types; in particular *)
(* no session is held with a missing streak of MAX_MISSING_STREAK or more. *)
(***************************************************************************)
THEOREM WatcherTypeCorrect == WatcherSpec => []WatcherTypeOK
BY WatcherTypeInit, WatcherTypeStep, PTL DEF WatcherSpec

-----------------------------------------------------------------------------
(***************************************************************************)
(* One more successful sweep turns the debounce of the last two sweeps     *)
(* into the debounce of the last two sweeps.                               *)
(***************************************************************************)
LEMMA ApplyShiftsWindow ==
  ASSUME NEW last \in Finds, NEW before \in Finds, NEW fresh \in Finds
  PROVE  Apply(Window(last, before), fresh) = Window(fresh, last)
<1>. DEFINE held == Window(last, before)
<1>1. /\ DOMAIN held = DOMAIN last \cup DOMAIN before
      /\ \A id \in DOMAIN last : held[id] = [session |-> last[id], missing_streak |-> 0]
      /\ \A id \in DOMAIN before \ DOMAIN last :
           held[id] = [session |-> before[id], missing_streak |-> 1]
  BY DEF Window
<1>. HIDE DEF held
<1>2. Retained(held, fresh) = DOMAIN last \ DOMAIN fresh
  BY <1>1 DEF Retained, MAX_MISSING_STREAK
<1>3. \A id \in DOMAIN last :
        [held[id] EXCEPT !.missing_streak = @ + 1]
          = [session |-> last[id], missing_streak |-> 1]
  BY <1>1
<1>4. DOMAIN fresh \cup Retained(held, fresh) = DOMAIN fresh \cup DOMAIN last
  BY <1>2
<1>5. Apply(held, fresh) = Window(fresh, last)
  BY <1>3, <1>4 DEF Apply, Window
<1>. QED
  BY <1>5 DEF held

(***************************************************************************)
(* For any number of sources and failures, each debounce is the window of  *)
(* the last two successful sweeps of its source.                           *)
(***************************************************************************)
THEOREM DebounceIsTwoSweeps == WatcherSpec => []TrackedIsTwoSweeps
<1>1. WatcherInit => TrackedIsTwoSweeps
  BY NoFindType DEF WatcherInit, TrackedIsTwoSweeps, Window, NoFind
<1>2. WatcherTypeOK /\ TrackedIsTwoSweeps /\ [WatcherNext]_watcherVars => TrackedIsTwoSweeps'
  <2>. SUFFICES ASSUME WatcherTypeOK, TrackedIsTwoSweeps, [WatcherNext]_watcherVars
                PROVE  TrackedIsTwoSweeps'
    OBVIOUS
  <2>1. CASE SweepSucceeds
    <3>0. Sources[next] \in Kinds
      BY <2>1, SourcesType DEF SweepSucceeds, WatcherTypeOK
    <3>. PICK kind \in Kinds :
           /\ tracked' = [tracked EXCEPT ![kind] = Apply(tracked[kind], live[kind])]
           /\ recent' = [recent EXCEPT ![kind] =
                           [last |-> live[kind], before |-> recent[kind].last]]
      BY <2>1, <3>0 DEF SweepSucceeds
    <3>1. /\ tracked'[kind] = Apply(tracked[kind], live[kind])
          /\ recent'[kind].last = live[kind]
          /\ recent'[kind].before = recent[kind].last
      BY DEF WatcherTypeOK
    <3>2. /\ live[kind] \in Finds
          /\ recent[kind].last \in Finds /\ recent[kind].before \in Finds
      BY DEF WatcherTypeOK
    <3>3. tracked'[kind] = Window(live[kind], recent[kind].last)
      BY <3>1, <3>2, ApplyShiftsWindow DEF TrackedIsTwoSweeps
    <3>4. \A other \in Kinds \ {kind} :
            tracked'[other] = tracked[other] /\ recent'[other] = recent[other]
      BY DEF WatcherTypeOK
    <3>. QED
      BY <3>1, <3>3, <3>4 DEF TrackedIsTwoSweeps
  <2>2. CASE Respawn
    BY <2>2, NoFindType DEF Respawn, FreshProcess, TrackedIsTwoSweeps, Window, NoFind
  <2>3. CASE UNCHANGED <<tracked, recent>>
    BY <2>3 DEF TrackedIsTwoSweeps
  <2>. QED
    BY <2>1, <2>2, <2>3
    DEF WatcherNext, Loop, BeginCycle, SweepFails, Publish, PublishSucceeds, PublishFails,
        EndCycle, Wake, Stop, Change, FirstSignal, Crash, LateArrival, processVars,
        watcherVars
<1>. QED
  BY <1>1, <1>2, WatcherTypeCorrect, PTL DEF WatcherSpec

(***************************************************************************)
(* No request of the running process ends a session that one of its last   *)
(* two successful sweeps of the kind saw.                                  *)
(***************************************************************************)
THEOREM SessionsNeverEndedEarly == WatcherSpec => NeverEndedEarly
<1>1. ASSUME WatcherTypeOK, TrackedIsTwoSweeps, WatcherNext,
             NEW kind \in Kinds, NEW id \in SessionIds,
             id \in DOMAIN reported[kind] \ DOMAIN reported'[kind], late' = late
      PROVE  id \notin DOMAIN recent[kind].last \cup DOMAIN recent[kind].before
  <2>1. /\ stage = "reply"
        /\ Deliver(Request)
    BY <1>1
    DEF WatcherNext, Loop, BeginCycle, SweepSucceeds, SweepFails, Publish,
        PublishSucceeds, PublishFails, EndCycle, Wake, Stop, Change, FirstSignal, Crash,
        Respawn, LateArrival, processVars, WatcherTypeOK
  <2>2. Sources[next] \in Kinds
    BY <1>1, <2>1, SourcesType DEF WatcherTypeOK
  <2>3. kind = Sources[next] /\ reported'[kind] = Request.sessions
    BY <1>1, <2>1, <2>2 DEF Deliver, Request, WatcherTypeOK
  <2>4. DOMAIN reported'[kind] = DOMAIN tracked[kind]
    BY <2>3 DEF Request, Published
  <2>5. DOMAIN tracked[kind] = DOMAIN recent[kind].last \cup DOMAIN recent[kind].before
    BY <1>1 DEF TrackedIsTwoSweeps, Window
  <2>. QED
    BY <1>1, <2>4, <2>5
<1>2. WatcherTypeOK /\ TrackedIsTwoSweeps /\ [WatcherNext]_watcherVars =>
        [\A kind \in Kinds, id \in SessionIds :
           (id \in DOMAIN reported[kind] \ DOMAIN reported'[kind] /\ late' = late) =>
             id \notin DOMAIN recent[kind].last \cup DOMAIN recent[kind].before]_watcherVars
  BY <1>1
<1>. QED
  BY <1>2, WatcherTypeCorrect, DebounceIsTwoSweeps, PTL DEF WatcherSpec, NeverEndedEarly

-----------------------------------------------------------------------------
\* What the backoff keeps between failures: at least the minimum, at most its cap.
BackoffInRange == MIN_INTERVAL <= current /\ current <= MAX_BACKOFF

LEMMA BackoffRange ==
  /\ MIN_INTERVAL <= BackoffBase /\ BackoffBase <= MAX_BACKOFF
  /\ \A duration \in Nat :
       MIN_INTERVAL <= Doubled(duration) /\ Doubled(duration) <= MAX_BACKOFF
BY Durations DEF BackoffBase, Doubled, Smaller, Larger

(***************************************************************************)
(* The daemon never busy-loops and never sleeps past its cap, for every    *)
(* interval, minimum and cap parse_interval and the constants allow.       *)
(***************************************************************************)
THEOREM DaemonWaitsAreBounded == WatcherSpec => [](BackoffInRange /\ WaitsAreBounded)
<1>1. WatcherInit => BackoffInRange /\ WaitsAreBounded
  BY BackoffRange DEF WatcherInit, BackoffInRange, WaitsAreBounded
<1>2. WatcherTypeOK /\ BackoffInRange /\ WaitsAreBounded /\ [WatcherNext]_watcherVars
        => (BackoffInRange /\ WaitsAreBounded)'
  <2>. SUFFICES ASSUME WatcherTypeOK, BackoffInRange, WaitsAreBounded,
                       [WatcherNext]_watcherVars
                PROVE  (BackoffInRange /\ WaitsAreBounded)'
    OBVIOUS
  <2>1. CASE EndCycle
    <3>1. BackoffInRange'
      BY <2>1, BackoffRange DEF EndCycle, BackoffInRange, WatcherTypeOK
    <3>2. CASE outcome = "Published"
      <4>1. wait' = Interval /\ outcome' = outcome
        BY <2>1, <3>2 DEF EndCycle
      <4>2. MIN_INTERVAL <= Interval /\ Interval <= Larger(Interval, MAX_BACKOFF)
        BY Durations DEF Larger
      <4>. QED
        BY <3>1, <4>1, <4>2 DEF WaitsAreBounded
    <3>3. CASE outcome # "Published"
      <4>1. wait' = current /\ outcome' = outcome
        BY <2>1, <3>3 DEF EndCycle
      <4>2. MIN_INTERVAL <= current /\ current <= Larger(Interval, MAX_BACKOFF)
        BY Durations DEF BackoffInRange, Larger, WatcherTypeOK
      <4>. QED
        BY <3>1, <3>3, <4>1, <4>2 DEF WaitsAreBounded
    <3>. QED
      BY <3>2, <3>3
  <2>2. CASE Respawn
    BY <2>2, BackoffRange DEF Respawn, FreshProcess, BackoffInRange, WaitsAreBounded
  <2>3. CASE UNCHANGED <<current, wait>> /\ stage' # "waiting"
    BY <2>3 DEF BackoffInRange, WaitsAreBounded
  <2>4. CASE UNCHANGED <<current, wait, stage, outcome>>
    BY <2>4 DEF BackoffInRange, WaitsAreBounded
  <2>. QED
    BY <2>1, <2>2, <2>3, <2>4
    DEF WatcherNext, Loop, BeginCycle, SweepSucceeds, SweepFails, Publish,
        PublishSucceeds, PublishFails, NextSource, Wake, Stop, Change, FirstSignal, Crash,
        LateArrival, processVars, watcherVars
<1>. QED
  BY <1>1, <1>2, WatcherTypeCorrect, PTL DEF WatcherSpec
=============================================================================
