----------------------------- MODULE Heartbeats -----------------------------
(***************************************************************************)
(* Telling a watcher that has nothing to report from one that is silent    *)
(* (crates/common/src/api.rs, HOST_STALE_THRESHOLD_SECS): a watcher that   *)
(* publishes each kind in turn, the server's last_seen_at, and a client    *)
(* that polls GET /api/hosts and judges the ages in the answer.  Time is   *)
(* in seconds.  It starts when every kind has been published once.         *)
(***************************************************************************)
EXTENDS Presentation

CONSTANTS
  KindCount,      \* how many kinds the watcher publishes
  Interval,       \* of the watcher
  PublishTimeout,
  MAX_BACKOFF,
  PollInterval,   \* HOST_STATUS_POLL_INTERVAL
  PollTimeout,    \* HOST_STATUS_POLL_TIMEOUT
  CycleWork,      \* bound of what the sweeps and publishes of a cycle take
  Hiccup,         \* bound of what a lookup that hangs, or the scheduler, adds
  MaxSlips        \* bound of the beats dropped, the polls that are slow or
                  \* fail, and the hiccups

ASSUME HeartbeatAssumption ==
  /\ KindCount \in Nat \ {0}
  /\ HOST_STALE_THRESHOLD \in Nat
  /\ Interval \in Nat /\ PublishTimeout \in Nat /\ MAX_BACKOFF \in Nat
  /\ PollInterval \in Nat /\ PollTimeout \in Nat
  /\ CycleWork \in Nat /\ Hiccup \in Nat /\ MaxSlips \in Nat

Kinds == 1..KindCount
Caught == HOST_STALE_THRESHOLD + PollInterval
CaughtAfterSlip == Caught + PollInterval + PollTimeout

VARIABLES
  seen,      \* per kind, the age of last_seen_at
  hosts,     \* the same in the client's copy of the answer
  shown,     \* what the client made of it when it last drew it
  turn,      \* the kind to publish next
  rest,      \* seconds until the watcher's next step
  spent,     \* what the sweeps and publishes of this cycle have taken
  lapsed,    \* a publish of this cycle has failed
  backoff,   \* the wait after a cycle that did
  answer,    \* what the server has answered to a poll, or Nothing
  pollRest,  \* seconds until the client's next step
  alive,
  slips      \* so far

watcherSide == <<seen, turn, rest, spent, lapsed, backoff, alive>>
clientSide == <<hosts, shown, answer, pollRest>>
heartbeatVars == <<watcherSide, clientSide, slips>>

Older(ages) == [kind \in Kinds |-> IF ages[kind] <= CaughtAfterSlip THEN ages[kind] + 1
                                                                  ELSE ages[kind]]

Silent(ages) == WatcherAppearsSilent({ages[kind] : kind \in Kinds}, TRUE)

Second ==
  /\ (alive => rest > 0) /\ pollRest > 0
  /\ seen' = Older(seen)
  /\ hosts' = Older(hosts)
  /\ answer' = IF answer = Nothing THEN Nothing ELSE Older(answer)
  /\ rest' = IF alive THEN rest - 1 ELSE rest
  /\ pollRest' = pollRest - 1
  /\ UNCHANGED <<shown, turn, spent, lapsed, backoff, alive, slips>>

\* Backoff::new.
FirstBackoff == IF Interval <= MAX_BACKOFF THEN Interval ELSE MAX_BACKOFF

Slip == slips < MaxSlips /\ slips' = slips + 1

-----------------------------------------------------------------------------
\* What a publish that is accepted makes of last_seen_at: store.rs, whether
\* or not it changes anything.
Records == {[kind \in Kinds |-> IF kind = turn THEN 0 ELSE seen[kind]]}

\* After some seconds, and after what the next sweep takes of the time that is
\* left to the cycle.
Resumes(seconds, left) ==
  \E work \in 0..left : rest' = seconds + work /\ spent' = CycleWork - left + work

Beat ==
  /\ alive /\ rest = 0 /\ turn \in Kinds
  /\ seen' \in Records
  /\ turn' = turn + 1
  /\ Resumes(0, CycleWork - spent)
  /\ UNCHANGED <<lapsed, backoff, alive, clientSide, slips>>

\* A request that is lost, or whose answer is.
BeatDropped ==
  /\ alive /\ rest = 0 /\ turn \in Kinds
  /\ Slip
  /\ seen' \in Records \cup {seen}
  /\ turn' = turn + 1
  /\ lapsed' = TRUE
  /\ \E late \in 0..PublishTimeout : Resumes(late, CycleWork - spent)
  /\ UNCHANGED <<backoff, alive, clientSide>>

WatcherHiccup ==
  /\ alive /\ rest = 0
  /\ Slip
  /\ rest' \in 1..Hiccup
  /\ UNCHANGED <<seen, turn, spent, lapsed, backoff, alive, clientSide>>

\* The wait between two cycles, see Watcher.
CycleEnds ==
  /\ alive /\ rest = 0 /\ turn = KindCount + 1
  /\ Resumes(IF lapsed THEN backoff ELSE Interval, CycleWork)
  /\ backoff' = IF ~lapsed THEN FirstBackoff
                ELSE IF 2 * backoff <= MAX_BACKOFF THEN 2 * backoff ELSE MAX_BACKOFF
  /\ turn' = 1
  /\ lapsed' = FALSE
  /\ UNCHANGED <<seen, alive, clientSide, slips>>

WatcherDies ==
  /\ alive
  /\ alive' = FALSE
  /\ UNCHANGED <<seen, turn, rest, spent, lapsed, backoff, clientSide, slips>>

-----------------------------------------------------------------------------
\* The answer reaches the client: every one is announced, changed or not, and
\* what is drawn is judged anew.
Answered(ages) ==
  /\ hosts' = ages
  /\ shown' = Silent(ages)
  /\ answer' = Nothing
  /\ pollRest' = PollInterval

Poll ==
  /\ pollRest = 0 /\ answer = Nothing
  /\ Answered(seen)
  /\ UNCHANGED <<watcherSide, slips>>

\* The server has answered, and the answer is some time on its way.
PollSlow ==
  /\ pollRest = 0 /\ answer = Nothing
  /\ Slip
  /\ answer' = seen
  /\ pollRest' \in 1..PollTimeout
  /\ UNCHANGED <<hosts, shown, watcherSide>>

SlowAnswer ==
  /\ pollRest = 0 /\ answer # Nothing
  /\ Answered(answer)
  /\ UNCHANGED <<watcherSide, slips>>

\* The poll fails, at once or at its timeout, and is tried again in its time.
PollFailed ==
  /\ pollRest = 0 /\ answer = Nothing
  /\ Slip
  /\ pollRest' \in PollInterval..(PollInterval + PollTimeout)
  /\ UNCHANGED <<hosts, shown, answer, watcherSide>>

HeartbeatInit ==
  /\ seen = [kind \in Kinds |-> 0]
  /\ hosts = seen
  /\ shown = FALSE
  /\ turn = 1 /\ rest = Interval /\ spent = 0 /\ lapsed = FALSE /\ backoff = FirstBackoff
  /\ answer = Nothing
  /\ pollRest \in 0..PollInterval
  /\ alive = TRUE
  /\ slips = 0

HeartbeatNext ==
  \/ Second \/ Beat \/ BeatDropped \/ WatcherHiccup \/ CycleEnds \/ WatcherDies
  \/ Poll \/ PollSlow \/ SlowAnswer \/ PollFailed

HeartbeatSpec == HeartbeatInit /\ [][HeartbeatNext]_heartbeatVars

-----------------------------------------------------------------------------
\* A slow poll, a beat dropped or a hiccup never makes a watcher that works
\* look silent, in what is drawn or in any row judged in between; and one that
\* has died is shown as silent one poll after the threshold, or two where the
\* first one slipped (api.rs:143, HOST_STALE_THRESHOLD_SECS).
StalenessIsTrue ==
  /\ alive => ~shown /\ \A kind \in Kinds : ~HostIsStale(hosts[kind])
  /\ (\A kind \in Kinds : seen[kind] > IF slips = 0 THEN Caught ELSE CaughtAfterSlip) => shown
=============================================================================
