------------------------------ MODULE Debounce ------------------------------
(***************************************************************************)
(* The watcher's cross-sweep debounce (crates/watcher/src/debounce.rs): a  *)
(* session has to be missing from MAX_MISSING_STREAK successful sweeps in  *)
(* a row before it is dropped; until then it is published as last seen.    *)
(*                                                                         *)
(* What a sweep finds is a function from the ids it found to what it found *)
(* out about them (status, cwd, git, tmux, name: one fact here).           *)
(***************************************************************************)
EXTENDS Naturals

CONSTANTS
  SessionIds,  \* ids a sweep can find
  Facts        \* what a sweep can find out about a session

MAX_MISSING_STREAK == 2

Finds == UNION {[ids -> Facts] : ids \in SUBSET SessionIds}

NoFind == [id \in {} |-> 0]

Tracked == [session : Facts, missing_streak : 0..(MAX_MISSING_STREAK - 1)]

TrackedMaps == UNION {[ids -> Tracked] : ids \in SUBSET SessionIds}

\* Mutant: a third missing sweep is needed.
RetainedLonger(tracked, fresh) ==
  {id \in DOMAIN tracked \ DOMAIN fresh :
     tracked[id].missing_streak + 1 <= MAX_MISSING_STREAK}

\* Mutant: a session is dropped by the first sweep that misses it.
RetainedNever(tracked, fresh) == {}

\* The sessions tracked.retain keeps although this sweep missed them.
Retained(tracked, fresh) ==
  {id \in DOMAIN tracked \ DOMAIN fresh :
     tracked[id].missing_streak + 1 < MAX_MISSING_STREAK}

\* Mutant: a sweep that sees a session again does not reset its streak.
ApplyKeepingStreak(tracked, fresh) ==
  [id \in DOMAIN fresh \cup Retained(tracked, fresh) |->
     IF id \in DOMAIN fresh
     THEN [session |-> fresh[id],
           missing_streak |-> IF id \in DOMAIN tracked
                              THEN tracked[id].missing_streak ELSE 0]
     ELSE [tracked[id] EXCEPT !.missing_streak = @ + 1]]

Apply(tracked, fresh) ==
  [id \in DOMAIN fresh \cup Retained(tracked, fresh) |->
     IF id \in DOMAIN fresh
     THEN [session |-> fresh[id], missing_streak |-> 0]
     ELSE [tracked[id] EXCEPT !.missing_streak = @ + 1]]

\* The list apply returns: every tracked session, fresh or frozen.
Published(tracked) == [id \in DOMAIN tracked |-> tracked[id].session]
=============================================================================
