---------------------------- MODULE Presentation ----------------------------
(***************************************************************************)
(* Rules every Rust client shares (crates/common/src/presentation.rs): in  *)
(* what order a list is shown, and what counts as stale.                   *)
(***************************************************************************)
EXTENDS Integers, Sequences, FiniteSets

CONSTANTS
  Ids,
  Lists,     \* sequences of views: id, waiting, host, tmux, at
  Nothing,   \* no session, no host name
  SESSION_STALE_THRESHOLD,
  HOST_STALE_THRESHOLD

\* What the clients are sent: every view has a name, a flag and a time.
ASSUME ListsAssumption ==
  /\ Nothing \notin Ids
  /\ \A list \in Lists :
       /\ list \in Seq({list[i] : i \in 1..Len(list)})
       /\ \A i \in 1..Len(list) :
            list[i].id \in Ids /\ list[i].waiting \in BOOLEAN /\ list[i].at \in Int

IsWaiting(view) == view.waiting

\* The waiting ones among the views at some positions of a list.
WaitingAt(list, positions) == {i \in positions : IsWaiting(list[i])}

\* The views at some positions, each after those at the positions before its own.
Ranked(list, before) ==
  [k \in 1..Cardinality(DOMAIN before) |->
     list[CHOOSE i \in DOMAIN before : Cardinality(before[i]) = k - 1]]

\* In the order of the list.
Kept(list, positions) == Ranked(list, [i \in positions |-> {j \in positions : j < i}])

\* The newest first, those as new as each other in the order of the list.
Newer(list, j, i) ==
  \/ list[j].at > list[i].at
  \/ list[j].at = list[i].at /\ j < i

Newest(list, positions) ==
  Ranked(list, [i \in positions |-> {j \in positions : Newer(list, j, i)}])

\* partition_sessions of the views at some positions, one part after the other.
Partition(list, positions) ==
  LET waiting == WaitingAt(list, positions)
  IN  Kept(list, waiting) \o Newest(list, positions \ waiting)

\* Mutant: hosts have the threshold of sessions.
StaleAsASession(age) == age >= SESSION_STALE_THRESHOLD

\* host_is_stale, and whether an empty list is put down to the watchers.
HostIsStale(age) == age >= HOST_STALE_THRESHOLD
WatcherAppearsSilent(ages, received) == received /\ \A age \in ages : HostIsStale(age)

ShouldFade(connected, age) == ~connected \/ age >= SESSION_STALE_THRESHOLD
=============================================================================
