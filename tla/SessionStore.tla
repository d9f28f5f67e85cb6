---------------------------- MODULE SessionStore ----------------------------
(***************************************************************************)
(* The SQLite store of csm-server (crates/server/src/store.rs): the table  *)
(* of sessions, the table of host heartbeats and the operations of the     *)
(* SessionStore trait.  Every operation runs under the server's one mutex, *)
(* and apply_snapshot inside one SQL transaction, so each is one atomic    *)
(* action here.                                                            *)
(*                                                                         *)
(* Columns.  `status' stands for every column that both write paths set    *)
(* (status, tool, detail, cwd, git, tmux, model); `name' is kept apart     *)
(* because only snapshots write it.  A row that does not exist is NoRow.   *)
(***************************************************************************)
EXTENDS Naturals, Functions

CONSTANTS
  Sessions,   \* session ids
  Hosts,      \* hostnames that publish snapshots
  NoHost,     \* a NULL hostname column
  Kinds,      \* agent kinds
  Statuses,   \* the reported values of a live session
  Names,      \* session names
  NoName,     \* a NULL name column
  NoRow,      \* no row with that session_id
  Never,      \* no host_status row
  MaxTime     \* bound on the modelled wall clock

Ended == "ended"

ASSUME StoreAssumption ==
  /\ MaxTime \in Nat
  /\ NoHost \notin Hosts
  /\ NoName \notin Names
  /\ Ended \notin Statuses

VARIABLES
  sessions,     \* the sessions table, by session_id
  host_status,  \* the host_status table: last_seen_at by host and kind
  now           \* the clock Utc::now() reads

storeVars == <<sessions, host_status, now>>

\* The stored columns of a session that exists.
Row == [hostname: Hosts \cup {NoHost}, agent_kind: Kinds,
        status: Statuses \cup {Ended}, name: Names \cup {NoName},
        updated_at: 0..MaxTime]

Report == [session_id: Sessions, hostname: Hosts \cup {NoHost},
           agent_kind: Kinds, status: Statuses \cup {Ended}]

\* One host's complete list for one kind: the ids it names, each with its data.
Entry == [status: Statuses, name: Names \cup {NoName}]
Snapshots == UNION {[ids -> Entry] : ids \in SUBSET Sessions}

ASSUME NoRowAssumption == NoRow \notin Row

StoreTypeOK ==
  /\ sessions \in [Sessions -> Row \cup {NoRow}]
  /\ host_status \in [Hosts \X Kinds -> (0..MaxTime) \cup {Never}]
  /\ now \in 0..MaxTime

-----------------------------------------------------------------------------
Active(row) == row # NoRow /\ row.status # Ended

\* What the server lists and broadcasts: the rows that have not ended.
ListActive(table) == Restrict(table, {s \in Sessions : Active(table[s])})

\* Mutant: the end is stamped ahead of the clock.
EndedRowAhead(row) == [row EXCEPT !.status = Ended, !.updated_at = now + 1]

EndedRow(row) == [row EXCEPT !.status = Ended, !.updated_at = now]

InScope(row, h, k) == Active(row) /\ row.hostname = h /\ row.agent_kind = k

\* Mutant: the status column is left out of the comparison.
UnchangedButStatus(row, h, k, e) ==
  /\ row # NoRow
  /\ row.hostname = h
  /\ row.agent_kind = k
  /\ row.name = e.name

\* Every stored column already equals what the snapshot carries.
Unchanged(row, h, k, e) ==
  /\ row # NoRow
  /\ row.hostname = h
  /\ row.agent_kind = k
  /\ row.status = e.status
  /\ row.name = e.name

SnapshotRow(h, k, e) ==
  [hostname |-> h, agent_kind |-> k, status |-> e.status, name |-> e.name,
   updated_at |-> now]

\* The first loop of apply_snapshot: rows are found by session_id alone.
UpsertAll(table, h, k, snap) ==
  [s \in Sessions |->
     IF s \in DOMAIN snap /\ ~Unchanged(table[s], h, k, snap[s])
     THEN SnapshotRow(h, k, snap[s])
     ELSE table[s]]

\* Mutant: the reaping query forgets its agent_kind column.
AbsentAnyKind(table, h, k, snap) ==
  {s \in Sessions \ DOMAIN snap :
     \E any \in Kinds : InScope(UpsertAll(table, h, k, snap)[s], h, any)}

\* Mutant: the reaping query forgets status != 'ended'.
AbsentEndedToo(table, h, k, snap) ==
  {s \in Sessions \ DOMAIN snap :
     LET row == UpsertAll(table, h, k, snap)[s]
     IN  row # NoRow /\ row.hostname = h /\ row.agent_kind = k}

\* The second loop: what is active in the scope, after the upserts, and unlisted.
Absent(table, h, k, snap) ==
  {s \in Sessions \ DOMAIN snap : InScope(UpsertAll(table, h, k, snap)[s], h, k)}

\* Mutant: the reaping loop is missing.
UpsertOnly(table, h, k, snap) == UpsertAll(table, h, k, snap)

Reconcile(table, h, k, snap) ==
  [s \in Sessions |->
     IF s \in Absent(table, h, k, snap)
     THEN EndedRow(UpsertAll(table, h, k, snap)[s])
     ELSE UpsertAll(table, h, k, snap)[s]]

\* Mutant: ending a row does not count as a change.
UpsertsChange(table, h, k, snap) ==
  \E s \in DOMAIN snap : ~Unchanged(table[s], h, k, snap[s])

\* The flag apply_snapshot returns: some upsert wrote, or some row was ended.
SnapshotChanges(table, h, k, snap) ==
  \/ \E s \in DOMAIN snap : ~Unchanged(table[s], h, k, snap[s])
  \/ Absent(table, h, k, snap) # {}

-----------------------------------------------------------------------------
\* A report overwrites every column but the name, whatever the row held.
UpsertSession(r) ==
  sessions' = [sessions EXCEPT ![r.session_id] =
    [hostname |-> r.hostname, agent_kind |-> r.agent_kind, status |-> r.status,
     name |-> IF @ = NoRow THEN NoName ELSE @.name, updated_at |-> now]]

\* Found means the row exists; an ended row is ended (and stamped) again.
EndSession(s) ==
  /\ sessions[s] # NoRow
  /\ sessions' = [sessions EXCEPT ![s] = EndedRow(@)]

DeleteSession(s) ==
  /\ sessions[s] # NoRow
  /\ sessions' = [sessions EXCEPT ![s] = NoRow]

ApplySnapshot(h, k, snap) == sessions' = Reconcile(sessions, h, k, snap)

RecordHostSeen(h, k) == host_status' = [host_status EXCEPT ![<<h, k>>] = now]

\* The wall clock advances between operations, up to the bound.
Tick ==
  /\ now < MaxTime
  /\ now' = now + 1
  /\ UNCHANGED <<sessions, host_status>>

-----------------------------------------------------------------------------
StoreInit ==
  /\ sessions = [s \in Sessions |-> NoRow]
  /\ host_status = [hk \in Hosts \X Kinds |-> Never]
  /\ now = 0

\* The store driven by one request at a time.
Post == \E r \in Report : UpsertSession(r) /\ UNCHANGED <<host_status, now>>

End == \E s \in Sessions : EndSession(s) /\ UNCHANGED <<host_status, now>>

Delete == \E s \in Sessions : DeleteSession(s) /\ UNCHANGED <<host_status, now>>

Snapshot == \E h \in Hosts, k \in Kinds, snap \in Snapshots :
  ApplySnapshot(h, k, snap) /\ RecordHostSeen(h, k) /\ UNCHANGED now

StoreNext == Post \/ End \/ Delete \/ Snapshot \/ Tick

StoreSpec == StoreInit /\ [][StoreNext]_storeVars

-----------------------------------------------------------------------------
(***************************************************************************)
(* Whatever snapshot arrives next, applying it leaves the active rows of   *)
(* its scope exactly the listed sessions, each with the listed data:       *)
(* apply_snapshot's upserts and its reaping loop together (store.rs), and  *)
(* "reconciled to match the snapshot exactly" of post_snapshot's comment.  *)
(***************************************************************************)
SnapshotReconciles ==
  \A h \in Hosts, k \in Kinds, snap \in Snapshots :
    LET after == Reconcile(sessions, h, k, snap)
    IN  /\ {s \in Sessions : InScope(after[s], h, k)} = DOMAIN snap
        /\ \A s \in DOMAIN snap : Unchanged(after[s], h, k, snap[s])

(***************************************************************************)
(* The flag that decides on a broadcast is exact: apply_snapshot reports a *)
(* change if and only if it wrote a column of some row, and a snapshot     *)
(* just applied is silent when it is published again, so an idle watcher   *)
(* causes no SSE traffic and bumps no updated_at.                          *)
(***************************************************************************)
RepublishIsSilent ==
  \A h \in Hosts, k \in Kinds, snap \in Snapshots :
    LET after == Reconcile(sessions, h, k, snap)
    IN  /\ ~SnapshotChanges(sessions, h, k, snap) <=> after = sessions
        /\ ~SnapshotChanges(after, h, k, snap)

(***************************************************************************)
(* A snapshot leaves alone every row it does not list, unless that row is  *)
(* active under the snapshot's own host and kind: rows of other hosts, of  *)
(* other kinds and with a NULL hostname survive someone else's empty list. *)
(***************************************************************************)
UnlistedForeignRowsSurvive ==
  \A h \in Hosts, k \in Kinds, snap \in Snapshots, s \in Sessions :
    (s \notin DOMAIN snap /\ ~InScope(sessions[s], h, k))
      => Reconcile(sessions, h, k, snap)[s] = sessions[s]
=============================================================================
