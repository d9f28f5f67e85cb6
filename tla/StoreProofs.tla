---------------------------- MODULE StoreProofs ----------------------------
(***************************************************************************)
(* Theorems about the store, for any sets of sessions, hosts and kinds.    *)
(***************************************************************************)
EXTENDS SessionStore, TLAPS

(***************************************************************************)
(* The rows an upsert loop and a reaping loop can leave behind are rows.   *)
(***************************************************************************)
LEMMA ReconcileType ==
  ASSUME StoreTypeOK,
         NEW h \in Hosts, NEW k \in Kinds, NEW snap \in Snapshots
  PROVE  /\ DOMAIN snap \subseteq Sessions
         /\ UpsertAll(sessions, h, k, snap) \in [Sessions -> Row \cup {NoRow}]
         /\ Reconcile(sessions, h, k, snap) \in [Sessions -> Row \cup {NoRow}]
<1>1. /\ DOMAIN snap \subseteq Sessions
      /\ \A s \in DOMAIN snap : snap[s] \in Entry
  BY DEF Snapshots
<1>2. \A s \in DOMAIN snap : SnapshotRow(h, k, snap[s]) \in Row
  BY <1>1 DEF SnapshotRow, Row, Entry, StoreTypeOK
<1>3. UpsertAll(sessions, h, k, snap) \in [Sessions -> Row \cup {NoRow}]
  BY <1>1, <1>2 DEF UpsertAll, StoreTypeOK
<1>4. \A row \in Row : EndedRow(row) \in Row
  BY DEF EndedRow, Row, StoreTypeOK
<1>5. \A s \in Absent(sessions, h, k, snap) :
        UpsertAll(sessions, h, k, snap)[s] \in Row
  BY <1>3 DEF Absent, InScope, Active
<1>. QED
  BY <1>1, <1>3, <1>4, <1>5 DEF Reconcile

-----------------------------------------------------------------------------
LEMMA StoreTypeInit == StoreInit => StoreTypeOK
BY StoreAssumption DEF StoreInit, StoreTypeOK

LEMMA StoreTypeStep == StoreTypeOK /\ [StoreNext]_storeVars => StoreTypeOK'
<1>. SUFFICES ASSUME StoreTypeOK, [StoreNext]_storeVars
              PROVE  StoreTypeOK'
  OBVIOUS
<1>1. CASE Post
  <2>1. PICK r \in Report : UpsertSession(r) /\ UNCHANGED <<host_status, now>>
    BY <1>1 DEF Post
  <2>2. sessions' \in [Sessions -> Row \cup {NoRow}]
    BY <2>1, StoreAssumption DEF UpsertSession, Report, Row, StoreTypeOK
  <2>. QED
    BY <2>1, <2>2 DEF StoreTypeOK
<1>2. CASE End
  BY <1>2 DEF End, EndSession, EndedRow, Row, StoreTypeOK
<1>3. CASE Delete
  BY <1>3 DEF Delete, DeleteSession, StoreTypeOK
<1>4. CASE Snapshot
  <2>1. PICK h \in Hosts, k \in Kinds, snap \in Snapshots :
          ApplySnapshot(h, k, snap) /\ RecordHostSeen(h, k) /\ UNCHANGED now
    BY <1>4 DEF Snapshot
  <2>2. sessions' \in [Sessions -> Row \cup {NoRow}]
    BY <2>1, ReconcileType DEF ApplySnapshot
  <2>. QED
    BY <2>1, <2>2 DEF RecordHostSeen, StoreTypeOK
<1>5. CASE Tick
  BY <1>5, StoreAssumption DEF Tick, StoreTypeOK, Row
<1>6. CASE UNCHANGED storeVars
  BY <1>6 DEF storeVars, StoreTypeOK
<1>. QED
  BY <1>1, <1>2, <1>3, <1>4, <1>5, <1>6 DEF StoreNext

(***************************************************************************)
(* The store's tables stay well typed under every operation of its trait.  *)
(***************************************************************************)
THEOREM StoreTypeCorrect == StoreSpec => []StoreTypeOK
BY StoreTypeInit, StoreTypeStep, PTL DEF StoreSpec

-----------------------------------------------------------------------------
(***************************************************************************)
(* What a reconciled table holds, id by id: a listed session has exactly   *)
(* the listed data under the snapshot's scope, an unlisted one is as it    *)
(* was, or has been ended because it was active in that scope.             *)
(***************************************************************************)
LEMMA ReconciledRow ==
  ASSUME StoreTypeOK,
         NEW h \in Hosts, NEW k \in Kinds, NEW snap \in Snapshots, NEW s \in Sessions
  PROVE  LET after == Reconcile(sessions, h, k, snap)[s]
         IN  /\ s \in DOMAIN snap =>
                  /\ InScope(after, h, k) /\ Unchanged(after, h, k, snap[s])
                  /\ Unchanged(sessions[s], h, k, snap[s]) <=> after = sessions[s]
             /\ s \notin DOMAIN snap =>
                  IF InScope(sessions[s], h, k)
                  THEN after = EndedRow(sessions[s]) /\ after.status = Ended /\ after \in Row
                  ELSE after = sessions[s]
<1>. DEFINE upserted == UpsertAll(sessions, h, k, snap)
            after == Reconcile(sessions, h, k, snap)[s]
<1>1. CASE s \in DOMAIN snap
  <2>1. after = upserted[s]
    BY <1>1 DEF Reconcile, Absent
  <2>2. snap[s] \in Entry
    BY <1>1 DEF Snapshots
  <2>3. /\ SnapshotRow(h, k, snap[s]) \in Row
        /\ Unchanged(SnapshotRow(h, k, snap[s]), h, k, snap[s])
    BY <2>2, NoRowAssumption DEF SnapshotRow, Unchanged, Row, Entry, StoreTypeOK
  <2>4. Unchanged(after, h, k, snap[s])
    BY <1>1, <2>1, <2>3 DEF UpsertAll
  <2>5. InScope(after, h, k)
    BY <2>2, <2>4, StoreAssumption DEF Unchanged, InScope, Active, Entry
  <2>6. Unchanged(sessions[s], h, k, snap[s]) <=> after = sessions[s]
    BY <1>1, <2>1, <2>4 DEF UpsertAll
  <2>. QED
    BY <1>1, <2>4, <2>5, <2>6
<1>2. CASE s \notin DOMAIN snap
  <2>1. upserted[s] = sessions[s]
    BY <1>2 DEF UpsertAll
  <2>2. s \in Absent(sessions, h, k, snap) <=> InScope(sessions[s], h, k)
    BY <1>2, <2>1 DEF Absent
  <2>3. ASSUME InScope(sessions[s], h, k)
        PROVE  EndedRow(sessions[s]) \in Row /\ EndedRow(sessions[s]).status = Ended
    BY <2>3 DEF InScope, Active, EndedRow, Row, StoreTypeOK
  <2>. QED
    BY <1>2, <2>1, <2>2, <2>3 DEF Reconcile
<1>. QED
  BY <1>1, <1>2

(***************************************************************************)
(* After any snapshot the active rows of its scope are the listed ones.    *)
(***************************************************************************)
THEOREM StoreReconciles == StoreSpec => []SnapshotReconciles
<1>1. StoreTypeOK => SnapshotReconciles
  <2>. SUFFICES ASSUME StoreTypeOK,
                       NEW h \in Hosts, NEW k \in Kinds, NEW snap \in Snapshots
                PROVE  LET after == Reconcile(sessions, h, k, snap)
                       IN  /\ {s \in Sessions : InScope(after[s], h, k)} = DOMAIN snap
                           /\ \A s \in DOMAIN snap : Unchanged(after[s], h, k, snap[s])
    BY DEF SnapshotReconciles
  <2>. DEFINE after == Reconcile(sessions, h, k, snap)
  <2>1. DOMAIN snap \subseteq Sessions
    BY ReconcileType
  <2>2. \A s \in DOMAIN snap : InScope(after[s], h, k) /\ Unchanged(after[s], h, k, snap[s])
    BY <2>1, ReconciledRow
  <2>3. ASSUME NEW s \in Sessions, s \notin DOMAIN snap
        PROVE  ~InScope(after[s], h, k)
    BY <2>3, ReconciledRow DEF InScope, Active
  <2>. QED
    BY <2>1, <2>2, <2>3
<1>. QED
  BY <1>1, StoreTypeCorrect, PTL

(***************************************************************************)
(* apply_snapshot's flag is exact, and false when the snapshot is applied  *)
(* once more.                                                              *)
(***************************************************************************)
LEMMA SilentSnapshot ==
  ASSUME StoreTypeOK,
         NEW h \in Hosts, NEW k \in Kinds, NEW snap \in Snapshots
  PROVE  LET after == Reconcile(sessions, h, k, snap)
         IN  /\ ~SnapshotChanges(sessions, h, k, snap) <=> after = sessions
             /\ ~SnapshotChanges(after, h, k, snap)
<1>. DEFINE after == Reconcile(sessions, h, k, snap)
<1>1. /\ DOMAIN snap \subseteq Sessions
      /\ after \in [Sessions -> Row \cup {NoRow}]
      /\ sessions \in [Sessions -> Row \cup {NoRow}]
  BY ReconcileType DEF StoreTypeOK
<1>2. \A s \in Sessions \ DOMAIN snap :
        s \in Absent(sessions, h, k, snap) <=> InScope(sessions[s], h, k)
  BY <1>1 DEF Absent, UpsertAll
<1>3. \A s \in Sessions \ DOMAIN snap :
        InScope(sessions[s], h, k) <=> after[s] # sessions[s]
  BY ReconciledRow DEF InScope, Active
<1>4. SnapshotChanges(sessions, h, k, snap) <=> \E s \in Sessions : after[s] # sessions[s]
  <2>1. Absent(sessions, h, k, snap) \subseteq Sessions \ DOMAIN snap
    BY DEF Absent
  <2>2. \A s \in DOMAIN snap :
          Unchanged(sessions[s], h, k, snap[s]) <=> after[s] = sessions[s]
    BY <1>1, ReconciledRow
  <2>. QED
    BY <1>1, <1>2, <1>3, <2>1, <2>2 DEF SnapshotChanges
<1>5. \A s \in DOMAIN snap : Unchanged(after[s], h, k, snap[s])
  BY <1>1, ReconciledRow
<1>6. \A s \in Sessions \ DOMAIN snap : ~InScope(after[s], h, k)
  BY ReconciledRow DEF InScope, Active
<1>7. Absent(after, h, k, snap) = {}
  BY <1>6 DEF Absent, UpsertAll
<1>. QED
  BY <1>1, <1>4, <1>5, <1>7 DEF SnapshotChanges

(***************************************************************************)
(* The change flag is exact, and a republished snapshot changes nothing.   *)
(***************************************************************************)
THEOREM StoreRepublishSilent == StoreSpec => []RepublishIsSilent
<1>1. StoreTypeOK => RepublishIsSilent
  BY SilentSnapshot DEF RepublishIsSilent
<1>. QED
  BY <1>1, StoreTypeCorrect, PTL

(***************************************************************************)
(* No snapshot disturbs an unlisted row outside its own host and kind.     *)
(***************************************************************************)
THEOREM StoreForeignRows == StoreSpec => []UnlistedForeignRowsSurvive
<1>1. StoreTypeOK => UnlistedForeignRowsSurvive
  BY ReconciledRow DEF UnlistedForeignRowsSurvive
<1>. QED
  BY <1>1, StoreTypeCorrect, PTL
=============================================================================
