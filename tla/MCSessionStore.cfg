\* Two hosts, two kinds and two ids: every pair of scopes can meet on one id.
CONSTANTS
  Sessions = {s1, s2}
  Hosts = {h1, h2}
  NoHost = NoHost
  Kinds = {"claude", "codex"}
  Statuses = {"busy"}
  Names = {"n"}
  NoName = NoName
  NoRow = NoRow
  Never = Never
  MaxTime = 1
SYMMETRY Interchangeable
SPECIFICATION StoreSpec
INVARIANTS
  StoreTypeOK
  SnapshotReconciles
  RepublishIsSilent
  UnlistedForeignRowsSurvive
