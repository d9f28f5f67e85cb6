\* One worker thread: handlers never overlap.
CONSTANTS
  Sessions = {s1}
  Hosts = {h1}
  NoHost = NoHost
  Kinds = {"codex"}
  Statuses = {"busy", "idle"}
  Names = {}
  NoName = NoName
  NoRow = NoRow
  Never = Never
  MaxTime = 1
  Workers = {w1}
  Clients = {c1}
  Capacity = 2
  FaultPoints = {}
  MaxFaults = 0
  Everyone = Everyone
  Idle = Idle
  Nothing = Nothing
  Closed = Closed
SPECIFICATION FairServerSpec
INVARIANTS
  ServerTypeOK
  ScreensMatchStore
PROPERTY
  StableStoreIsShown
