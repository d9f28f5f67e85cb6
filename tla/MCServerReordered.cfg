\* Two worker threads, no error.
CONSTANTS
  Sessions = {s1}
  Hosts = {h1}
  NoHost = NoHost
  Kinds = {"codex"}
  Statuses = {"busy"}
  Names = {}
  NoName = NoName
  NoRow = NoRow
  Never = Never
  MaxTime = 0
  Workers = {w1, w2}
  Clients = {c1}
  Capacity = 2
  FaultPoints = {}
  MaxFaults = 0
  Everyone = Everyone
  Idle = Idle
  Nothing = Nothing
  Closed = Closed
SPECIFICATION ServerSpec
INVARIANT
  ScreensMatchStore
