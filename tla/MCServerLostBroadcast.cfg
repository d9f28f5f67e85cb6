\* One worker thread, one database error after a commit.
CONSTANTS
  Sessions = {s1}
  Hosts = {h1}
  NoHost = NoHost
  Kinds = {"codex"}
  Statuses = {"busy"}
  Names = {}
  NoName = NoName
  NoRow = NoRow
  Never = Never
  MaxTime = 0
  Workers = {w1}
  Clients = {c1}
  Capacity = 2
  FaultPoints = {"heartbeat"}
  MaxFaults = 1
  Everyone = Everyone
  Idle = Idle
  Nothing = Nothing
  Closed = Closed
SPECIFICATION ServerSpec
INVARIANT
  HeartbeatCannotAffectBroadcast
