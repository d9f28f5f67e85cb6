\* Two threads; one hook at a time, which may fail or be killed.
CONSTANTS
  Sessions = {1, 2}
  Hosts = {"here"}
  NoHost = NoHost
  Kinds = {"codex"}
  Statuses = {"busy"}
  Names = {}
  NoName = NoName
  NoRow = NoRow
  Never = Never
  MaxTime = 0
  WatcherHost = "here"
  HookHost = "here"
  HookProcs = {p1}
  MaxFaults = 1
  NoSnapshot = NoSnapshot
SPECIFICATION FairCodexSpec
INVARIANT
  OnlyOwnSessionsAreEnded
PROPERTIES
  ClosedSessionsEnd
  OpenSessionsAreListed
