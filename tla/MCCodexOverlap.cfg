\* Two threads; hooks that overlap; nothing fails.
CONSTANTS
  Sessions = {1, 2}
  Hosts = {"here"}
  NoHost = NoHost
  Kinds = {"codex"}
  Statuses = {"busy"}
  Names = {}
  NoName = NoName
  NoRow = NoRow
  Never = Never
  MaxTime = 0
  WatcherHost = "here"
  HookHost = "here"
  HookProcs = {p1, p2}
  MaxFaults = 0
  NoSnapshot = NoSnapshot
SPECIFICATION CodexSpec
INVARIANT
  ReportedSessionsAreRecorded
