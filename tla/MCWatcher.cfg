\* Two facts, so that a frozen session can differ from a fresh one; the claude
\* sweeps may fail for ever, and among publishes and the codex sweeps two may.
\* Output that does not fit a pipe, and a timeout of one tick.
CONSTANTS
  SessionIds = {x}
  Facts = {f1, f2}
  Sources <- ClaudeThenCodex
  BrokenKinds = {"claude"}
  Interval = 2
  MIN_INTERVAL = 1
  MAX_BACKOFF = 5
  MaxFaults = 2
  MaxRestarts = 1
  NoRequest = NoRequest
  Timeout = 1
  PipeSize = 1
  MaxOutput = 2
  Cwds = {repo}
  Branches = {"main", "HEAD"}
  GitTTL = 2
  NoEntry = NoEntry
SPECIFICATION MCSpec
INVARIANTS
  WatcherTypeOK
  TrackedIsTwoSweeps
  WaitsAreBounded
  NoProcessIsLeftBehind
PROPERTIES
  NeverEndedEarly
  StableSessionsAreReported
  SignalStopsWatcher
  NoneOverrunsOnOutput
  SettledBranchIsShown
  LookupsEnd
