SPECIFICATION MCSpec
CONSTANTS
  p1 = p1  p2 = p2  d1 = d1  d2 = d2  h1 = h1  h2 = h2
  c1 = c1  c2 = c2  u1 = u1  u2 = u2
  None = None  Garbled = Garbled  NoHome = NoHome  NoKey = NoKey
  Pids = {p1, p2}
  Dirs = {d1, d2}
  Homes = {h1, h2}
  Programs <- MCPrograms
  DefaultDirIn <- MCDefaultDirIn
  TildeDirIn <- MCDefaultDirIn
  WatcherHome = h1
  TTL = 2
  PROC_START_TOLERANCE_SECS = 1
  Skew = 1
  ReuseGap = 2
  Overrides <- MCOverrides
  Platforms = {"linux", "macos"}
  MaxTime = 2
  Codexes <- MCCodexes
  Threads = {t1}
  CodexHomes = {c1, c2}
  UserHomes = {u1, u2}
  DotCodex <- MCDotCodex
  WatcherUser = u1
  HomeOverrides = {NoHome, c2}
  Records <- RecordFields
  MAX_TOKEN_MERGE = 2
  UidHalf = 4
  Stems <- MCStems
  Keys <- MCKeys
  Observable <- MCObservable
SYMMETRY MCSymmetry
INVARIANTS
  RegistryTypeOK
  OrphanWarnedOnce
  ClaudeIsRecognised
  RealAssignmentWins
PROPERTIES
  ReportedSessionsRun
  SettledSessionsAreFound
  SightedSessionsGetOwnPane
  OpenThreadsAreFound
  FoundThreadsWereOpen
CHECK_DEADLOCK FALSE
