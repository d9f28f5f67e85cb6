\* Widths and lengths around the borders of the layout; the intervals, timeouts
\* and the threshold of the heartbeats in seconds as they are in the code.
CONSTANTS
  s1 = s1
  s2 = s2
  s3 = s3
  here = here
  there = there
  Nothing = Nothing
  Ids = {s1, s2, s3}
  Lists <- SomeLists
  SESSION_STALE_THRESHOLD = 1
  HOST_STALE_THRESHOLD = 30
  LocalHost = here
  TermSizes <- SomeSizes
  WIDE_COLS = 2
  ExitOnSelect = TRUE
  DesktopLists <- FewLists
  Flags = {"transparent", "click_through"}
  Now = 2
  Clients = {c1, c2}
  Panes <- SomePanes
  BeginsWith <- SomeNames
  Views <- SomeViews
  KnownAs = {here}
  MaxActivity = 1
  Detached = Detached
  NoTarget = NoTarget
  GarbledTarget = GarbledTarget
  NoHostname = NoHostname
  MIN_CWD = 5
  MAX_MODAL = 52
  Widths = {1, 7, 20, 40, 100}
  Texts = {0, 1, 9, 30}
  Ages = {2, 5}
  KindCount = 2
  Interval = 2
  PublishTimeout = 5
  MAX_BACKOFF = 30
  PollInterval = 10
  PollTimeout = 5
  CycleWork = 1
  Hiccup = 5
  MaxSlips = 1
SPECIFICATION ClientsSpec
INVARIANTS
  SelectedSessionIsShown
  RowsFit
  StalenessIsTrue
PROPERTIES
  AimIsKept
  ActivationLands
  FramesTakeNothingBack
\* A terminal may be closed, and a session drawn once.
CHECK_DEADLOCK FALSE
