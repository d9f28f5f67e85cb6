CONSTANTS
  Sessions = {s1}
  Statuses = {"Busy", "Idle"}
  HostLists = {none, seen1}
  NoHosts = none
  Observers = {o1}
  SSE = sse
  Poller = poller
  Unseen = unseen
SPECIFICATION FairViewSpec
INVARIANTS ViewTypeOK SettledObserversAgree
PROPERTIES HostsReachObservers LossIsNoticed
