CONSTANTS
  Sessions = {s1}
  Statuses = {"Busy"}
  HostLists = {none}
  NoHosts = none
  Observers = {o1, o2}
  SSE = sse
  Poller = poller
  Unseen = unseen
SPECIFICATION ViewSpec
INVARIANT SubscribersNeedNotPoll
SYMMETRY MCSymmetry
