\* Does PullMessages come back, and does polling bring the table up to date?
SPECIFICATION FairDelivery
CONSTANTS
  Clients = {c1}
  NoOne = NoOne
  MaxSubscriptions = 1
  Durations = {1}
  MaxTime = 4
  Requests = {"create"}
  Deviations = {}
  NEvents = 2
  Preexisting = {1, 2}
  Inotify = FALSE
  MaxChanges = 2
  Timeouts = {0, 1}
  Limits = {1}
  Unreachable = FALSE
PROPERTIES
  TableCatchesUp
  PullReturns
CHECK_DEADLOCK FALSE
