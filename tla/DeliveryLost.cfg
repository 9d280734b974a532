\* Is every change of a file pulled by a subscriber?
SPECIFICATION DeliverySpec
CONSTANTS
  Clients = {c1}
  NoOne = NoOne
  MaxSubscriptions = 1
  Durations = {1}
  MaxTime = 3
  Requests = {"create"}
  Deviations = {}
  NEvents = 1
  Preexisting = {}
  Inotify = TRUE
  MaxChanges = 2
  Timeouts = {0}
  Limits = {1}
  Unreachable = FALSE
INVARIANTS
  EveryChangeIsPulled
CHECK_DEADLOCK FALSE
