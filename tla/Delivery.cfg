\* Two subscriptions of a kind or of both, a file that comes and goes.
SPECIFICATION DeliverySpec
CONSTANTS
  Clients = {c1, c2}
  NoOne = NoOne
  MaxSubscriptions = 2
  Durations = {0}
  MaxTime = 2
  Requests = {"create", "subscribe", "sync"}
  Deviations = {}
  NEvents = 1
  Preexisting = {}
  Inotify = TRUE
  MaxChanges = 2
  Timeouts = {0}
  Limits = {1}
  Unreachable = TRUE
SYMMETRY ClientSymmetry
INVARIANTS
  DeliveryTypeOK
  PullMissesNothing
  
  PushConverges
  TableFollowsFiles
CHECK_DEADLOCK FALSE
