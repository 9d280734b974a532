\* More clients than slots, all requests, everybody in time.
SPECIFICATION Spec
CONSTANTS
  Clients = {c1, c2, c3}
  NoOne = NoOne
  MaxSubscriptions = 2
  Durations = {0, 1}
  MaxTime = 4
  Requests = {"create", "subscribe", "renew", "unsubscribe", "sync"}
  Deviations = {}
SYMMETRY ClientSymmetry
INVARIANTS
  TypeOK
  
  GrantHonoured

  
CHECK_DEADLOCK FALSE
