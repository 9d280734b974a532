\* Requests of every kind, a daemon that is restarted, one kill.
SPECIFICATION Spec
CONSTANTS
  Cgi = {c1, c2}
  MaxSemaphores = 2
  MaxStarts = 2
  MaxKills = 1
  MaxFailures = 0
  Ops = {"update", "pull"}
SYMMETRY CgiSymmetry
INVARIANTS
  TypeOK
  SemaphoreBalance
  SameObjectExcludes
  ExclusionUntilUnlinked
  DaemonReachable
  NameDiesWithDaemon
CHECK_DEADLOCK FALSE
