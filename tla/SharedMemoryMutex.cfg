\* Does the daemon's semaphore protect its sections from the CGI processes?
SPECIFICATION Spec
CONSTANTS
  Cgi = {c1, c2}
  MaxSemaphores = 2
  MaxStarts = 1
  MaxKills = 0
  MaxFailures = 0
  Ops = {"update"}
INVARIANTS
  SyncExcludesCgi
CHECK_DEADLOCK FALSE
