\* Waiting ends.  Nobody is killed: a killed holder really blocks the others.
SPECIFICATION FairSpec
CONSTANTS
  Cgi = {c1, c2}
  MaxSemaphores = 2
  MaxStarts = 1
  MaxKills = 0
  MaxFailures = 1
  Ops = {"update", "pull"}
PROPERTIES
  EveryWaitEnds
CHECK_DEADLOCK FALSE
