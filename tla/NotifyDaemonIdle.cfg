\* Does SIGTERM end an instance when no file changes any more?
SPECIFICATION FairSpec
CONSTANTS
  Instances = {i1}
  None = None
  MaxFailures = 1
  MaxKills = 0
  MaxChanges = 1
PROPERTIES
  SignalEnds
CHECK_DEADLOCK FALSE
