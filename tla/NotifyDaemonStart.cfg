\* Does a granted subscription survive the start of the daemon?
SPECIFICATION Spec
CONSTANTS
  Instances = {i1}
  None = None
  MaxFailures = 1
  MaxKills = 0
  MaxChanges = 1
INVARIANTS
  GrantedIsStored
CHECK_DEADLOCK FALSE
