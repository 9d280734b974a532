\* Starts that overlap, a failure, a kill, signals; PTZ requests in parallel;
\* the Bye of a signal at any step; sources of frames that come and go.
SPECIFICATION ProgramsSpec
CONSTANTS
  Instances = {i1, i2}
  None = None
  MaxFailures = 1
  MaxKills = 1
  MaxChanges = 0
  Cgi = {c1, c2}
  plain = plain
  comma = comma
  Names = {plain, comma}
  Cut <- CutNames
  MaxPresets = 2
  Moves = {"right", "up", "move_stop"}
  MaxRequests = 3
  MaxUnread = 1
  Nothing = Nothing
  Probers = {p1, p2}
  Signals = {"TERM", "INT"}
  MaxReceived = 2
  MaxSignals = 2
  Nobody = Nobody
  NSources = 3
  QueueCapacity = 2
  MaxFrames = 4
INVARIANTS
  ProgramsTypeOK
  ServerHasSegment
  PidFileNamesServer
  CleanEnd
  NamesAreUnique
  TokenIsOwn
  
  GotoReachesChecked
  NamelessIsNew
  NumbersIncrease
  ByeIsFinal
  RightAddressee
  
  FramesInOrder
  CallbackSourceIsOpen
  TriggerFindsNobody
PROPERTIES
  SignalEnds
  SignalEndsLoop
  SpinEnds
CHECK_DEADLOCK FALSE
