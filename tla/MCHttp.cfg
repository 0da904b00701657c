SPECIFICATION FairSpec
CONSTANTS
  c1 = c1
  c2 = c2
  Conns <- BothConns
  Paths <- OnePath
  MaxSize = 2
  MaxRequests = 2
  MaxFds = 3
  MaxFaults = 1
INVARIANTS
  FramesWhole
  AnswersInStep
  NumbersOnce
PROPERTIES
  RequestsEnd
CHECK_DEADLOCK FALSE
