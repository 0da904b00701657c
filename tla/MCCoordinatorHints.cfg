\* Hints: two servers, puts at both, one crash and two broken connections.
CONSTANTS
  Server <- Two
  Putters <- Two
  Getters <- Two
  Weak <- AllConns
  Key <- OneKey
  Val <- Vals
  Stamp <- Stamps2
  Null = Null
  Mode = "hinted_handoff"
  Consistency <- LevelOne
  Width = 8
  MaxRequests = 2
  MaxGets = 0
  MaxCrashes = 1
  MaxCuts = 2
SPECIFICATION FairSpec
INVARIANTS
  HintsNonNegative
  HandoffKeeps
PROPERTIES
  HandoffConverges
\* Requests, crashes and cuts are bounded: the cluster comes to rest.
CHECK_DEADLOCK FALSE
