\* Read repair: two puts at server 1, of which each other server may miss
\* either or both, and a get at server 2.
CONSTANTS
  Server <- Three
  Putters <- First
  Getters <- Second
  Weak <- OfFirst
  Key <- OneKey
  Val <- Vals
  Stamp <- Stamps2
  Null = Null
  Mode = "read_repair"
  Consistency <- LevelOne
  Width = 8
  MaxRequests = 3
  MaxGets = 1
  MaxCrashes = 0
  MaxCuts = 2
SPECIFICATION Spec
CONSTRAINT GetsWhenQuiet
INVARIANTS
  RepairConverges
\* Requests, crashes and cuts are bounded: the cluster comes to rest.
CHECK_DEADLOCK FALSE
