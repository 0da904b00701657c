\* Quorums: three servers, one request at every consistency level (0 and 4
\* included), one crash and one broken connection.
CONSTANTS
  Server <- Three
  Putters <- First
  Getters <- First
  Weak <- AllConns
  Key <- OneKey
  Val <- Vals
  Stamp <- Stamps1
  Null = Null
  Mode = "read_repair"
  Consistency <- Levels
  Width = 8
  MaxRequests = 1
  MaxGets = 1
  MaxCrashes = 1
  MaxCuts = 1
SPECIFICATION FairSpec
INVARIANTS
  TypeOK
  AckedSurvives
  ReplyOnce
PROPERTIES
  RequestsAnswered
\* Requests, crashes and cuts are bounded: the cluster comes to rest.
CHECK_DEADLOCK FALSE
