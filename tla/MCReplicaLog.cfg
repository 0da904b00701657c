\* One replica: two keys, equal and different timestamps, three writes, two
\* crashes; safety, liveness and the refinement, so without symmetry.
CONSTANTS
  Key = {k1, k2}
  Val = {v1, v2}
  Null = Null
  Stamp <- MCStamp
  MaxWrites = 3
  MaxCrashes = 2
SPECIFICATION FairSpec
INVARIANTS
  TypeOK
  LogBeforeStore
  NothingForgotten
  RecoveredStore
  LogGrowth
PROPERTIES
  ReadsNeverGoBack
  EventuallyRecovers
  ImplementsLwwStore
\* The writes and the crashes are bounded: the system comes to rest.
CHECK_DEADLOCK FALSE
