SPECIFICATION FairSpec
CONSTANTS
  Callers = {c1, c2}
  Names <- MCNames
  Contents = {"x"}
  NearId = "near"
  FarId = "far"
  MaxCalls = 3
  MaxCrashes = 1
INVARIANTS VersionsCount ReadsAcked OutcomeFaithful
PROPERTIES CallsEnd
CHECK_DEADLOCK FALSE
