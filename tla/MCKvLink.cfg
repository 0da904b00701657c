\* One request, which is enough to come before the introduction.
CONSTANTS
  MaxFaults = 0
  MaxRequests = 1
SPECIFICATION Spec
INVARIANTS
  IntroducedFirst
CHECK_DEADLOCK FALSE
