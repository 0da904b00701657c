\* All rings of two nodes or fewer: one of them can have itself as a finger.
CONSTANTS
  M = 3
  NodeIds = {0, 1, 2, 3, 4, 5, 6}
  MaxNodes = 2
  MaxCrashes = 0
SPECIFICATION Spec
INVARIANT EveryNodeAnswers
CHECK_DEADLOCK FALSE
