\* All rings of up to three of five nodes among the ids of three bits; a lookup of
\* every kind for every key at every node at every moment, and one crash.
CONSTANTS
  M = 3
  NodeIds = {0, 1, 3, 5, 6}
  MaxNodes = 3
  MaxCrashes = 1
SPECIFICATION FairSpec
INVARIANTS
  AnswerCorrect
PROPERTIES
  HopForward
  LookupEnds
\* The script ends, and one lookup is followed.
CHECK_DEADLOCK FALSE
