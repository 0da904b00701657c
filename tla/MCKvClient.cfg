\* Two faults: the first connection or its successor is refused or breaks, and
\* the one after it; three commands.
CONSTANTS
  MaxFaults = 2
  MaxCommands = 3
SPECIFICATION ClientFairSpec
INVARIANTS
  ChannelSound
  TimerTracksSocket
  RepliesMatch
PROPERTIES
  PromptReturns
\* Commands are bounded, and the user may leave.
CHECK_DEADLOCK FALSE
