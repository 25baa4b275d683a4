SPECIFICATION StoppableSpec
CONSTANTS
  NumFiles = 1
  Content <- MCContent
  Sizes <- MCStopSizes
  Window = 3
  MaxPass = 6
  FramesPerChunk = 2
  Base <- MCBase
  Slots <- MCSlots
  None = None
  CrashAt <- Nowhere
  MaxCrashes = 0
  StopAt <- Everywhere
  MaxStops = 1
  MaxReuses = 1
INVARIANTS
  RestartKeepsApart
PROPERTIES
  StopEnds
CHECK_DEADLOCK FALSE
