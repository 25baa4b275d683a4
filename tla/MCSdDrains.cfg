SPECIFICATION FairSpec
CONSTANTS
  NumFiles = 2
  Content <- MCContent
  Sizes <- MCFullSize
  Window = 3
  MaxPass = 6
  FramesPerChunk = 2
  Base <- MCBase
  Slots <- MCSlots
  None = None
  CrashAt <- Nowhere
  MaxCrashes = 0
  StopAt <- Nowhere
  MaxStops = 0
  MaxReuses = 0
PROPERTIES
  BacklogReachesDrive
CHECK_DEADLOCK FALSE
