SPECIFICATION Spec
CONSTANTS
  NumFiles = 2
  Content <- MCContent
  Sizes <- MCSizes
  Window = 3
  MaxPass = 6
  FramesPerChunk = 2
  Base <- MCBase
  Slots <- MCSlots
  None = None
  CrashAt <- BetweenPreferences
  MaxCrashes = 1
  StopAt <- Nowhere
  MaxStops = 0
  MaxReuses = 0
INVARIANTS
  NoByteSkipped
CHECK_DEADLOCK FALSE
