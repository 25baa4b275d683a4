SPECIFICATION Spec
CONSTANTS
  NumFiles = 2
  Content <- MCContent
  Sizes <- MCSizes
  Window = 3
  MaxPass = 6
  FramesPerChunk = 2
  Base <- MCBase
  Slots <- MCSlots
  None = None
  CrashAt <- Nowhere
  MaxCrashes = 0
  StopAt <- InFlush
  MaxStops = 1
  MaxReuses = 0
INVARIANTS
  NoByteSkipped
CHECK_DEADLOCK FALSE
