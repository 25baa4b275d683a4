SPECIFICATION Spec
CONSTANTS
  Sessions <- LateSessions
  Dir <- LateDir
  Live = "live"
  Size <- LateSize
  Window = 1
  Offsets = {0}
  MaxQueue = 2
  MaxAir = 1
  None = None
INVARIANTS
  AnswersOwnRequest
