SPECIFICATION FairSpec
CONSTANTS
  Sessions <- MCSessions
  Dir <- MCDir
  Live = "live"
  Size <- MCSize
  Window = 1
  Offsets = {0}
  MaxQueue = 2
  MaxAir = 1
  None = None
INVARIANTS
  TypeOK
  AnsweredWhenAlone
PROPERTIES
  EveryOperationEnds
  NotificationsReturn
