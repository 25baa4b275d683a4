CONSTANTS
  Names <- MCNames
  Blocks <- MCBlocks
  Dir <- MCDir
  Listable <- MCListable
  None = None
  MaxGen = 3
  NotifyFails = FALSE
  ReadFails = TRUE
SPECIFICATION Spec
INVARIANTS EndMeansEnd
CHECK_DEADLOCK FALSE
