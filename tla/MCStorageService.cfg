CONSTANTS
  Names <- MCNames
  Blocks <- MCBlocks
  Dir <- MCDir
  Listable <- MCListable
  None = None
  MaxGen = 5
  NotifyFails = TRUE
  ReadFails = TRUE
SPECIFICATION FairSpec
INVARIANTS TypeOK EndMeansComplete SendsRequestedFile AtMostOneStale
PROPERTIES ClosedOnlyWhenAnswered EveryTransferEnds AcceptedIsAnswered ImplementsTransfer
CHECK_DEADLOCK FALSE
