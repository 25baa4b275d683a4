SPECIFICATION FairSpec
CONSTANTS
  WriterPath = "audio"
  Limit = 2
  Capacity = 4
  ThresholdPct = 60
  MaxAttempts = 6
  SeqWidth = 6
  SeqModulus = 4
  EpochModulus = 100
  BootIds <- MCBootIds
  Earlier <- MCEarlier
  Samples = 100
  HighThreshold = 80
  HighCounts <- MCHighCounts
  NoName = NoName
  MaxBlocks = 6
  MaxBoots = 1
  MaxSyncs = 2
INVARIANTS
  TypeOK
  KeptOnce
PROPERTIES
  EpochPrunedInOrder
  LiveRotates
  FullCardRecovers
