SPECIFICATION FairSpec
CONSTANTS
  BufferSize = 6
  Cells <- MCCells
  AdcTicks = 2
  None = None
INVARIANTS
  TypeOK
  PatternIsTold
PROPERTIES
  LowBatteryIsShown
  SwitchIsShown
  LevelReachesPhone
  BootCommandIsExact
