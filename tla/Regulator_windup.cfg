SPECIFICATION FairSpec
CONSTANTS
  ErrorDiv = 1
  CommandDiv = 4
  MaxCommand = 3
  LongHalf = 128
  NCSTART = 2
  PeriodMax = 8
  SetpointMax = 0
  ReserveMax = 0
  GainPMin = 2
  GainPMax = 2
  GainIMin = 1
  GainIMax = 1
PROPERTY ImportLeavesFullPower
