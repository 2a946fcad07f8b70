SPECIFICATION FairSpec
CONSTANTS
  ErrorDiv = 2
  CommandDiv = 4
  MaxCommand = 3
  LongHalf = 58
  NCSTART = 2
  PeriodMax = 5
  SetpointMax = 0
  ReserveMax = 1
  GainPMin = 0
  GainPMax = 1
  GainIMin = 0
  GainIMax = 3
INVARIANTS NoOverflow
PROPERTY LargeImportStopsRouting
