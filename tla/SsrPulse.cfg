SPECIFICATION FairSpec
CONSTANTS
  Delays = {1, 3, 5}
  PULSE_END = 6
  Far = 12
  Top = 20
  MinGap = 4
  EarliestCross = 8
  SinceMax = 11
  NCSTART = 2
INVARIANTS OffUnlessCommanded PulseInHalfCycle DeliversCommand
PROPERTY LostMeansOff
