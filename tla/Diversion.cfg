SPECIFICATION FairSpec
CONSTANTS
  OnTime = 2
  OffTime = 3
  BOOST_BURST_PERIOD = 3
  Thresholds = {1}
  Durations = {4}
  AgeMax = 4
INVARIANT LastRequestWins
PROPERTIES MinimumTimes SurplusServed
