SPECIFICATION DaySpec
CONSTANTS
  DAY = 8
  Lengths = {8}
  COUNTDOWN = 5
  LEAST = 1
  Minima = {0, 2}
  Maxima = {2}
  MaxLate = 1
  MaxDays = 2
INVARIANTS DayMinimum DayMaximum
PROPERTY ManualStopsRelayPlus
