SPECIFICATION Spec
CONSTANTS
  BASE = 3
  minValue = 2
  maxValue = 3
  NB_CYCLES = 2
  HOUR = 2
  Limit = 3
  RoutedLimit = 1
  Images = {"version 2"}
INVARIANTS NeverAhead HourlySave ConfigValid
