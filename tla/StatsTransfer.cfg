SPECIFICATION FairSpec
CONSTANTS
  HALVES = 2
  NCSTART = 1
  PassWindows = 2
  WindowMax = 4
INVARIANTS ReportsOneWindow AnomalyReported LossStopsRouter
PROPERTY ImplementsMailbox
