SPECIFICATION Spec
CONSTANTS
  OCR2A = 4
  TOP = 8
  Bounce = 3
  Spike = 3
  Closed = 9
  Open = 5
  Hold = 9
  Intervals = {"a", "b"}
INVARIANTS CountedOnce PowerIsCurrent
