CONSTANTS
  ACK_TIMEOUT = 3
  RX_TIMEOUT = 2
  HEAD = 2
  TEXT = 2
  FILE = 4
  SndBufs = {2, 3, 5}
  FAULTS = 1
  PACKET = 3
  boundary <- Boundary
  BUFFER = 2
  Contents <- SampleContents
SPECIFICATION Spec
INVARIANTS Owned HandledOnce InOrder
PROPERTIES AbortReported Answered Released
