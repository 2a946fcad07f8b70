SPECIFICATION Spec
CONSTANTS
  DURATION = 8
  REPORT = 2
  REFRESH = 3
  BUSY = 1
  ENDING = 1
  QUEUE = 2
  Params = {1, 2}
  Requests = {"booston", "boostoff", "ssrmode", "param", "loadparam", "restart", "format", "configmaxpv"}
  EVENTS = 3
  CALM = 9
INVARIANTS SetupEnds BoostAgrees OverheatStops ParamsFresh
