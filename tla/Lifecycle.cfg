SPECIFICATION FairSpec
CONSTANTS
  TIMEOUT = 2
  ALARM = 2
  FORMAT = 4
  Requests = {"SET", "RESET", "FORMAT"}
  SALVE = 2
  MaxLine = 3
INVARIANT StopsInTime
PROPERTIES NoFalseAlarm AlarmDropsRequests RunsAgain
