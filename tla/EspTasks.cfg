SPECIFICATION Spec
CONSTANTS
  Functions = {"relay", "mqtt", "wifi", "history"}
  FAILURES = 1
  RECONNECT = 1
  QUEUE = 3
  PERIOD = 2
  TIMEOUT = 1
  HISTORY = 3
  RECORDS = 4
INVARIANTS ConfigKept RemoteFollows WifiWatched HistoryShown MqttFollows
