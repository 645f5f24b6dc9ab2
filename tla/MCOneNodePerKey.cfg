SPECIFICATION Spec
CONSTANTS
  NoMessage = NoMessage
  NoNode = NoNode
  NoPoint = NoPoint
  Ids <- MCIds
  MaxVersion = 3
  Partitions = {1, 2}
  Logs <- MCLogs
  MaxAttempts = 2
  MaxFaults = 2
CHECK_DEADLOCK FALSE
INVARIANTS
  OneNodePerKey
