SPECIFICATION FairSpec
CONSTANTS
  NoMessage = NoMessage
  NoNode = NoNode
  NoPoint = NoPoint
  Ids <- MCIds
  MaxVersion = 3
  Partitions = {1, 2}
  Logs <- MCLogs
  MaxAttempts = 2
  MaxFaults = 2
INVARIANTS
  TypeOK
  CurrentIsNewest
  CommittedIsAccountedFor
  VectorAfterGraph
  GraphIsComplete
PROPERTIES
  CurrentOnlyAdvances
  AllDelivered
CHECK_DEADLOCK FALSE
