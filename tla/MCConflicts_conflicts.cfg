\* Three chunks, the oracle answers every verdict, one request and one retry.
SPECIFICATION FairSpec
CONSTANTS
  a = a
  b = b
  c = c
  Chunks = {a, b, c}
  Texts <- AllVerdicts
  First <- LateStarts
  MaxAgents = 2
  MaxPhases = 2
  MaxRetries = 1
  MaxRequests = 1
CHECK_DEADLOCK FALSE
PROPERTIES
  WaitsEnd
  ReadyGetsTurn
