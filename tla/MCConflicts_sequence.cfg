\* Two chunks that the oracle wants in sequence, no operator.
CONSTANTS
  a = a
  b = b
  c = c
  Chunks = {a, b}
  Texts <- Overlapping
  First <- Starts
  MaxAgents = 2
  MaxPhases = 2
  MaxRetries = 0
  MaxRequests = 0
SPECIFICATION Spec
CHECK_DEADLOCK FALSE
INVARIANTS
  MustSequence
