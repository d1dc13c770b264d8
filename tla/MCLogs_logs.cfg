SPECIFICATION LeftSpec
CONSTANTS
  FirstPhases = {1, 3}
  MaxLines <- FewLines
  MaxReturns = 1
  MaxIterations = 2
  MaxNudges = 2
  MaxRounds = 3
  MaxRequests = 1
  MaxReviewKills = 1
  Iterations = {1, 2}
  MaxMarks = 2
CHECK_DEADLOCK FALSE
INVARIANTS
  LeftInv
PROPERTIES
  ViewersFollow
