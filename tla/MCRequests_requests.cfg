SPECIFICATION Spec
CONSTANTS
    a = a
    b = b
    c = c
    Chunks <- Trio
    Deps <- NoDeps
    ExplicitChunks = {}
    RetainedChunks = {}
    StartPhases = {"COMPLETE"}
    Verdicts = {"SERIALIZE", "ASK_OPERATOR"}
    OperatorRequests = {"answer", "retry", "resolve", "patch", "delete"}
    PatchStatuses = {"NEEDS_ATTENTION", "DONE"}
    MaxAgents = 3
    MaxIterations = 1
    MaxNudges = 1
    MaxApiRetries = 1
    MaxCompletionRetries = 0
    MaxMergeRetries = 0
    MaxRequests = 2
    MaxCrashes = 0
    MaxSessionLimits = 0
INVARIANTS
    SchedulerInv
PROPERTIES
    QuestionsStand
    NoResurrection
ACTION_CONSTRAINT Scenario
SYMMETRY AlikeUnits
