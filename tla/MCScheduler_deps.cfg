SPECIFICATION FairSpec
CONSTANTS
    a = a
    b = b
    c = c
    Chunks <- Trio
    Deps <- JoinDeps
    ExplicitChunks = {b, c}
    RetainedChunks = {b}
    StartPhases = {"COMPLETE"}
    Verdicts = {}
    OperatorRequests = {"answer", "retry"}
    PatchStatuses = {}
    MaxAgents = 2
    MaxIterations = 1
    MaxNudges = 1
    MaxApiRetries = 1
    MaxCompletionRetries = 0
    MaxMergeRetries = 0
    MaxRequests = 1
    MaxCrashes = 0
    MaxSessionLimits = 0
INVARIANTS
    SlotBound
    BlockedIsWaiting
PROPERTIES
    DependenciesFirst
    DependentsReleased
