SPECIFICATION FairSpec
CONSTANTS
    a = a
    b = b
    c = c
    Chunks <- Alone
    Deps <- NoDeps
    ExplicitChunks = {}
    RetainedChunks = {}
    StartPhases = {"GOAL", "PLAN"}
    Verdicts = {}
    OperatorRequests = {"answer", "retry"}
    PatchStatuses = {}
    MaxAgents = 1
    MaxIterations = 2
    MaxNudges = 2
    MaxApiRetries = 1
    MaxCompletionRetries = 1
    MaxMergeRetries = 1
    MaxRequests = 1
    MaxCrashes = 1
    MaxSessionLimits = 1
INVARIANTS
    PromptsFitPhase
    DoneIsMerged
    RunningHasAgent
PROPERTIES
    LifecycleSpec
    UnitsSettle
