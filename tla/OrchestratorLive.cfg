SPECIFICATION FairSpec
CONSTANTS
    Personas <- AlphaBeta
    InitialTargets <- AlphaBeta
    MaxParallelism = 2
    QueueCap = 1
    Outcomes <- LiveOutcomes
    EditStatuses = {"draft"}
    MaxFeatures = 3
    MaxRuns = 3
    Budget <- LiveBudget
PROPERTIES
    Dispatched
    ClaimResolved
    StopTerminates
