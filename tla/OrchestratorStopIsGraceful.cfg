SPECIFICATION Spec
CONSTANTS
    Personas <- AlphaBeta
    InitialTargets <- OneFeature
    MaxParallelism = 2
    QueueCap = 1
    Outcomes <- SafetyOutcomes
    EditStatuses = {"draft", "done"}
    MaxFeatures = 2
    MaxRuns = 3
    Budget <- SafetyBudget
INVARIANT
    StopIsGraceful
