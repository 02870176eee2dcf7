SPECIFICATION Spec
CONSTANTS
    a = a
    b = b
    c = c
    Pid <- MCPid
    FeatureId = {1}
    MaxRuns = 2
    Budget <- MCBudget
SYMMETRY PidSymmetry
INVARIANTS
    OneDaemon
    FileNamesDaemon
    NoLiveRunReaped
    ClaimedOnce
    Consistent
PROPERTIES
    RefusedForADaemon
CHECK_DEADLOCK FALSE
