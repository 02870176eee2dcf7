SPECIFICATION Spec
CONSTANTS
    Compactor = {c1, c2}
    Keep = {1, 2}
    Second = {0, 1, 2}
    MaxBlocks = 5
    MaxCompacts = 3
INVARIANTS
    NothingLost
    LatestAreRead
    Consistent
PROPERTY
    KeepsWhatWasAsked
CHECK_DEADLOCK FALSE
