SPECIFICATION Spec
CONSTANTS
    Request <- MCRequest
    None = "none"
    Slot = {s1, s2}
    Burst = 2
    Unit = 5
    Rate = 3
    Second = 1
    SweepEvery = 1
    StaleAfter = 2
    Watched <- MCWatched
    MaxNow = 3
SYMMETRY MCSymmetry
INVARIANTS
    WindowBound
    HeadersHonest
    Consistent
PROPERTY
    LimiterSpec
CHECK_DEADLOCK FALSE
