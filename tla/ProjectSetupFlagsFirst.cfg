SPECIFICATION Spec
CONSTANTS
    Text <- MCText
    Unset = Unset
    Atoi <- MCAtoi
    True = {"true"}
    Empty = ""
    Second = 1
    Minute = 3
    Half = 256
    Dir = {"top", "sub"}
    Path <- MCPath
    Name = {"App", "app", "new"}
    Slug <- MCSlug
    Base <- MCBase
    Job <- MCJob
    Body <- MCBody
    Proc = {p1, p2}
    Call = {c1, c2}
    First <- MCFirst
    FirstName = "app"
    FirstTable <- MCFirstTable
    None = None
    MaxLaunches = 3
    MaxPosts = 2
    MaxFaults = 1
    MaxRemovals = 1
SYMMETRY MCSymmetry
PROPERTY
    FlagsComeFirst
CHECK_DEADLOCK FALSE
