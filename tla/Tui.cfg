SPECIFICATION Spec
CONSTANTS
    Listing <- MCListing
    MaxLoads = 2
    MaxOpens = 2
    MaxChanges = 1
INVARIANTS
    CursorOnItem
    PaneShowsOpened
    ListsAreCurrent
    Consistent
CHECK_DEADLOCK FALSE
