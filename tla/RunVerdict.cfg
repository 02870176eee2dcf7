SPECIFICATION Spec
CONSTANTS
    Reply <- MCReply
    TopLevel <- MCTopLevel
INVARIANTS
    FailureIsNeverDone
    ReportBeatsText
    HoldsAreHonoured
CHECK_DEADLOCK FALSE
