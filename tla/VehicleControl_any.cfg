SPECIFICATION Spec
CONSTANTS
    s1 = s1
    s2 = s2
    NoEffort = NoEffort
    NoInput = NoInput
    Sticks <- MCSticks
    Inputs <- AllInputs
    MaxQueue = 1
    MaxInterference = 2
    MaxLosses = 1
    Faults = {"earlyReply", "vehicleDies", "revokes", "stop"}
INVARIANT TypeOK
INVARIANT EffortAuthorised
INVARIANT RetriesBounded
PROPERTY OnlyReportRevives
PROPERTY ImplementsHandover
CHECK_DEADLOCK FALSE
