SPECIFICATION ThreadFairSpec
CONSTANTS
    s1 = s1
    s2 = s2
    NoEffort = NoEffort
    NoInput = NoInput
    Sticks <- MCSticks
    Inputs <- DriveInputs
    MaxQueue = 2
    MaxInterference = 1
    MaxLosses = 0
    Faults = {"vehicleDies", "revokes", "stop"}
INVARIANT PendingExact
PROPERTY PressBeforeRequest
PROPERTY ResumeBeforeReady
PROPERTY StickReaches
PROPERTY ImplementsQueue
CHECK_DEADLOCK FALSE
