SPECIFICATION FairSpec
CONSTANTS
    s1 = s1
    s2 = s2
    NoEffort = NoEffort
    NoInput = NoInput
    Sticks <- MCSticks
    Inputs <- PressInputs
    MaxQueue = 1
    MaxInterference = 0
    MaxLosses = 0
    Faults = {"vehicleDies"}
PROPERTY MissedHeartbeat
