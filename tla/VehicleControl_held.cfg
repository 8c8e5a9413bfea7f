SPECIFICATION PressSpec
CONSTANTS
    s1 = s1
    s2 = s2
    NoEffort = NoEffort
    NoInput = NoInput
    Sticks <- MCSticks
    Inputs <- AllInputs
    MaxQueue = 1
    MaxInterference = 0
    MaxLosses = 0
    Faults = {}
PROPERTY OnlyPressRequests
