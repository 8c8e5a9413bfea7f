SPECIFICATION Spec
CONSTANTS
    Clients = {945, 1101}
    OwnPorts = {931}
    DefaultPort = 5683
    Mids = {1}
    Tokens <- MCTokens
    MarkerByte <- MCMarker
    Timeout = 1
    MaxLateness = 0
    MaxInTransit = 2
    ClientMessages <- MCClientMessages
    OwnMessages <- MCOwnMessages
    MaxBindFailures = 4
INVARIANT TypeOK
INVARIANT OneLifeline
INVARIANT SidesKeptApart
INVARIANT OnlyOwnEvaluated
INVARIANT ExitsExplained
INVARIANT LogsThin
PROPERTY EventuallyListens
CHECK_DEADLOCK FALSE
