SPECIFICATION Spec
CONSTANTS
    Clients <- MCClients
    DefaultPort = 5683
    Mids = {1, 2}
    Tokens <- MCTokens
    ClientMessages <- MCMessages
    MarkerByte <- CRC8
    Timeout = 2
    MaxLateness = 1
    MaxInTransit = 2
INVARIANT TypeOK
INVARIANT ResponsesReachClient
INVARIANT TokensTellClientsApart
INVARIANT AstrayOnlyIfExplained
INVARIANT MappingsExpire
