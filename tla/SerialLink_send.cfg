SPECIFICATION Spec
CONSTANTS
    Sends <- MCSends
    TxSize = 9
    BufSize = 3
    MaxFrames = 2
    MaxFaults = 1
    NoiseBytes <- MCNoiseBytes
INVARIANT TypeOK
INVARIANT WholeFramesDelivered
INVARIANT DeliveredInOrder
PROPERTY Flushes
CHECK_DEADLOCK FALSE
