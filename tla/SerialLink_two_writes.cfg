SPECIFICATION Spec
CONSTANTS
    Sends <- MCSends
    TxSize = 9
    BufSize = 3
    MaxFrames = 2
    MaxFaults = 0
    NoiseBytes <- MCNoiseBytes
INVARIANT OneWrite
CHECK_DEADLOCK FALSE
