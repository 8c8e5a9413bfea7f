SPECIFICATION FairSpec
CONSTANTS
    Main = Main
    Service = Service
    j1 = j1
    j2 = j2
    OpenJAUS <- MCOpenJAUS
    Free = Free
    MaxQueue = 4
INVARIANT TypeOK
INVARIANT NoLostWakeup
INVARIANT MadeBeforeUse
INVARIANT DanglingOnlyAtExit
PROPERTY ImplementsQueue
PROPERTY StopReturns
CHECK_DEADLOCK FALSE
