SPECIFICATION MCSpec
CONSTANTS
    None = None
    StreamLimit = 1
    MaxWritten = 2
    Daemons = {d1, d2}
    Components <- MCComponents
    MaxFaults = 2
INVARIANTS
    NothingLeftRunning
    OneWorkerPerRole
PROPERTIES
    ProcessReturns
    DaemonEnds
CHECK_DEADLOCK FALSE
