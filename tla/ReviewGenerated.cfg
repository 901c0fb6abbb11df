SPECIFICATION FairSpec
CONSTANTS
    r1 = r1
    r2 = r2
    a = a
    b = b
    c = c
    d = d
    e = e
    None = None
    Principals = {a, b, c, d, e}
    Queue <- Two
    Generated = {r1}
    Configs <- Steady
    Lease = 3
    MaxLatency = 2
    Faults = FALSE
    MaxTime = 2
    MaxCrashes = 0
PROPERTIES
    RunsReviewed
CHECK_DEADLOCK FALSE
