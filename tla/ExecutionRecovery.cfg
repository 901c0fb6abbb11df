SPECIFICATION FairSpec
CONSTANTS
    n1 = n1
    n2 = n2
    w1 = w1
    None = None
    Length = 2
    Runs = {r1}
    Clients = {c1}
    Nodes <- MCNodes
    DependsOn <- MCDependsOn
    Workers <- MCWorkers
    Writers <- MCWriters
    Worker = w1
    MaxFence = 4
    MaxSeq = 16
    MaxRetained = 1
    Expiry = TRUE
    Faults = FALSE
    Modes = {FALSE}
    MaxCrashes = 2
PROPERTIES
    SurvivorsEnd
    RunsFinish
CHECK_DEADLOCK FALSE
