SPECIFICATION Spec
CONSTANTS
    n1 = n1
    n2 = n2
    w1 = w1
    None = None
    Length = 1
    Runs = {r1, r2, r3}
    Clients = {}
    Nodes <- MCNodes
    DependsOn <- MCDependsOn
    Workers <- MCWorkers
    Writers <- MCWriters
    Worker = w1
    MaxFence = 2
    MaxSeq = 12
    MaxRetained = 1
    Expiry = FALSE
    Faults = TRUE
    Modes = {FALSE}
    MaxCrashes = 1
INVARIANTS
    RetentionBounded
CHECK_DEADLOCK FALSE
