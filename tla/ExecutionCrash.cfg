SPECIFICATION Spec
CONSTANTS
    n1 = n1
    n2 = n2
    w1 = w1
    None = None
    Length = 2
    Runs = {r1}
    Clients = {c1}
    Nodes <- MCNodes
    DependsOn <- MCDependsOn
    Workers <- MCWorkers
    Writers <- MCWriters
    Worker = w1
    MaxFence = 3
    MaxSeq = 16
    MaxRetained = 1
    Expiry = TRUE
    Faults = TRUE
    Modes = {FALSE, TRUE}
    MaxCrashes = 2
INVARIANTS
    ProviderOnce
    WorkerHoldsLease
    LedgerMatchesDisk
    CycleTruthful
PROPERTIES
    ImplementsRunLifecycle
CHECK_DEADLOCK FALSE
