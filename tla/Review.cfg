SPECIFICATION MCSpec
CONSTANTS
    r1 = r1
    r2 = r2
    a = a
    b = b
    c = c
    d = d
    e = e
    None = None
    Principals = {a, b, c, d, e}
    Queue <- Two
    Generated = {}
    Configs <- Changing
    Lease = 2
    MaxLatency = 1
    Faults = TRUE
    MaxTime = 3
    MaxCrashes = 1
    VerdictNodes = {"n", "m"}
    WriterNode = "n"
    f1 = f1
    FindingIds = {f1}
    Dimensions = {"grounding", "uncertainty"}
    NumChecks = 2
    MaxHarm = 1
    Policies <- MCPolicies
    Amounts = {0, 1}
INVARIANTS
    ReviewProviderOnce
    WorkersHoldLeases
    NoOrphans
    Independent
    VerdictSound
    ReplayFaithful
    GatewaySound
CHECK_DEADLOCK FALSE
