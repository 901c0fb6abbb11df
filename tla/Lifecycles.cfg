SPECIFICATION MCSpec
CONSTANTS
    n1 = n1
    n2 = n2
    n3 = n3
    w1 = w1
    None = None
    Nodes <- MCNodes
    DependsOn <- MCDependsOn
    Workers <- MCWorkers
    MaxFence = 4
    MaxSeq = 13
    Principals = {p1, p2, p3}
    Snapshots = {s1, s2}
    MaxTime = 4
    MaxToken = 3
    GoalPaths = {"path"}
    GoalChecks = {"check"}
    MaxTasks = 3
INVARIANTS
    RunConsistent
    NoDeadEnd
    PlansSound
PROPERTIES
    TerminalFinal
    CancelStops
    ReviewMovesForward
    VerificationMovesForward
SYMMETRY MCSymmetry
CHECK_DEADLOCK FALSE
