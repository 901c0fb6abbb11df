SPECIFICATION FairSpec
CONSTANTS
    None = None
    p = p
    c = c
    GoalPaths = {p}
    GoalChecks = {c}
    MaxTasks = 4
    MaxAttempts = 2
    SameErrorLimit = 2
    Drafts <- OneDraft
    Budget = 4
    Usage = {1, 2}
    Reports = {TRUE, FALSE}
    Decisions = {TRUE, FALSE}
    Failures = {"logic-bug", "policy", "invalid-assumption", "contract-mismatch", "unclassified"}
    Progress = {1, 2}
    MaxCrashes = 1
PROPERTY SafelyResumed
CHECK_DEADLOCK FALSE
