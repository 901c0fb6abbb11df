SPECIFICATION MCSpec
CONSTANTS
    None = None
    NoKey = NoKey
    v1 = v1
    v2 = v2
    v3 = v3
    v4 = v4
    v5 = v5
    v6 = v6
    small = small
    Streams = {v1, v2}
    Keys = {v3, v4}
    Contents = {v5, v6}
    MaxBatch = 2
    MaxLedger = 4
    Runners = {v1, v2}
    MaxLog = 5
    Blobs <- MCBlobs
    Size <- MCSize
    Quota = 3
    Backups = {p1}
    Restores = {v1, v2}
    Retention = 1
    MaxBackups = 2
    Clock = {1, 2}
    Handlers = {v1, v2}
    ProjectIds = {v3, v4}
    Bodies = {v5, v6}
    IntentIds = {i1}
    PlanIds = {q1}
    RunIds = {r1}
    Callers = {u1}
    TextPaths = {1, 2}
    Texts = {"a", "b"}
    Modes = {"open", "private"}
    NewMode = "open"
    PathLimit = 2
INVARIANTS
    GapFree
    AnswerInLedger
    NoUnseenEvent
    ArtifactsDurable
    
    AdmissionSound
    ChangesAtomic
PROPERTIES
    CheckpointsExact
SYMMETRY MCSymmetry
CHECK_DEADLOCK FALSE
