SPECIFICATION LifeSpec
CONSTANTS
    None = None
    Submission = {s1}
    Key = {k1}
    Worker = {w1}
    Client = {c1, c2}
    Part = {p1, p2}
    MaxJobs = 3
    MaxAttempts = 3
    MaxStarts = 1
    MaxFaults = 0
    Overlap = FALSE
    PromptStamp = FALSE
    MaxRuns = 2
    Pipeline = "v2"
    Media <- MCPagesAndFiles
    Retention = "crops"
    SerialRetry = TRUE
    RequestsDie = TRUE
    CliAllowed = FALSE
SYMMETRY Symmetry
INVARIANTS
    LifeTypeOK
    OutcomeHolds
    PendingKeepsMedia
PROPERTIES
    RetryRequeuesFailed
CHECK_DEADLOCK FALSE
