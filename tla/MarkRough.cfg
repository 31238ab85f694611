SPECIFICATION LifeSpec
CONSTANTS
    None = None
    Submission = {s1}
    Key = {k1}
    Worker = {w1, w2}
    Client = {c1, c2}
    Part = {p1}
    MaxJobs = 2
    MaxAttempts = 2
    MaxStarts = 2
    MaxFaults = 1
    Overlap = TRUE
    PromptStamp = FALSE
    MaxRuns = 2
    Pipeline = "v1"
    Media <- MCPages
    Retention = "none"
    SerialRetry = FALSE
    RequestsDie = TRUE
    CliAllowed = FALSE
SYMMETRY Symmetry
INVARIANTS
    OneDecisionPerItem
CHECK_DEADLOCK FALSE
