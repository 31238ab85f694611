SPECIFICATION FairLifeSpec
CONSTANTS
    None = None
    Submission = {s1}
    Key = {k1}
    Worker = {w1}
    Client = {c1, c2}
    Part = {p1}
    MaxJobs = 2
    MaxAttempts = 2
    MaxStarts = 2
    MaxFaults = 0
    Overlap = FALSE
    PromptStamp = TRUE
    MaxRuns = 2
    Pipeline = "v2"
    Media <- MCPagesAndFiles
    Retention = "crops"
    SerialRetry = TRUE
    RequestsDie = FALSE
    CliAllowed = TRUE
PROPERTIES
    MarkingEnds
    SweepMakesGood
CHECK_DEADLOCK FALSE
