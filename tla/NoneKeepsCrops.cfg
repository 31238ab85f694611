SPECIFICATION FairLifeSpec
CONSTANTS
    None = None
    Submission = {s1}
    Key = {k1}
    Worker = {w1}
    Client = {c1}
    Part = {p1}
    MaxJobs = 1
    MaxAttempts = 2
    MaxStarts = 1
    MaxFaults = 0
    Overlap = FALSE
    PromptStamp = TRUE
    MaxRuns = 1
    Pipeline = "v2"
    Media <- MCPages
    Retention = "none"
    SerialRetry = TRUE
    RequestsDie = FALSE
    CliAllowed = FALSE
PROPERTIES
    NoneKeepsNothing
CHECK_DEADLOCK FALSE
