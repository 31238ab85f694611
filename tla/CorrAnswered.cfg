SPECIFICATION FairCorrSpec
CONSTANTS
    None = None
    Submission = {s1}
    Key = {}
    Worker = {w1}
    MaxJobs = 1
    MaxAttempts = 2
    MaxStarts = 3
    MaxFaults = 0
    Overlap = FALSE
    PromptStamp = TRUE
    Client = {c1}
    Part = {p1}
    Mark <- MCMark
    FirstMax = 2
    SchemeMax <- MCOneMax
    KeepPhotos = FALSE
    SerialDecisions = TRUE
PROPERTIES
    SentIsAnswered
CHECK_DEADLOCK FALSE
