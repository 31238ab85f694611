SPECIFICATION JobSpec
CONSTANTS
    Submission = {s1, s2}
    Key = {k1}
    Worker = {w1, w2}
    None = None
    MaxJobs = 2
    MaxAttempts = 2
    MaxStarts = 3
    MaxFaults = 1
    Overlap = FALSE
    PromptStamp = TRUE
SYMMETRY Symmetry
INVARIANTS
    JobTypeOK
    OneHolder
    StatusHasRow
PROPERTIES
    SettledStays
    LedgerSpec
CHECK_DEADLOCK FALSE
