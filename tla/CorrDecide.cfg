SPECIFICATION OverlapSpec
CONSTANTS
    None = None
    Submission = {s1}
    Key = {k1}
    Worker = {w1, w2}
    MaxJobs = 2
    MaxAttempts = 2
    MaxStarts = 3
    MaxFaults = 1
    Overlap = TRUE
    PromptStamp = TRUE
    Client = {c1, c2}
    Part = {p1}
    Mark <- MCTwoMarks
    FirstMax = 2
    SchemeMax <- MCTwoMarks
    KeepPhotos = FALSE
    SerialDecisions = TRUE
SYMMETRY Symmetry
INVARIANTS
    CorrTypeOK
    CorrectionIsWhole
    AttemptsBounded
    KeyUnique
PROPERTIES
    DecisionsStay
    StudentNeverSeesBack
CHECK_DEADLOCK FALSE
