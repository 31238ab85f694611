SPECIFICATION ClassSpec
CONSTANTS
    None = None
    Student = {s1, s2}
    Client = {c1, c2}
    Worker = {w1, w2}
    TeacherDoes = {"upload", "update", "delete", "remove", "release", "retry", "resolve", "regenerate"}
    SerialTeacher = TRUE
    PromptClaims = TRUE
    MaxHandIns = 2
    MaxMishaps = 1
SYMMETRY Symmetry
INVARIANTS
    ClassTypeOK
    OncePerDrain
    DrainHasReport
PROPERTIES
    FeedbackStays
CHECK_DEADLOCK FALSE
