SPECIFICATION OfficeSpec
CONSTANTS
    None = None
    Norm <- MCNorm
    Label <- MCLabel
    Threshold = 1
    BUCKETS = 5
    Assignments <- MCAssignments
    DoubtSets <- MCDoubtSets
    MarkerOutputs <- MCMarkerOutputs
    ReviewerOutputs <- MCReviewerOutputs
    Provider = {p1, p2}
    Subject = {math}
    Template = {t1, t2}
    Client = {c1}
    Worker = {w1}
    Default = p1
    Picks <- MCPicks
    SubjectOf <- MCSubjectOf
    EnvPassword = FALSE
    MaxRestarts = 1
    BulkClient = {c1, c2}
    Dialog = {c2}
    FirstList <- MCFirstList
    Lists <- MCLists
    ClassZips <- MCClassZips
    Uploads <- MCUploads
    MAX_HAND_IN_PAGES = 2
    MAX_PAGES = 3
    MAX_FILES = 2
    MAX_FILE_BYTES = 2
    MAX_UPLOAD_BYTES = 9
    MAX_ZIP_DECOMPRESSED = 4
    MaxScripts = 3
    MaxRows = 3
    MaxRunning = 1
    Kinds = {"scheme"}
INVARIANTS
    OfficeTypeOK
    MarksAddUp
    DoubtReachesTeacher
    OneProvider
    ChoiceIsShown
    NoHandInLost
    ScriptsAreTheirs
PROPERTIES
    UpperNeverRises
CHECK_DEADLOCK FALSE
