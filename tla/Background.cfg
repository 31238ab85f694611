SPECIFICATION BackgroundSpec
CONSTANTS
    None = None
    Template = {t1, t2}
    Tab = {b1}
    Script = {s1}
    Keep = {{"pages"}}
    LoadsAtOnce = TRUE
    PromptSaves = TRUE
    MaxReads = 1
    MaxMishaps = 1
    Submission = {s1, s2}
    Client = {c1, c2}
    Contents <- MCContents
    Modes = {"crops", "pages"}
    Apart = TRUE
    MaxUploads = 2
    MaxCrashes = 1
    Bot = {b1}
    Chat = {c1, c2}
    Group = {g1, g2}
    FirstUpdate <- MCFirst
    RowIdsReused = FALSE
    GROUPS_PER_TICK = 1
    MAX_ATTEMPTS = 2
    MaxMessages = 2
    MaxPresses = 2
    MaxDays = 2
    MaxUnlinks = 1
    MaxLost = 1
    REFLECT_WINDOW = 4
    Slack = 2
    REFLECT_LOOKBACK = 7
    AskedLookbacks = {7}
    MaxWait = 1
    MaxCorrections = 2
    MaxAsked = 1
    Provider = {p1}
    Limits = {0, 1, 2}
    Window = 4
    MaxCalls = 3
    MaxReplaced = 1
INVARIANTS
    BackgroundTypeOK
    TypesAgree
    FilesFollowRows
    ToldAsOwed
PROPERTIES
    ReadingsArrive
    PagesGo
    NobodyWaits
    ReflectsOnAll
    CallsAreRationed
CHECK_DEADLOCK FALSE
