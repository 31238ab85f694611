SPECIFICATION BankSpec
CONSTANTS
    None = None
    Template = {t1}
    Tab = {b1}
    Script = {}
    Keep = {{"none"}}
    LoadsAtOnce = TRUE
    PromptSaves = TRUE
    MaxReads = 1
    MaxMishaps = 0
INVARIANTS
    KeepsAsAsked
CHECK_DEADLOCK FALSE
