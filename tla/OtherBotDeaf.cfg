SPECIFICATION OutboxSpec
CONSTANTS
    None = None
    Bot = {b1, b2}
    Chat = {c1, c2}
    Group = {g1}
    FirstUpdate <- MCFirst
    RowIdsReused = FALSE
    GROUPS_PER_TICK = 1
    MAX_ATTEMPTS = 2
    MaxMessages = 0
    MaxPresses = 2
    MaxDays = 0
    MaxUnlinks = 0
    MaxLost = 0
PROPERTIES
    PressLinks
CHECK_DEADLOCK FALSE
