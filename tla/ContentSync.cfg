SPECIFICATION Spec
CONSTANTS
    StartLines = {s1}
    LocalLines = {l1}
    RemoteLines = {p1}
    None = None
    Writers = {w1}
    Readers = {r1}
    MaxConnects = 2
    MaxBinds = 1
    MaxEvents = 1
    MaxChanges = 2
    MaxWriteRetries = 1
    EarlySaves = FALSE
    PromptSave = TRUE
    OvertakenReads = FALSE
    Faults = {"write", "unplaced"}
    s1 = s1
    l1 = l1
    p1 = p1
    w1 = w1
    r1 = r1
INVARIANTS NoWritingLost NeverDoubled
PROPERTIES DocumentKeepsWriting
CHECK_DEADLOCK FALSE
