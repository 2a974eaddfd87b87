SPECIFICATION FairSpec
CONSTANTS
    Callers = {"pane", "expired", "connection", "release"}
    Procedure <- ByName
    Sids = {s1, s2}
    First = s1
    Beside = {"connection", "release"}
    MaxAsks = 3
    MaxLost = 1
    None = None
    s1 = s1
    s2 = s2
    s3 = s3
INVARIANTS FullTakesFull TokensCurrent
PROPERTIES ForcedOnlyWhenDead EndedIsNoticed
CHECK_DEADLOCK FALSE
