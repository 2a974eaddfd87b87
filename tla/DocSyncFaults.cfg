SPECIFICATION Spec
CONSTANTS
    LocalIns = {i1}
    LocalDel = {}
    PeerIns = {p1}
    PeerDel = {}
    Big = {i1}
    Persisted = TRUE
    Compaction = TRUE
    Faults = {"drop", "decrypt", "encryptFlush", "encryptSnapshot", "restart", "encryptDelta", "close"}
    MaxFaults = 2
    MaxNet = 2
    i1 = i1
    p1 = p1
    p2 = p2
INVARIANTS RecordedIsKept CheckpointSound HoldStaysVisible EditsAccounted
CHECK_DEADLOCK FALSE
