SPECIFICATION FairSpec
CONSTANTS
    LocalIns = {i1}
    LocalDel = {}
    PeerIns = {p1, p2}
    PeerDel = {}
    Big = {}
    Persisted = FALSE
    Compaction = FALSE
    Faults = {"close", "encryptDelta", "restart"}
    MaxFaults = 1
    MaxNet = 2
    i1 = i1
    p1 = p1
    p2 = p2
INVARIANT NoHole
PROPERTIES EventuallyRecorded EventuallyReceived KeepsPromise
CHECK_DEADLOCK FALSE
