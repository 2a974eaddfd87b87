SPECIFICATION Spec
CONSTANTS
    Panes = {pane1, pane2}
    Keys = {key1}
    None = None
    MaxMoves = 2
    MaxTroubles = 1
    pane1 = pane1
    pane2 = pane2
    key1 = key1
    key2 = key2
SYMMETRY Symmetric
INVARIANTS TypedStandsOnce
PROPERTIES PeerStays
CHECK_DEADLOCK FALSE
