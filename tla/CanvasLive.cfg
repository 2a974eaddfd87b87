CONSTANTS
    Nodes = {card, note}
    Edges = {arrow}
    From <- AFrom
    To <- ATo
    Clients = {1, 2}
    Draggers = {1}
    Undoers = {1}
    MaxEdits = 3
SPECIFICATION Spec
INVARIANTS ShowsTheDocument DeletedAsSeen
PROPERTIES PeersStand
CHECK_DEADLOCK FALSE
