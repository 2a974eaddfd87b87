SPECIFICATION Spec
CONSTANTS
    Vaults = {1, 2}
    x = x
    y = y
    Paths = {x, y}
    Unsteady = {2}
    NewNames = {x}
    Renames <- XtoY
    Large = {1}
    Oversized = {3}
    MaxBlobs = 2
    MaxEvents = 3
INVARIANTS UnsharedKept Settled BlameIsFair
CHECK_DEADLOCK FALSE
