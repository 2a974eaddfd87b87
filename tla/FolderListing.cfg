SPECIFICATION Spec
CONSTANTS
    Vaults = {1, 2}
    x = x
    y = y
    Paths = {x, y}
    QuietPaths = {y}
    Renames <- XtoY
    FirstRouted = {1}
    Leaving = {2}
    MaxChanges = 3
    MaxConnects = 2
    MaxExits = 1
INVARIANTS WantedIsHeld ListedIsOnDisk LastWishStands
CHECK_DEADLOCK FALSE
