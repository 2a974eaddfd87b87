SPECIFICATION Spec
CONSTANTS
    Vaults = {1, 2}
    Older = {}
    Keys = {1, 2}
    Leaving = {1}
    Restarting = {1}
    MaxEdits = 2
    MaxRemovals = 1
    MaxLog = 8
INVARIANTS TextIsMap NothingVanishes
CHECK_DEADLOCK FALSE
