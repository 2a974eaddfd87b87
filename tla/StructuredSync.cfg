SPECIFICATION Spec
CONSTANTS
    Vaults = {1, 2}
    Elsewhere = {2}
    Keys = {card, name}
    Stamp = stamp
    Viewing = {1}
    Unsteady = {1}
    Version <- AllFirst
    MaxEdits = 2
    MaxTroubles = 1
INVARIANTS  NothingVanishes
CHECK_DEADLOCK FALSE
SYMMETRY SameKeys
