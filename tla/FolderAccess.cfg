SPECIFICATION Spec
CONSTANTS
    ann = ann
    Guests = {ann}
    Seated = {}
    MaxLives = 2
    MaxFaults = 1
INVARIANTS MappedOpens
PROPERTIES KeyGoesToTheKnown EverybodyArrives
CHECK_DEADLOCK FALSE
