SPECIFICATION MCSpec
CONSTANTS
    Clients = {1, 2}
    Editors = {2}
    Leavers = {1}
    Breakers = {1}
    MaxEdits = 2
    MaxFaults = 1
    near = near
    far = far
    Devices = {near, far}
    Places = {1, 2}
    Spots = {1}
    MaxLives = 2
    MaxMishaps = 1
    Kinds = {"note", "base", "board"}
    MaxActs <- MCActs
    MaxUnswept = 0
    MaxQueued <- MCQueued
    Watching = {near, far}
    Sharing = {near}
    Switching = {near}
    Closing = {near}
INVARIANTS WritingIsKept ShowsTheDrawing DeletesStand ShownIsSaid NoGhosts PresentAsOpen
PROPERTIES TruthArrives
CHECK_DEADLOCK FALSE
