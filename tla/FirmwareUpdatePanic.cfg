SPECIFICATION Spec
CONSTANTS
    Hubs = {h1, h2}
    Cap = 2
    MaxUpdates = 1
INVARIANTS IndexInBounds
CHECK_DEADLOCK FALSE
