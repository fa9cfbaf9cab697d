SPECIFICATION FairSpec
CONSTANTS
    Hubs = {h1, h2}
    Cap = 2
    MaxUpdates = 2
INVARIANTS SilentHubIsTimed
PROPERTIES OutcomeCoversEveryHub WorkEnds
\* The process is over once it crashed.
CHECK_DEADLOCK FALSE
