SPECIFICATION FairSpec
CONSTANTS
    LinkCap = 2
    Burst = 3
INVARIANT AgreedIsBelieved
PROPERTIES OutageIsBelieved OnlyCirclesKeepItAway
