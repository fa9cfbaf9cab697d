SPECIFICATION FairSpec
CONSTANTS
    Networks = {n1}
    OldEpoch = 2
    MaxChanges = 3
    MaxMishaps = 1
CHECK_DEADLOCK FALSE
INVARIANTS ReuseHasCause RuntimeFollows ModeIsTold
PROPERTIES EpochsNeverFall EpochIsAnswered
