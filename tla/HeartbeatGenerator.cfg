SPECIFICATION FairSpec
CONSTANT Cap = 2
PROPERTY BeatsGoOn
CHECK_DEADLOCK FALSE
