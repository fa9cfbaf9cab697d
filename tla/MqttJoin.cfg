SPECIFICATION Spec
CONSTANTS
    Networks = {n1}
    Linkage = linkage
    Cap = 2
    QueueSize = 8
    Burst = 2
    MaxChanges = 1
INVARIANTS HubsCanJoin
