SPECIFICATION FairSpec
CONSTANTS
    Networks = {n1, n2}
    Linkage = linkage
    Cap = 2
    QueueSize = 8
    Burst = 2
    MaxChanges = 2
INVARIANTS NoEndlessWait SubscriptionsFollow
PROPERTIES HearsTheHubs
