SPECIFICATION FairSpec
CONSTANTS
    Networks = {n1}
    Hubs = {h1}
    MaxChanges = 3
    MaxRequests = 1
    MaxMishaps = 1
INVARIANTS NetworksAgree RepliesTellTheTable StoredHubsAreCounted
PROPERTY ChangesSettle
CHECK_DEADLOCK FALSE
