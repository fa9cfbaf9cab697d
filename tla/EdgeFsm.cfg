SPECIFICATION FairSpec
CONSTANTS
    Hubs = {h1, h2}
    MaxAttempts = 1
    Cap = 2
    Burst = 2
INVARIANTS TypeOK Hierarchy NeverStuck SessionAgrees NoCircularWait
PROPERTIES KeepsLiveProtocol EveryoneEndsNormal
