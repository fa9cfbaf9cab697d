SPECIFICATION FairSpec
CONSTANTS
    Cap = 2
    Burst = 3
INVARIANTS TypeOK ArmedWhileConnected NoCircularWait
PROPERTIES KeepsLinkPromise SilenceIsReported Reconnects
