CONSTANTS
    v1 = v1
    v2 = v2
    Versions = {v1, v2}
    Chunks = 3
    Conns = 2
    Adaptive = TRUE
    ScanWindow = 4
    Scenarios <- AllScenarios
    MaxId = 3
SPECIFICATION FairSpec
INVARIANTS TypeOK DeliveredExact RecoversOneAttempt FailedFetchSwept RecoveryKeepsChunks
PROPERTIES EventuallyDelivered
