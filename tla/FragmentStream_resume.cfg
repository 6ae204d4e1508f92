CONSTANTS
    v1 = v1
    v2 = v2
    Versions = {v1, v2}
    Total = 2
    End <- TwoEnds
    Fingerprint <- OneList
    Strong = {v1}
    NumUrls = 2
    Concurrency = 2
    MaxChanges = 2
    MaxFaults = 2
    MaxLosses = 1
SPECIFICATION FairSpec
INVARIANTS TypeOK DeliveredWhole DeliveredExact ConfirmedIsKept
PROPERTIES EventuallyDelivered
