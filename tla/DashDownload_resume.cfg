CONSTANTS
    v1 = v1
    v2 = v2
    v3 = v3
    Versions = {v1, v2, v3}
    Strong = {v1, v2}
    WithInit = {v1, v2, v3}
    Manifest <- SharedManifest
    Size <- SizeTwo
    Segments = 2
    Conns = 2
    Batch = 2
    MaxChanges = 1
    MaxFaults = 2
SPECIFICATION FairSpec
INVARIANTS TypeOK DeliveredExact
PROPERTIES EventuallyDelivered
