CONSTANTS
    v1 = v1
    v2 = v2
    v3 = v3
    Versions = {v1}
    Strong = {v1}
    WithInit = {v1}
    Manifest <- SharedManifest
    Size <- SizeTwo
    Segments = 2
    Conns = 1
    Batch = 2
    MaxChanges = 0
    MaxFaults = 1
SPECIFICATION FairSpec
INVARIANT DeliveredChosen
