CONSTANTS
    v1 = v1
    v2 = v2
    Versions = {v1, v2}
    Chunks = 3
    Conns = 2
    Adaptive = TRUE
    ScanWindow = 5
    Scenarios <- FailingRecovery
    MaxId = 4
SPECIFICATION Spec
INVARIANTS SidecarDescribesPart
