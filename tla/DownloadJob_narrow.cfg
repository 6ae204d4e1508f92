CONSTANTS
    Capacity = 1
    MaxRetries = 2
    MaxSkips = 1
    MaxPanics = 1
    MaxEmits = 2
SPECIFICATION FairSpec
INVARIANTS TypeOK CancelledOnRequest
PROPERTIES Lifecycle OutcomeShown CancelEnds
