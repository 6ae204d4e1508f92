CONSTANTS
    v1 = v1
    v2 = v2
    Versions = {v1, v2}
    Len <- OtherLen
    Strong = {v1, v2}
    Offers <- BothOffers
    Parallel = TRUE
    MaxChanges = 2
    MaxFaults = 3
SPECIFICATION FairSpec
INVARIANTS TypeOK SidecarDescribesPart DeliveredExact
PROPERTIES ExactSpec EventuallyDelivered
