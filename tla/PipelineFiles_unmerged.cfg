CONSTANTS
    NumStages = 5
    Fatal = {1, 2, 3}
    Refusing = {1, 3}
    SubtitleStage = 4
    ThumbnailStage = 5
    Plans <- Unconfigured
    Slow = FALSE
SPECIFICATION FairSpec
INVARIANTS DeliveredWhole

CHECK_DEADLOCK FALSE
