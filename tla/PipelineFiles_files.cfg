CONSTANTS
    NumStages = 5
    Fatal = {1, 2, 3}
    Refusing = {1, 3}
    SubtitleStage = 4
    ThumbnailStage = 5
    Plans <- Configured
    Slow = FALSE
SPECIFICATION FairSpec
INVARIANTS TypeOK ReturnsClean ErrorSurfaced RefusedMediaSurvives DeliveredWhole
PROPERTIES PreservedStays Settles
CHECK_DEADLOCK FALSE
