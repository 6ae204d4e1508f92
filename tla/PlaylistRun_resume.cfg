CONSTANTS
    e1 = e1
    e2 = e2
    e3 = e3
    e4 = e4
    None = None
    Episodes = {e1, e2, e3, e4}
    Titles = {e1, e2, e3, e4}
    Title <- OwnTitle
    Audios = {sub}
    Filtered = {e4}
    Doubtful = {e1}
    BigCovers = {}
    UseArchive = TRUE
    KeepPartials = FALSE
    MaxFaults = 4
    MaxStops = 2
    MaxMoves = 1
SPECIFICATION FairSpec
INVARIANTS TypeOK CountedIsSaved Accounted
PROPERTIES ArchiveSound EventuallyComplete
