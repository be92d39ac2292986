SPECIFICATION TheSpec
CONSTANTS
    Processes = {p1, p2}
    MaxFaults = 1
    MaxBypasses = 1
    MaxStops = 2
    Nobody = Nobody
    Backers = {p1, p2}
    Units = {1, 2, 3, 4}
    KeepCount = 2
    MaxBad = 2
    NoBacker = Nobody
    Actors = {p1, p2}
    QueuePages = {"a", "b"}
    Keys <- TheKeys
    ItemIds = {"i1", "i2"}
    BatchId = "batch"
    None = None
    ClaimPages = {"p", "q"}
    Claims = {1, 2, 3}
    Owner <- TheOwner
    Slots = {"key"}
    Fact = "fact"
    Contents <- TheContents
    Nil = None
    Sources = {"s"}
    Targets = {"t"}
    Versions = {1, 2}
    Finalizers = {"f1", "f2"}
    MaxFinalUpsets = 2
    NoPage = None
    Planned = {1, 2}
    RawVersions = {1, 2}
    Scopes = {"a", "c"}
    RequestId <- TheRequests
    MaxAttempts = 2
    MaxRecompileUpsets = 2
    NoScope = None
    TimelineClaims = {1, 2}
    Wordings = {1, 2, 3}
    Rank <- TheRank
    Searchers = {"s1"}
    Keepers = {"k1"}
    MaxRewrites = 2
    NoClaim = None
    Memories = {1, 2}
    Texts = {1, 2}
    Operators = {"p1", "p2"}
    MaxArchiveUpsets = 3
    NoRow = None
    OldPage = old
    NewPage = new
    SourcePage = src
    OtherPages = {"other"}
    MaxWrites = 1
    NoText = None
INVARIANTS SchemaIsSound BackupsAreSafe RecordsAreSound SourcesAreSound PagesAreSound
PROPERTIES StoreStep
CHECK_DEADLOCK FALSE
