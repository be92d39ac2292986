SPECIFICATION TheSpec
CONSTANTS
    Paths = {p}
    Hashes = {a, b}
    Scans = {s1, s2}
    MaxAttempts = 2
    BatchSize = 1
    MaxUpsets = 2
    Files = {a, b}
    Batch = 1
    MaxEdits = 3
    MaxFaults = 1
    JobHashes = {a}
    Workers = {w1, w2}
    Runners = {r1}
    MaxJobs = 2
    MaxClaims = 2
    MaxMishaps = 1
    OneScan = s1
    OneHash = a
CHECK_DEADLOCK FALSE
INVARIANTS
    NothingForgotten
PROPERTIES
    EverySourceIsHandled
    MarkersAreReleased
    AbandonedStops
    EventsAreScanned
    JobsSettle
