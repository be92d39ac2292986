SPECIFICATION Spec
CONSTANTS
    Paths = {p}
    Hashes = {a, b}
    Workers = {w}
    Runners = {r}
    MaxAttempts = 2
    MaxJobs = 2
    MaxClaims = 2
    MaxUpsets = 2
CHECK_DEADLOCK FALSE
INVARIANTS
    NoDeadKey
