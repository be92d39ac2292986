SPECIFICATION Spec
CONSTANTS
    Paths = {p}
    Hashes = {a, b}
    Workers = {w}
    Runners = {r1, r2}
    MaxAttempts = 3
    MaxJobs = 2
    MaxClaims = 2
    MaxUpsets = 2
SYMMETRY JobSymmetry
CHECK_DEADLOCK FALSE
INVARIANTS
    TypeOK
    OneLiveJobPerContent
    SingleCommitter
    BudgetHolds
    AbandonedWasSpent
PROPERTIES
    ClaimsAreExclusive
    JobsEndInTheLedger
    HistoryStays
    ImplementsJobTable
