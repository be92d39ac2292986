SPECIFICATION TheSpec
CONSTANTS
    Threads = {t1, t2}
    Admins = {a1}
    Keys = {k1, k2}
    Gens = {g1, g2, g3}
    Nobody = Nobody
    MaxResets = 2
    MaxFailures = 1
    Processes = {p1, p2}
    Window = 4
    LockWait = 1
    Requests = 2
    Tokens = 3
    Sizes = {1, 2}
    MaxTime = 9
    MaxAdmitted = 4
    Pages = {1, 2}
    Texts = {a, b}
    Gone = Gone
    Models = {m1, m2}
    None = None
    Limit = 1
    BatchItems = 2
    MaxEdits = 1
    MaxUpsets = 1
    Callers = {c1, c2}
    Queries = {q1, q2}
    Capacity = 1
    CacheSize = 1
    MaxFlights = 3
    MaxCancels = 1
CHECK_DEADLOCK FALSE
INVARIANTS ClientsAreSound TablesAreTrue
PROPERTIES ShutdownDrains VectorsSettle
