SPECIFICATION TheSpec
CONSTANTS
    Pages = {1}
    Texts = {a, b}
    Writers = {w1, w2}
    Consumers = {c1, c2}
    MaxAttempts = 2
    MaxWrites = 3
    MaxUpsets = 2
    MaxViewWrites = 2
    ViewPages = {c1, c2}
    Vals = {a, b}
    Models = {m1, m2}
    None = None
    Exact = Exact
    Queries = {w1, w2}
    PageCount = 2
    Depth = 1
    Cap = 2
    PoolSize = 2
    Quotas = {0, 1}
    ExpandMax = 1
    Batch = 2
    TopK = 2
    Rooms = {1}
    MaxChanges = 1
    MaxFaults = 1
SYMMETRY OutboxSymmetry
CHECK_DEADLOCK FALSE
INVARIANTS
    OutboxIsSound
    ViewsAreSound
    RequestsAreSound
PROPERTIES
    PublishesOnlyCanon
