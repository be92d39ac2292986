SPECIFICATION PoolFairSpec
CONSTANTS
    Tasks = {a}
    Slots = {s}
    Limit = 1
    FailureLimit = 3
    RepairAttempts = 1
    MaxTries = 2
    MaxFaults = 0
CHECK_DEADLOCK FALSE
PROPERTIES
    SourcesConverge
