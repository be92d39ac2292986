SPECIFICATION SchemaFairSpec
CONSTANTS
    Processes = {p1, p2}
    MaxFaults = 0
    MaxBypasses = 1
    MaxStops = 0
    Nobody = Nobody
PROPERTY GapsAreFilled
CHECK_DEADLOCK FALSE
