SPECIFICATION GramSpec
CONSTANTS
    Docs = {1, 2}
    Grams = {1, 2}
    DocTexts = {{1}, {1, 2}}
    Rebuilders = {scheduler, sweep}
    Missing = Missing
    MaxDocWrites = 1
    MaxCrashes = 0
CHECK_DEADLOCK FALSE
INVARIANTS
    UsableIsExact
