SPECIFICATION TheSpec
CONSTANTS
    Keys = {1, 2}
    Texts = {a, b}
    BigTexts = {b}
    Workers = {w1}
    MaxRows = 1
    MaxAttempts = 2
    MaxWrites = 2
    MaxUpsets = 1
    Pages = {p, q}
    PageTexts = {a}
    Linking = {a}
    MaxIndexWrites = 1
    MaxIndexUpsets = 1
    Docs = {1, 2}
    Grams = {1, 2}
    DocTexts = {{1}, {1, 2}}
    Rebuilders = {scheduler, sweep}
    OneRebuilder = sweep
    Missing = Missing
    MaxDocWrites = 2
    MaxCrashes = 1
INVARIANTS IntentsCover ProjectionsAreSound
PROPERTIES AnswersAreCurrent ProjectionsSettle
CHECK_DEADLOCK FALSE
