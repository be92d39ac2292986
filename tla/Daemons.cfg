SPECIFICATION TheSpec
CONSTANTS
    Pages = {1}
    Texts = {a}
    BadTexts = {x}
    Writers = {w1, ed}
    Consumers = {d}
    Daemon = d
    Editor = ed
    MaxAttempts = 2
    MaxWrites = 1
    MaxEdits = 2
    MaxUpsets = 1
    Tasks = {t1, t2}
    Slots = {s1, s2}
    Limit = 2
    FailureLimit = 2
    RepairAttempts = 1
    MaxFaults = 2
    MaxTries = 2
    Services = {v1, v2}
    Runners = {c1, c2}
    None = None
    MaxHands = 1
    MaxKills = 2
CHECK_DEADLOCK FALSE
INVARIANTS
    CompletedOrEdited
    OneLastCall
    OwnersAreClear
PROPERTIES
    OnlyEditsUnlessUpset
    EditsSettle
    OnlyOwnerReopens
    ConsumerStaysThere
