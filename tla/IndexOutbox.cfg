SPECIFICATION FairSpec
CONSTANTS
    w1 = w1
    w2 = w2
    s1 = s1
    s2 = s2
    Workers = {w1}
    Sources = {s1, s2}
    Limit = 2
    DayLimit = 1
    Slow = FALSE
    MaxEvents = 3
    MaxFailures = 1
    MaxCrashes = 1
INVARIANTS
    TypeOK
    UnflaggedIsCurrent
    LastResultSurvives
PROPERTIES
    Drains
CHECK_DEADLOCK FALSE
