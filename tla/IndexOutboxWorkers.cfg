SPECIFICATION Spec
CONSTANTS
    w1 = w1
    w2 = w2
    s1 = s1
    s2 = s2
    Workers = {w1, w2}
    Sources = {s1}
    Limit = 2
    DayLimit = 2
    Slow = FALSE
    MaxEvents = 2
    MaxFailures = 0
    MaxCrashes = 0
INVARIANTS
    LastResultSurvives
CHECK_DEADLOCK FALSE
