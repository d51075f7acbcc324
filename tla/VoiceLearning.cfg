SPECIFICATION Spec
CONSTANTS
    c1 = c1
    c2 = c2
    Calls = {c1, c2}
    MaxAttempts = 2
    MaxImages = 1
    Loads <- EachLoad
    Spacing = 0
    DayLength = 3
    MaxPerDay = 2
    MaxTime = 2
    MaxWriterSteps = 1
INVARIANTS
    PaidOnce
    LessonsRationed
PROPERTIES
    WriterPrevails
CHECK_DEADLOCK FALSE
