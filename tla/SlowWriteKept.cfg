SPECIFICATION Spec
CONSTANTS
    c1 = c1
    c2 = c2
    c3 = c3
    same = same
    other = other
    NoCall = NoCall
    Calls = {c1, c2}
    Keys = {same}
    KeyOf <- TwoRepeats
    ToolOf <- OnlyChapters
    Base <- FromTheFirst
    TTL = 1
    MaxRun = 2
    MaxTime = 2
    MAX_CLAIM_ATTEMPTS = 2
    MaxPosition = 0
    MaxEditorSteps = 0
INVARIANTS
    EveryReservationExpires
CHECK_DEADLOCK FALSE
