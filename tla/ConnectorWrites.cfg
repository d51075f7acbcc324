SPECIFICATION FairSpec
CONSTANTS
    c1 = c1
    c2 = c2
    c3 = c3
    same = same
    other = other
    NoCall = NoCall
    Calls = {c1, c2, c3}
    Keys = {same}
    KeyOf <- AllTheSame
    ToolOf <- OnlyChapters
    Base <- FromTheFirst
    TTL = 1
    MaxRun = 0
    MaxTime = 2
    MAX_CLAIM_ATTEMPTS = 2
    MaxPosition = 0
    MaxEditorSteps = 0
INVARIANTS
    TypeOK
    OneWinner
    RepeatsReplay
    OneChapterPerCall
PROPERTIES
    CallsEnd
CHECK_DEADLOCK FALSE
