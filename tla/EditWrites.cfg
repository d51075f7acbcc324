SPECIFICATION Spec
CONSTANTS
    c1 = c1
    c2 = c2
    c3 = c3
    same = same
    other = other
    NoCall = NoCall
    Calls = {c1, c2, c3}
    Keys = {same, other}
    KeyOf <- TwoTheSame
    ToolOf <- EditsAndAStory
    Base <- BothFromTheFirst
    TTL = 1
    MaxRun = 9
    MaxTime = 1
    MAX_CLAIM_ATTEMPTS = 2
    MaxPosition = 2
    MaxEditorSteps = 1
SYMMETRY SameEdits
INVARIANTS
    NoLostUpdate
    OneEditPerRevision
    OnlyOverrunsStay
CHECK_DEADLOCK FALSE
