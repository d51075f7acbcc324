SPECIFICATION Spec
CONSTANTS
    r1 = r1
    r2 = r2
    r3 = r3
    first = first
    Requests = {r1, r2, r3, first}
    Issued = {first}
    Kinds = {"approve", "deny", "exchange", "refresh", "access", "revoke"}
    TxnTTL = 1
    CodeTTL = 1
    AccessTTL = 1
    RefreshTTL = 2
    MINT_ATTEMPTS = 3
    MaxTime = 2
    MaxRun = 1
SYMMETRY LaterRequest
INVARIANTS
    TypeOK
    OneGrantPerConsent
    OneHeir
    RevokedTogether
    MarkHolds
    CondemnedStayOut
PROPERTIES
    NoMintIntoMarked
CHECK_DEADLOCK FALSE
