SPECIFICATION Spec
SYMMETRY ServingSymmetry
CONSTANTS
    b1 = b1
    b2 = b2
    c1 = c1
    c2 = c2
    r1 = r1
    r2 = r2
    e1 = e1
    e2 = e2
    None = None
    Teams = {T}
    Channels = {C}
    Bindings = {b}
    Requests = {r1, r2}
    Events = {e1, e2}
    OpIds = {o}
    MaxClock = 1
    MaxVersion = 2
    MaxSessions = 1
    MaxPages = 1
    MaxDeliveries = 2
    MaxOperations = 1
    TxLife = 1
    CallLife = 1
    GrantLife = 1
    SessionLife = 1
    RetryWindow = 2
    Retention = 2
INVARIANTS
    TypeOK
    RecordedRevocationFences
    PostedAtMostOnce
    MentionsReachTheirConsent
PROPERTIES
    RefreshTokenUsedOnce
    OutcomesAreFinal
