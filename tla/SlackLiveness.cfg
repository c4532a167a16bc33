SPECIFICATION FairSpec
CONSTANTS
    None = None
    Teams = {T}
    Channels = {C}
    Bindings = {b1}
    Requests = {r1, r2}
    Events = {e1}
    OpIds = {o}
    MaxClock = 1
    MaxVersion = 2
    MaxSessions = 1
    MaxPages = 2
    MaxDeliveries = 2
    MaxOperations = 1
    TxLife = 1
    CallLife = 1
    GrantLife = 1
    SessionLife = 2
    RetryWindow = 2
    Retention = 2
PROPERTIES
    HandlersEnd
