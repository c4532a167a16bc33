SPECIFICATION Spec
CONSTANTS
    None = None
    Teams = {T}
    Channels = {C}
    Bindings = {b1}
    Requests = {r1}
    Events = {e1}
    OpIds = {}
    MaxClock = 1
    MaxVersion = 2
    MaxSessions = 0
    MaxPages = 1
    MaxDeliveries = 2
    MaxOperations = 0
    TxLife = 1
    CallLife = 1
    GrantLife = 1
    SessionLife = 1
    RetryWindow = 2
    Retention = 2
PROPERTIES
    RevocationFencesDelayedCallback
