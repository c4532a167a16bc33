\* Two destinations on one channel, two handlers, one lifecycle event.
SPECIFICATION Spec
SYMMETRY ConsentSymmetry
CONSTANTS
    b1 = b1
    b2 = b2
    c1 = c1
    c2 = c2
    r1 = r1
    r2 = r2
    e1 = e1
    e2 = e2
    None = None
    Teams = {T}
    Channels = {c1, c2}
    Bindings = {b1, b2}
    Requests = {r1, r2}
    Events = {e}
    OpIds = {}
    MaxClock = 1
    MaxVersion = 2
    MaxSessions = 0
    MaxPages = 1
    MaxDeliveries = 2
    MaxOperations = 1
    TxLife = 1
    CallLife = 1
    GrantLife = 1
    SessionLife = 1
    RetryWindow = 2
    Retention = 2
INVARIANTS
    OneGrantOwner
    OneLiveBindingPerChannel
    LiveBindingHasGrant
    ConsentExchangedOnce
