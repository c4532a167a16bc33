\* Two processes, each able to try the path twice at a time, share one file.
SPECIFICATION Spec
CONSTANTS
    p1 = p1
    p2 = p2
    u1 = u1
    u2 = u2
    Processes = {p1, p2}
    Slots = {1, 2}
    Keys = {"old", "new"}
    Updates = {u1, u2}
    Invocations = {"i1"}
    Nobody = Nobody
    NoKey = NoKey
    NoUpdate = NoUpdate
SYMMETRY Symmetry
INVARIANTS
    TypeOK
    OneOwner
    AcknowledgedUpdatesSurvive
    ServedStateIsStored
    FileStaysWhole
PROPERTIES
    RecoveredBeforeServing
    ImplementsAtomicStore
