SPECIFICATION Spec
CONSTANTS a1 = a1 a2 = a2 nobody = nobody
    Updates = {a1, a2, "r1", "r2"} Repairs = {"r1", "r2"} SyncMayFail = FALSE
SYMMETRY Symmetry
INVARIANTS CentralSafe BrokerSafe
PROPERTIES GrantsAreFinal ImplementsInvocationLog ImplementsAtomicStore
CHECK_DEADLOCK FALSE
