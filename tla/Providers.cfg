SPECIFICATION Spec
CONSTANTS a1 = a1 a2 = a2 a3 = a3 k1 = k1 k2 = k2 p1 = p1 p2 = p2 p3 = p3 nobody = nobody
INVARIANTS WritesSafe ListingsSafe RunnerSafe
PROPERTIES RefusedScopesAreFinal RepliesAreOwn
CHECK_DEADLOCK FALSE
