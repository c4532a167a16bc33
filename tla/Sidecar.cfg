SPECIFICATION Spec
CONSTANTS Calls = {a1, a2} Others = {b1, b2} ClosesInOrder = TRUE nobody = nobody
SYMMETRY Symmetry
INVARIANTS HumanSafe TabsSafe
CHECK_DEADLOCK FALSE
