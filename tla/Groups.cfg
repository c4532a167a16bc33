SPECIFICATION Spec
CONSTANTS a1 = a1 a2 = a2 b1 = b1 b2 = b2 b3 = b3 nobody = nobody
SYMMETRY Symmetry
INVARIANT GroupsSafe
PROPERTY GroupsFinal
CHECK_DEADLOCK FALSE
