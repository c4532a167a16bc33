SPECIFICATION Spec
CONSTANT nobody = nobody
PROPERTY CallsEnd
CHECK_DEADLOCK FALSE
