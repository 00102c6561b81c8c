SPECIFICATION Spec
CONSTANTS
    MaxItems = 1
INVARIANTS ApiErrorIsNot2xx
CHECK_DEADLOCK FALSE
