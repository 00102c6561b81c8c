SPECIFICATION Spec
CONSTANTS
    MaxItems = 1
INVARIANTS OnlyVtErrors
CHECK_DEADLOCK FALSE
