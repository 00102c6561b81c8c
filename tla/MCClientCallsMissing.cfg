SPECIFICATION Spec
CONSTANTS
    MaxItems = 1
INVARIANTS MissingIsNotFound
CHECK_DEADLOCK FALSE
