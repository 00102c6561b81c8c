SPECIFICATION Spec
CONSTANTS
    MaxItems = 3
INVARIANTS TypeOK Paced InvalidSendsNothing BatchIsPrefix AtMostOnce ReturnMeansDone ExceptionNamesCause ScanOnlyWhenMissing
CHECK_DEADLOCK FALSE
