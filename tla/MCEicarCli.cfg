SPECIFICATION FairSpec
CONSTANTS
    MaxArgs = 6
    MaxVersions = 3
INVARIANTS TypeOK ExitCodesMean PrintedIsUploaded SuccessIsReported
PROPERTIES Exits
CHECK_DEADLOCK FALSE
