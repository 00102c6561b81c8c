SPECIFICATION FairSpec
CONSTANTS
    NoCaller = NoCaller
    Callers = {c1, c2, c3}
    Interval = 3
    MaxTime = 8
    MaxCalls = 4
INVARIANTS TypeOK BurstFree PacingInv
PROPERTIES NoNeedlessSleep Paced Progress
CHECK_DEADLOCK FALSE
