SPECIFICATION Spec
CONSTANTS
    Timeouts = {0, 3, 7}
    Intervals = {0, 3, 5}
    Pace = 4
    Transfer = 2
    Slack = 1
INVARIANTS TypeOK TimeOutIsDue NotMuchLate PollsApart PollsArriveApart
CHECK_DEADLOCK FALSE
