CONSTANTS
    Required <- MCRequired
    MaxAttemptsSetting = 2
    Timeout = 2
    DemoDelay = 1
    Lateness = 1
SPECIFICATION Spec
INVARIANTS
    WithinDeadline
    OneCallAtATime
    OnlyTimeoutsAreRetried
    JudgedOnAnswersOnly
    GivenUpForCause
PROPERTIES
    KeepsCheckLoop
    ChecksEnd
CHECK_DEADLOCK FALSE
