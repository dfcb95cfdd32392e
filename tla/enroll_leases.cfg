SPECIFICATION FairSpec
CONSTANTS
    Launches = {a, b}
    Scanners = {p}
    BatchSize = 2
    MaxClock = 3
    Boundary = 2
    MaxDelay = 0
    MaxAge = 1
    Deadline = 0
    LeaseTime = 1
    RetryAfter = 1
    None = none
INVARIANTS EnrolledInWindow
PROPERTIES LeasesComeBack
