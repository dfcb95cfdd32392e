SPECIFICATION Spec
CONSTANTS
    Launches = {a}
    Scanners = {p}
    BatchSize = 1
    MaxClock = 4
    Boundary = 2
    MaxDelay = 1
    MaxAge = 3
    Deadline = 2
    LeaseTime = 1
    RetryAfter = 1
    None = none
PROPERTIES ForwardOnly
