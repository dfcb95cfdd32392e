SPECIFICATION Spec
CONSTANTS
    Launches = {a}
    Scanners = {p, q}
    BatchSize = 1
    MaxClock = 3
    Boundary = 2
    MaxDelay = 0
    MaxAge = 1
    Deadline = 1
    LeaseTime = 1
    RetryAfter = 1
    None = none
SYMMETRY ScannerSymmetry
INVARIANTS TypeOK OpenedOnTime QualifiedIsBacked
PROPERTIES TerminalIsFinal LeaseExcludes BreachIsFinal
