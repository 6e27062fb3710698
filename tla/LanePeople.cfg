SPECIFICATION Spec
CONSTANTS
    A = A
    B = B
    Operator = Operator
    NoSha = NoSha
    Task <- Tasks
    Reviewed <- NoTask
    AllowPush = FALSE
    MaxAttempts = 1
    MaxReviews = 0
    MaxCrashes = 1
    MaxLapses = 1
    MaxOutside = 1
CHECK_DEADLOCK FALSE
SYMMETRY Swap
PROPERTY NoForeignRelease
