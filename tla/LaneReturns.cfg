SPECIFICATION FairSpec
CONSTANTS
    A = A
    B = B
    Operator = Operator
    NoSha = NoSha
    Task <- Tasks
    Reviewed <- NoTask
    AllowPush = FALSE
    MaxAttempts = 1
    MaxReviews = 0
    MaxCrashes = 1
    MaxLapses = 0
    MaxOutside = 0
CHECK_DEADLOCK FALSE
PROPERTY RunsReturn
