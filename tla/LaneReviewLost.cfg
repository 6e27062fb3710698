SPECIFICATION Spec
CONSTANTS
    A = A
    B = B
    Operator = Operator
    NoSha = NoSha
    Task <- Tasks
    Reviewed <- OnlyB
    AllowPush = TRUE
    MaxAttempts = 2
    MaxReviews = 1
    MaxCrashes = 0
    MaxLapses = 0
    MaxOutside = 0
CHECK_DEADLOCK FALSE
PROPERTY ReviewedWorkLandsReviewed
