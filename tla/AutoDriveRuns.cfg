SPECIFICATION FairSpec
CONSTANTS
    A = A
    B = B
    p1 = p1
    p2 = p2
    p3 = p3
    Row = {A}
    Pid = {p1, p2}
    None = None
    MaxParallel = 1
    MaxFaults = 1
    MaxReturns = 1
CHECK_DEADLOCK FALSE
INVARIANT TypeOK
INVARIANT OneDrivePerRow
PROPERTY ResumedIsDriven
PROPERTY WorkIsTakenUp
