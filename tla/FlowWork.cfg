SPECIFICATION FairSpec
CONSTANTS
    NoDrive = NoDrive
    Drive = {d1}
    Tier = "T3"
    PlanReviewLimit = 2
    ReviseLimit = 2
    MaxPhases = 2
    MaxPlans = 5
    MaxExecutions = 8
    MaxCommits = 1
    MaxReviews = 0
    MaxFailures = 1
    MaxStalls = 1
    MaxResumes = 1
    MaxAmends = 0
CHECK_DEADLOCK FALSE
INVARIANT TypeOK
INVARIANT EveryPhasePassed
PROPERTY ComesToRest
