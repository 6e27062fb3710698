SPECIFICATION Spec
CONSTANTS
    NoDrive = NoDrive
    Drive = {d1, d2}
    Tier = "T2"
    PlanReviewLimit = 1
    ReviseLimit = 2
    MaxPhases = 1
    MaxPlans = 2
    MaxExecutions = 2
    MaxCommits = 0
    MaxReviews = 1
    MaxFailures = 0
    MaxStalls = 0
    MaxResumes = 1
    MaxAmends = 1
CHECK_DEADLOCK FALSE
SYMMETRY Drives
INVARIANT ReviewHasTarget
INVARIANT ApprovedPlanRuns
PROPERTY ReviewsAreFinal
