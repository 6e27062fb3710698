SPECIFICATION Spec
CONSTANTS
    o1 = o1
    o2 = o2
    Obs = {o1}
    Ruling = {r1, r2}
    None = None
    MaxTasks = 3
    MaxEvents = 1
CHECK_DEADLOCK FALSE
INVARIANT FlagStaysUp
INVARIANT OnePromotion
PROPERTY RatifiedUnderReview
PROPERTY DecisionsStand
