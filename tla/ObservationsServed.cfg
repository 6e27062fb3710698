SPECIFICATION FairSpec
CONSTANTS
    o1 = o1
    o2 = o2
    Obs = {o1, o2}
    Ruling = {r1}
    None = None
    MaxTasks = 3
    MaxEvents = 2
CHECK_DEADLOCK FALSE
ACTION_CONSTRAINT TwoLinked
PROPERTY ReadyIsPromoted
PROPERTY ShippedIsResolved
