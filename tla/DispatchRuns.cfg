SPECIFICATION FairSpec
CONSTANTS
    d1 = d1
    d2 = d2
    Daemon = {d1, d2}
    Row = {A}
    Agent <- OneAgent
    Edge = {Entered, Again}
    A = A
    B = B
    Install = Install
    Migrate = Migrate
    Entered = Entered
    Again = Again
    Nothing = Nothing
    Subscribes <- TwoEdges
    MaxAttempts <- Twice
    MaxCrashes = 1
    MaxLimits = 1
    MaxGates = 1
CHECK_DEADLOCK FALSE
INVARIANT OneRunAtATime
INVARIANT RunsWithinPolicy
PROPERTY SettledStays
PROPERTY RetriesAreTaken
