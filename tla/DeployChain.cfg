SPECIFICATION FairDeploySpec
CONSTANTS
    d1 = d1
    d2 = d2
    A = A
    B = B
    op = op
    Daemon = {d1}
    Row = {A, B}
    Operator = {op}
    Install = Install
    Migrate = Migrate
    Cleanup = Cleanup
    Agent <- TheAgents
    Enter = Enter
    Stay = Stay
    Edge = {Enter, Stay}
    Subscribes <- TheEdges
    Nothing = Nothing
    MaxAttempts <- Attempts
    MaxCrashes = 1
    MaxLimits = 0
    MaxGates = 0
    MaxTroubles = 1
CHECK_DEADLOCK FALSE
INVARIANT DeployTypeOK
INVARIANT BinaryHasLanded
PROPERTY NeverOlder
PROPERTY DeploysSettle
