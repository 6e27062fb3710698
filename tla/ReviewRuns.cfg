SPECIFICATION FairSpec
CONSTANTS
    t1 = t1
    d1 = d1
    op = op
    Task = {t1}
    Daemon = {d1}
    Person = {op}
    Cap = 1
    MaxReviews = 2
    MaxRevisions = 1
    MaxMain = 1
    MaxFailures = 1
    MaxManual = 1
CHECK_DEADLOCK FALSE
INVARIANT TypeOK
INVARIANT CapHolds
INVARIANT OneReviewer
PROPERTY AcceptedAsReviewed
PROPERTY RevisesWhatStands
PROPERTY TasksAreJudged
PROPERTY PendingIsDispatched
