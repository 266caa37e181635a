SPECIFICATION FairSpec
CONSTANTS
    Tasks = {t1, t2}
    NoTask = NoTask
    MaxItems = 2
    MaxClicks = 2
    MaxFailures = 1
    MaxRestarts = 1
INVARIANTS
    SentIsGone
PROPERTIES
    RestartNeverSends
    TasksFinish
    QueuedIsHandled
CHECK_DEADLOCK FALSE
