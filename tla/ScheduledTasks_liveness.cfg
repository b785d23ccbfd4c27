CONSTANTS
    t1 = t1  w1 = w1  w2 = w2  r1 = r1  r2 = r2
    None = None
    Tasks <- OneTask
    Workers <- OneWorker
    Runs <- TwoRuns
    Ticks <- Once
    Timeouts <- Limited
    Grace = 0
    Slack = 1
    QueueLimit = 0
    DefaultStale = 1
    ManualCap = 1
    MaxTime = 2
    LastStart = 1
    MaxLogs = 2
    Faults = FALSE
SPECIFICATION FairSpec
CHECK_DEADLOCK FALSE
PROPERTIES EveryExecutionEnds ImplementsLedger
