CONSTANTS
    t1 = t1  w1 = w1  w2 = w2  r1 = r1  r2 = r2
    None = None
    Tasks <- OneTask
    Workers <- OneWorker
    Runs <- TwoRuns
    Ticks <- EveryOther
    Timeouts <- Limited
    Grace = 1
    Slack = 1
    QueueLimit = 1
    DefaultStale = 1
    ManualCap = 1
    MaxTime = 2
    LastStart = 2
    MaxLogs = 2
    Faults = FALSE
SPECIFICATION Spec
SYMMETRY Interchangeable
CHECK_DEADLOCK FALSE
INVARIANT RunningRowsAreRunning
