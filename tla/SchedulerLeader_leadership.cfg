CONSTANTS
    t1 = t1  w1 = w1  w2 = w2
    None = None  Off = Off  Invalid = Invalid
    Tasks <- OneTask
    Workers <- TwoWorkers
    Crons <- TwoCrons
    Grace = 1
    MaxTime = 2
    Budget = 4
SPECIFICATION FairSpec
CHECK_DEADLOCK FALSE
INVARIANTS Leadership
PROPERTIES NoInstantTwice LeadershipSettles
