CONSTANTS
    p1 = p1  p2 = p2  p3 = p3  k1 = k1  b1 = b1  b2 = b2
    Absent = Absent
    Requests <- ThreeRequests
    Keys <- OneKey
    Bodies <- TwoBodies
    StoreFaults = TRUE
    SlowHandlers = TRUE
    Crashes = TRUE
    Forgets = TRUE
SPECIFICATION LifecycleSpec
SYMMETRY Interchangeable
CHECK_DEADLOCK FALSE
INVARIANTS LifecycleTypeOK AnswersMatch LossNeedsRollback OrphansNeedFailure
