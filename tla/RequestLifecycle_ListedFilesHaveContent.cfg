CONSTANTS
    p1 = p1  p2 = p2  p3 = p3  k1 = k1  b1 = b1  b2 = b2
    Absent = Absent
    Requests <- ThreeRequests
    Keys <- OneKey
    Bodies <- OneBody
    StoreFaults = FALSE
    SlowHandlers = FALSE
    Crashes = FALSE
    Forgets = FALSE
SPECIFICATION LifecycleSpec
SYMMETRY Interchangeable
CHECK_DEADLOCK FALSE
INVARIANT ListedFilesHaveContent
