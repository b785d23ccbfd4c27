CONSTANTS
    r1 = r1  r2 = r2  k1 = k1  k2 = k2
    None = None  Unset = Unset
    Requests <- TwoRequests
    Slots <- Nine
    Kind <- MCKind
    Keys <- TwoKeys
    Sort <- MCSort
    Created <- MCCreated
    Tables <- MCTables
    Ops <- MCOps
    ExportLimit = 1
    Faults = 1
SPECIFICATION Spec
SYMMETRY RequestSymmetry
CHECK_DEADLOCK FALSE
INVARIANTS RowsAreConsistent AuditIsTrue PagesCoverOnce
PROPERTIES RacesAnswerLikeChecks NothingIsHalfDone
