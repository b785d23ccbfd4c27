CONSTANTS
    u1 = u1  u2 = u2  b1 = b1  r1 = r1  r2 = r2  r3 = r3
    None = None
    Users <- OneUser
    Buckets <- OneBucket
    BucketOf <- OneUserBucket
    Requests <- TwoRequests
    MaxTokens = 3
    MaxTime = 2
    IdleTTL = 2
    AbsTTL = 3
    MaxSessions = 1
SPECIFICATION Spec
SYMMETRY RequestSymmetry
CHECK_DEADLOCK FALSE
INVARIANTS TypeOK OneLiveTokenPerFamily ClosedFamilyStaysClosed RotationChains AbsoluteDeadline
PROPERTIES CommitsEstablish RevocationIsFinal ImplementsSessions
