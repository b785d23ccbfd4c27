CONSTANTS
    u1 = u1  u2 = u2  b1 = b1  r1 = r1  r2 = r2  r3 = r3
    None = None
    Users <- OneUser
    Buckets <- OneBucket
    BucketOf <- OneUserBucket
    Requests <- TwoRequests
    MaxTokens = 2
    MaxTime = 1
    IdleTTL = 1
    AbsTTL = 1
    MaxSessions = 1
SPECIFICATION FairSpec
CHECK_DEADLOCK FALSE
PROPERTY EveryRequestEnds
