CONSTANTS
    a1 = a1  a2 = a2  a3 = a3 
    u1 = u1  c1 = c1
    None = None  Address = Address
    Attempts <- ThreeAttempts
    Accounts <- OneAccount
    Captchas <- OneCaptcha
    CaptchaThreshold = 1
    LockThreshold = 2
    IpLimit = 2
    InFlight = 2
    Faults = 1
SPECIFICATION Spec
SYMMETRY NameSymmetry
CHECK_DEADLOCK FALSE
INVARIANTS PasswordsAreGuarded EveryAttemptIsLogged BlocksEnd
