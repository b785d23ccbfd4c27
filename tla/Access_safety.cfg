CONSTANTS
    r1 = r1  r2 = r2
    S = S  A = A  V = V  N = N
    ra = ra  rb = rb  rc = rc
    m1 = m1  m2 = m2  m3 = m3
    p1 = p1
    d1 = d1  d2 = d2  d3 = d3
    None = None
    Requests <- TwoRequests
    Users <- FourUsers
    Roles <- ThreeRoles
    Menus <- ThreeMenus
    Posts <- OnePost
    Depts <- ThreeDepts
    Below <- MCBelow
    Perm <- MCPerm
    Needs <- MCNeeds
    Databases <- MCDatabases
    Ops <- MCOps
SPECIFICATION Spec
SYMMETRY RequestSymmetry
CHECK_DEADLOCK FALSE
INVARIANTS AuthorityIsReal ManagementIsKept
PROPERTIES BindingsAreWhole NobodyGains

