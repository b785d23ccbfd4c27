CONSTANTS
    s1 = s1  s2 = s2  e1 = e1  api = api  dir = dir  leaf = leaf
    None = None  Root = Root
    Seeds <- TwoSeeds
    Edits <- OneEdit
    Tasks <- AllTasks
    ProcessOf <- Process
    Names <- TwoNames
    MenuIds <- FourIds
    Keys <- TwoKeys
    Manifests <- Versions
    Starts <- Tables
    MaxEdits = 1
    MaxWipes = 1
SPECIFICATION Spec
SYMMETRY SeedSymmetry
CHECK_DEADLOCK FALSE
INVARIANTS NoCycles
