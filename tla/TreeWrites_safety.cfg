CONSTANTS
    n1 = n1  n2 = n2  n3 = n3  r1 = r1  r2 = r2
    Root = Root
    None = None
    Nodes <- ThreeNodes
    Requests <- TwoRequests
    MaxDepth = 3
SPECIFICATION Spec
SYMMETRY Interchangeable
INVARIANTS TypeOK Acyclic ButtonsAreLeaves
PROPERTY ImplementsForest
