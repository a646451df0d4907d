CONSTANTS
    n1 = n1
    n2 = n2
    n3 = n3
    n4 = n4
    Nodes = {n1, n2}
    Seed = n1
    ID <- DefaultID
    Addr <- OwnAddr
    None = None
    MaxTries = 2
    MaxCrashes = 0
    MaxElections = 2
SPECIFICATION Spec
CHECK_DEADLOCK FALSE
INVARIANT JoinedMeansMember
