CONSTANTS
    n1 = n1
    n2 = n2
    n3 = n3
    n4 = n4
    Nodes = {n1, n2, n3}
    Seed = n1
    ID <- OwnID
    Addr <- OwnAddr
    None = None
    MaxTries = 2
    MaxCrashes = 2
    MaxElections = 3
SPECIFICATION Spec
CHECK_DEADLOCK FALSE
INVARIANTS
    TypeOK
    AddedMeansCommitted
PROPERTIES
    MembersStay
    EventuallyServes
    LeaderAdmits
