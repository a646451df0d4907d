CONSTANTS
    n1 = n1
    n2 = n2
    n3 = n3
    k1 = k1
    a = a
    b = b
    Nodes = {n1, n2, n3}
    Keys = {k1}
    Words = {a, b}
    Raw = Raw
    None = None
    MaxInt = 3
    TicksPerMs = 2
    MsPerSec = 2
    Requests <- OrderCommands
    Start <- MCStart
    MaxNow = 12
    MaxLog = 3
    MaxCrashes = 0
    MaxElections = 2
    TrailingLogs = 9
SYMMETRY NodeSymmetry
SPECIFICATION Spec
CHECK_DEADLOCK FALSE
INVARIANTS
    PrefixConsistency
    WritesAreLinearizable
    FollowersExpireLate
