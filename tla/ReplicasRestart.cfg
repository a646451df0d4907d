CONSTANTS
    n1 = n1
    n2 = n2
    n3 = n3
    k1 = k1
    a = a
    b = b
    Nodes = {n1, n2, n3}
    Keys = {k1}
    Words = {a, b}
    Raw = Raw
    None = None
    MaxInt = 3
    TicksPerMs = 2
    MsPerSec = 2
    Requests <- CounterCommands
    Start <- MCStart
    MaxNow = 8
    MaxLog = 2
    MaxCrashes = 1
    MaxElections = 1
    TrailingLogs = 9
SPECIFICATION Spec
CHECK_DEADLOCK FALSE
INVARIANT
    ReplayConverges
