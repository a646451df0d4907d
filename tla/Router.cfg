CONSTANTS
    n1 = n1
    n2 = n2
    c1 = c1
    s1 = s1
    Nodes = {n1, n2}
    Name <- Names
    Shard <- OwnShard
    Cmds = {c1}
    Slot <- OneSlot
    None = None
    MaxTries = 2
    MaxHops = 2
    MaxMoves = 3
    MaxStops = 1
SPECIFICATION Spec
CHECK_DEADLOCK FALSE
INVARIANTS
    TypeOK
    AckedWasExecuted
    OnceUnlessRetried
PROPERTY
    EveryCommandIsAnswered
