CONSTANTS
    k1 = k1
    k2 = k2
    a = a
    b = b
    Keys = {k1, k2}
    Words = {a, b}
    Raw = Raw
    None = None
    MaxInt = 3
    TicksPerMs = 2
    MsPerSec = 2
    Requests <- DataCommands
    Start <- MCStart
    MaxNow = 8
    MaxLen = 5
SPECIFICATION Spec
INVARIANTS
    TypeOK
    NonEmptyCollections
    CountsAreTruthful
    PopsConserve
    RangesTile
