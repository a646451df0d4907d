CONSTANTS
    k1 = k1
    k2 = k2
    a = a
    b = b
    Keys = {k1}
    Words = {a, b}
    Raw = Raw
    None = None
    MaxInt = 3
    TicksPerMs = 2
    MsPerSec = 2
    Requests <- LifetimeCommands
    Start <- MCStart
    MaxNow = 22
    MaxLen = 2
SPECIFICATION Spec
INVARIANTS
    TagSound
    DecodeNeverFails
    GhostsAreInvisible
    LifetimeErosion
    ReadersAgree
PROPERTIES
    NoResurrection
    TypesOutlivedByExpire
