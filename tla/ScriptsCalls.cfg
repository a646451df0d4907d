CONSTANTS
    c1 = c1
    c2 = c2
    a = a
    b = b
    Keys = {a, b}
    Words = {a, b}
    Raw = Raw
    None = None
    MaxInt = 15
    TicksPerMs = 2
    MsPerSec = 2
    Requests = {}
    Start <- MCStart
    MaxNow = 13
    MaxLen = 1
    EX = EX
    PX = PX
    EXAT = EXAT
    PXAT = PXAT
    NX = NX
    XX = XX
    GET = GET
    SYNC = SYNC
    Conns = {c1}
    Inputs <- ExpiryInputs
    Bodies = {}
    Stored = {}
    Idle = Idle
    MaxCount = 1
SPECIFICATION ServerSpec
CHECK_DEADLOCK FALSE
INVARIANT
    ScriptedCommandsAgree
