CONSTANTS
    Byte = 3
    Others <- Neighbours
    c1 = c1
    c2 = c2
    Candidates = {c1, c2}
    Nil = Nil
    Data = Data
    MaxIndex = 4
    MaxTerm = 2
    TrailingLogs = 1
    TxnLimit = 3
SYMMETRY CandidateSymmetry
SPECIFICATION Spec
CHECK_DEADLOCK FALSE
INVARIANTS
    TypeOK
    MemoryMatchesStore
    VotesOnce
PROPERTY
    ImplementsLogStore
