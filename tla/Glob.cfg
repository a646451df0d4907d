CONSTANTS
    Bytes <- MCBytes
    Items <- MCItems
    Tails <- MCTails
    Databases <- MCDatabases
    MaxItems = 4
SPECIFICATION Spec
INVARIANTS
    KeysAreExact
    RefusedWhenReached
