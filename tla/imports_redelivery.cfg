SPECIFICATION Spec
CONSTANTS
    i1 = i1
    i2 = i2
    k1 = k1
    k2 = k2
    Imports = {i1, i2}
    Keys = {k1, k2}
    Invalid = Invalid
    Unreadable = Unreadable
    ClientOf <- MCClientOf
    Registered = {k2}
    Uploads <- ClientsAndOperations
    BatchSize = 1
    MaxDeliveries = 2
    NoEntity = NoEntity
INVARIANTS
    CountsMatchRows
    RowMadeOnce
    NothingLost
    OperationsUnique
PROPERTIES
    SentEnds
CHECK_DEADLOCK FALSE
