CONSTANTS
    Turns = {c1, c2, c3, c4}
    NoTurn = none
    MaxActive = 2
    MaxRequests = 1
    MaxFaults = 1
SPECIFICATION Spec
SYMMETRY Symmetry
INVARIANTS
    TypeOK
    NeverOverstated
    HistoryIsWhole
CHECK_DEADLOCK FALSE
