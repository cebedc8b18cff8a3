CONSTANTS
    Tasks = {t1, t2, t3}
    Project = p
    NoTask = none
    Requests = {q1, q2}
    MaxDepth = 1
SPECIFICATION Spec
SYMMETRY Symmetry
INVARIANTS
    TypeOK
    NoShortCycle
    DeadProjectIsEmpty
    OnlyGrandchildrenOutlive
PROPERTIES
    OnlyEditsRevive
CHECK_DEADLOCK FALSE
