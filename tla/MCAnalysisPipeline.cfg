CONSTANTS
    Stages <- EightStages
    Runs = {r1, r2, r3}
    Retriers = {c1, c2}
    Deep = TRUE
    AllowReEnrich = TRUE
    Faults = {"crash", "failure_write", "delete_abort"}
SPECIFICATION Spec
SYMMETRY Symmetry
INVARIANTS
    TypeOK
    AtMostOnePipeline
    FailedMeansIdle
    RevivedRunIsClean
    NoStageTwice
    CompletedIsWhole
    EnginesAgree
    ChurnFindsItsClone
