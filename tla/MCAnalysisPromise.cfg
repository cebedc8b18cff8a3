CONSTANTS
    Stages <- AllStages
    Runs = {r1, r2}
    Retriers = {c1, c2}
    Deep = FALSE
    AllowReEnrich = FALSE
    Faults = {"crash", "failure_write", "delete_abort"}
SPECIFICATION Spec
SYMMETRY Symmetry
PROPERTIES
    KeepsPromise
