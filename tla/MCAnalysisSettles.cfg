CONSTANTS
    Stages <- ChurnStages
    Runs = {r1, r2}
    Retriers = {c1}
    Deep = TRUE
    AllowReEnrich = FALSE
    Faults = {"checkpoint", "delete_abort"}
SPECIFICATION FairSpec
INVARIANTS
    CheckpointIsBehindRows
PROPERTIES
    QueuedSettles
