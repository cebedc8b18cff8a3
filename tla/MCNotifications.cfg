CONSTANTS
    Members = {ann, bob}
    Reporter = ann
    Assignee = bob
    Workers = {w1}
    MaxRetries = 1
    MaxFaults = 2
SPECIFICATION FairSpec
INVARIANTS TypeOK CopiesAreBounded
PROPERTIES LossNeedsTwoFaults
CHECK_DEADLOCK FALSE
