CONSTANTS
    Sockets = {s1, s2, s3}
    Workers = {w1, w2}
    MaxCrashes = 1
    MaxWire = 3
SPECIFICATION FairSpec
INVARIANTS TypeOK StickyUnlessOvertaken NoGhost
PROPERTIES GoneIsForgotten
