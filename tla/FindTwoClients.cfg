CONSTANTS
    Tokens = {t1, t2, t3}
    Other = other
    NoToken = none
    Clients = {axios, core}
    Page = page
    Nobody = nobody
    Refreshes = {r1, r2, r3}
    Calls = {c1, c2}
    MayReload = FALSE
    MaxTroubles = 1
SPECIFICATION Spec
INVARIANTS
    DedupKeepsSessions
CHECK_DEADLOCK FALSE
