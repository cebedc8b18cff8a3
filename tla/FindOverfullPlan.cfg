CONSTANTS
    Owner = o
    Users = {o, a, b}
    Roles = {"admin", "viewer"}
    Invites = {i1, i2}
    Requests = {q1, q2}
    MaxMembers = 2
SPECIFICATION Spec
INVARIANT MembersWithinPlan
CHECK_DEADLOCK FALSE
