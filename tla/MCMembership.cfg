CONSTANTS
    Owner = o
    Users = {o, a, b}
    Roles = {"admin", "viewer"}
    Invites = {i1, i2}
    Requests = {q1, q2}
    MaxMembers = 3
SPECIFICATION Spec
SYMMETRY Symmetry
INVARIANTS
    TypeOK
    OneOwner
    NoCrossedLocks
PROPERTIES
    JoinsConsumeInvitation
    KeepsRegister
CHECK_DEADLOCK FALSE
