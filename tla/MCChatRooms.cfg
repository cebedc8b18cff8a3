CONSTANTS
    Users <- MCUsers
    Owner = 1
    Rooms = {d1, d2, d3}
    Requests = {q1, q2, q3}
SPECIFICATION Spec
SYMMETRY MCSymmetry
INVARIANTS TypeOK MemberCountIsRight SeatsFollowMembers OneDmUnlessBothLeft NoDmDeadlock
CHECK_DEADLOCK FALSE
