SPECIFICATION Spec
CONSTANTS
    Subjects = {s1}
    Roles = {r1, r2}
    NoRole = none
    Procedures = {p1}
    Requests = {q1, q2}
    Timeout = 3
    Threshold = 1
    MaxTime = 5
SYMMETRY Symmetry
CHECK_DEADLOCK FALSE
INVARIANTS StalePolicyEnds StaleRequestEnds
PROPERTIES DenialsAreCurrent
