SPECIFICATION Spec
CONSTANTS
    Games = {g1}
    Teams = {t1}
    Challenges = {c1}
    Requests = {r1, r2, r3}
    MaxTime = 3
    NoId = noid
SYMMETRY Symmetry
CHECK_DEADLOCK FALSE
INVARIANTS OrphansOverlapped RunsEndWithGame RunsHaveGame RunsHaveChallenge
