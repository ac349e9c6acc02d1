SPECIFICATION Spec
CONSTANTS
    Challenges = {c1}
    NoChallenge = none
    Checks = {k1}
    Repeating = {}
    Clues = {h1}
    Runs = {r1, r2}
    Requests = {q1, q2}
    NoItem = nil
    Every <- SomeThrottled
    MaxCount = 2
    Faults = {"oltp"}
SYMMETRY Symmetry
CHECK_DEADLOCK FALSE
INVARIANTS Ledger OneShotLoggedOnce PaidOnce OnlyEarlyCluesAreFree
PROPERTIES AwardsAreLive
