SPECIFICATION FairSpec
CONSTANTS
    Challenges = {c1}
    NoChallenge = none
    Checks = {k1, k2}
    Repeating = {k2}
    Clues = {}
    Runs = {r1}
    Requests = {}
    NoItem = nil
    Every <- SomeThrottled
    MaxCount = 2
    Faults = {"oltp"}
CHECK_DEADLOCK FALSE
PROPERTIES AwardComes
