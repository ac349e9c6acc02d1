SPECIFICATION FairSpec
CONSTANTS
    Definitions = {d1}
    NoDefinition = none
    Binaries = {b1, b2}
    NoBinary = nil
    Requests = {u1}
    Runs = {r1, r2}
    NoRun = nobody
    Faults = {"oltp"}
CHECK_DEADLOCK FALSE
PROPERTIES LoadEnds
