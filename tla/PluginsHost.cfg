SPECIFICATION Spec
CONSTANTS
    Definitions = {d1}
    NoDefinition = none
    Binaries = {b1, b2}
    NoBinary = nil
    Requests = {u1, u2}
    Runs = {r1, r2}
    NoRun = nobody
    Faults = {}
SYMMETRY Symmetry
CHECK_DEADLOCK FALSE
INVARIANTS HostIsOwn
