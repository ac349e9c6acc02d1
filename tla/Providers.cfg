SPECIFICATION Spec
CONSTANTS
    Providers = {pr1}
    NoProvider = nowhere
    Accounts = {a1}
    NoAccount = none
    Clients = {i1, i2}
    NoClient = nil
    Handlers = {u1, u2, u3}
    MaxVersion = 3
    Faults = {"calls", "crash"}
SYMMETRY Symmetry
CHECK_DEADLOCK FALSE
INVARIANTS CacheFollowsRecord OrphansAreLate
