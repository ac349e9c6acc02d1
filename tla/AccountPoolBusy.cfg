SPECIFICATION FairSpec
CONSTANTS
    Accounts = {a1}
    NoAccount = none
    Procs = {p1, p2}
    Deadlines = {2}
    MaxTime = 3
    UnbindDelay = 1
    Faults = {"provider", "oltp"}
CHECK_DEADLOCK FALSE
INVARIANTS BusyHasJob
PROPERTIES BusyEnds
