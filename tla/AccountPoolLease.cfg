SPECIFICATION Spec
CONSTANTS
    Accounts = {a1}
    NoAccount = none
    Procs = {p1, p2, p3}
    Deadlines = {2, 4}
    MaxTime = 4
    UnbindDelay = 1
    Faults = {"provider", "crash"}
SYMMETRY Symmetry
VIEW View
CHECK_DEADLOCK FALSE
INVARIANTS ExclusiveLease LeaseIsRecorded JobsExclude NoJobUnderLease ReadyIsPrepared
PROPERTIES ClaimsOnlyFree ImplementsLease
