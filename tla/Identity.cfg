SPECIFICATION Spec
CONSTANTS
    Emails = {e0, e1}
    AdminEmail = e0
    Users = {root, i1, i2}
    Admin = root
    NoUser = nobody
    Codes = {c1, c2, c3, c4}
    NoCode = none
    Requests = {u1, u2}
    Faults = {"calls", "crash"}
SYMMETRY Symmetry
CHECK_DEADLOCK FALSE
INVARIANTS UsersHaveCreds CredsHaveUser UsedCodesAreDead LatestCodeWorks
    AdministratorComplete
PROPERTIES ImplementsInvitations
