\* Two users, the reaper and an administrator, two handlers at a time.
CONSTANTS
    User = {u1, u2}
    NoUser = NoUser
    Priority = {1, 2}
    Indicator = {"Normal"}
    PingTimeout = 1
    MaxTaken = 1
    Admin = {a1}
    Reaper = reaper
    MaxRunning = 2
SPECIFICATION Spec
SYMMETRY Symmetry
INVARIANTS
    TypeOK
    QuietAgreement
    NobodyMissed
PROPERTY ImplementsArbiter
