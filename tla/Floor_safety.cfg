\* Four users, three priorities, emergency and normal calls, one administrator.
CONSTANTS
    User = {u1, u2, u3, u4}
    NoUser = NoUser
    Priority = {1, 2, 3}
    Indicator = {"Normal", "Emergency"}
    PingTimeout = 1
    MaxTaken = 3
    ReaperInterval = 2
    Admin = {a1}
SPECIFICATION Spec
SYMMETRY Symmetry
INVARIANTS
    TypeOK
    HolderConsistent
    NoStrandedWaiter
    QueueOrdered
    IInv
PROPERTIES
    LawfulHandOver
    ImplementsArbiter
