\* The code's own ratios: a tick is 2 s, so pings time out after 3 ticks
\* (6 s), the reaper runs every 5 (10 s), a grant lasts 15 (30 s).
\* No SYMMETRY: one property is a liveness property.
CONSTANTS
    User = {u1, u2, u3}
    NoUser = NoUser
    Priority = {1, 2}
    Indicator = {"Normal"}
    PingTimeout = 3
    MaxTaken = 15
    ReaperInterval = 5
    Admin = {}
SPECIFICATION FairSpec
INVARIANTS
    PingBound
    HoldBound
PROPERTY NoStarvation
