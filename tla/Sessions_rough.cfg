\* Clients that reconnect early, fall silent and delete channels, on two
\* channels.
CONSTANTS
    User = {u1, u2}
    NoUser = NoUser
    Priority = {1}
    Indicator = {"Normal"}
    PingTimeout = 1
    MaxTaken = 1
    Conn = {c1, c2, c3}
    NoConn = NoConn
    Channel = {ch1, ch2}
    NoChannel = NoChannel
    Conference = {}
    Ufrag = {f1, f2, f3}
    NoUfrag = NoUfrag
    Capacity <- RoomForAll
    Quirk = {"reconnect", "silent", "delete"}
SPECIFICATION Spec
SYMMETRY Symmetry
INVARIANTS
    MembersHaveSessions
    EndpointsHaveSessions
    FloorHasSessions
    NothingLeftBehind
