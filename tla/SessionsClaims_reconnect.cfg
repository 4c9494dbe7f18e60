CONSTANTS
    User = {u1, u2}
    NoUser = NoUser
    Priority = {1}
    Indicator = {"Normal"}
    PingTimeout = 1
    MaxTaken = 1
    Conn = {c1, c2}
    NoConn = NoConn
    Channel = {ch1, ch2}
    NoChannel = NoChannel
    Conference = {ch2}
    Ufrag = {f1, f2, f3}
    NoUfrag = NoUfrag
    Capacity <- RoomForAll
    Quirk = {"reconnect"}
SPECIFICATION Spec
INVARIANT RegisteredWhileOpen
