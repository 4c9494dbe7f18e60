\* Clients that follow the connection flow of the README.  No SYMMETRY: one
\* property is a liveness property.
CONSTANTS
    User = {u1, u2}
    NoUser = NoUser
    Priority = {1}
    Indicator = {"Normal"}
    PingTimeout = 1
    MaxTaken = 1
    Conn = {c1, c2}
    NoConn = NoConn
    Channel = {ch1, ch2}
    NoChannel = NoChannel
    Conference = {}
    Ufrag = {f1, f2}
    NoUfrag = NoUfrag
    Capacity <- OneSmall
    Quirk = {}
SPECIFICATION FairSpec
INVARIANTS
    TypeOK
    
PROPERTY VanishedAreForgotten
