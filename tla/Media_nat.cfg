\* Addresses change and are given to others.
CONSTANTS
    Endpoint = {e1, e2, e3}
    NoEndpoint = NoEndpoint
    Addr = {a1, a2}
    NoAddr = NoAddr
    Translation = {"rebind", "reuse"}
SPECIFICATION Spec
SYMMETRY Symmetry
INVARIANTS
    TypeOK
    LatchedAreFound
    OneEndpointPerAddress
    IInv
PROPERTY RemovalIsOwn
