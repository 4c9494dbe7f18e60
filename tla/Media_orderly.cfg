\* Every client keeps the address it has.  No SYMMETRY: one property is a
\* liveness property.
CONSTANTS
    Endpoint = {e1, e2}
    NoEndpoint = NoEndpoint
    Addr = {a1, a2}
    NoAddr = NoAddr
    Translation = {}
SPECIFICATION FairSpec
INVARIANT OnlySilentAreReaped
PROPERTY ClientsAreLatched
