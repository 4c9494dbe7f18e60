\* Two members, one of them slow, and one that may join; queues of one packet.
CONSTANTS
    first = first
    second = second
    third = third
    Client = {first, second, third}
    Nobody = Nobody
    Joined = {first, second}
    Slow = {first}
    Size = 1
    Requests <- MCRequests
    Revocations = 1
SPECIFICATION FairSpec
INVARIANTS
    TypeOK
    QuietRosters

    
CHECK_DEADLOCK FALSE
