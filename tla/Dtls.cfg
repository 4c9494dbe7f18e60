\* Two clients, one of them restless; queues of one packet.
CONSTANTS
    restless = restless
    patient = patient
    Addr = {restless, patient}
    NoAddr = NoAddr
    Restless = {restless}
    Task <- MCTask
    Capacity = 1
    MaxPending = 1
SPECIFICATION FairSpec
INVARIANTS
    TypeOK
    
PROPERTIES
    UdpReturns
    PatientClientsGetKeys
CHECK_DEADLOCK FALSE
