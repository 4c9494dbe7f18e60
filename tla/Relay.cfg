\* Three clients in one conference; two in one and one in another; one in a
\* conference and two in a ptt channel.
CONSTANTS
    ann = ann
    bob = bob
    cid = cid
    conf = conf
    other = other
    radio = radio
    Client = {ann, bob, cid}
    NoClient = NoClient
    NoChannel = NoChannel
    Channel = {conf, other, radio}
    Conference = {conf, other}
    Sends <- MCSends
    Scenario <- MCScenario
    Style <- MCStyle
    Serial = {0, 1, 2}
    MaxHolds = 3
SPECIFICATION Spec
INVARIANTS
    TypeOK
    AnswersFitOffers
    RelayMatchesAnswers
    NoCrossTalk
    
CHECK_DEADLOCK FALSE
