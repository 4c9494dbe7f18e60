\* Two clients of a conference and one of a ptt channel.
CONSTANTS
    ann = ann
    bob = bob
    cid = cid
    conf = conf
    other = other
    radio = radio
    Client = {ann, bob, cid}
    NoClient = NoClient
    NoChannel = NoChannel
    Channel = {conf, other, radio}
    Conference = {conf, other}
    Sends <- MCSends
    Scenario <- ClaimScenario
    Style <- MCStyle
    Serial = {0, 1, 2}
    MaxHolds = 3
SPECIFICATION Spec
INVARIANT AnswersOutliveOthers
CHECK_DEADLOCK FALSE
