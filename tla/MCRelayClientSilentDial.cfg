\* One dial that is never answered.
CONSTANTS
    c1 = c1
    c2 = c2
    Clients = {c1}
    NoSender = NoSender
    MaxWait = 30
    MaxEnvelopes = 1
    MaxFaults = 1
SPECIFICATION FairSpec
CHECK_DEADLOCK FALSE
PROPERTIES
    KeepsAlive
