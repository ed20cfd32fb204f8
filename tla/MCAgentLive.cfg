\* One device that scans again and again, two requests of the UI at once; the
\* disk fails once, the process ends once, answers are lost.
CONSTANTS
    Clients = {c1}
    Keys = {k1, k2}
    c1 = c1
    k1 = k1
    k2 = k2
    OwnKey <- KeyOfDevice
    BadKey = BadKey
    Requests = {u1, u2}
    WindowTTL = 1
    Torn = Torn
    Horizon = 1
    MaxWindows = 2
    MaxCrashes = 1
    MaxDiskFailures = 1
SPECIFICATION AgentFairSpec
CHECK_DEADLOCK FALSE
PROPERTIES
    EveryCallReturns
    PairingConcludes
