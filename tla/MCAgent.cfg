\* Two devices, two codes and two requests of the UI at once; the disk fails once, the process ends once.
CONSTANTS
    Clients = {c1, c2}
    Keys = {k1, k2}
    c1 = c1
    k1 = k1
    k2 = k2
    OwnKey <- KeyOfDevice
    BadKey = BadKey
    Requests = {u1, u2}
    WindowTTL = 1
    Torn = Torn
    Horizon = 1
    MaxWindows = 2
    MaxCrashes = 1
    MaxDiskFailures = 1
SPECIFICATION AgentSpec
SYMMETRY Symmetry
CHECK_DEADLOCK FALSE
INVARIANTS
    OutsideOK
    OnePerCode
    PairedIsServed
