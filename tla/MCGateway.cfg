\* Two clients, two keys, two UI requests at once, a failing disk, a restart.
CONSTANTS
    Clients = {c1, c2}
    Keys = {k1, k2}
    BadKey = BadKey
    Requests = {u1, u2}
    WindowTTL = 1
    Torn = Torn
    Horizon = 2
    MaxWindows = 2
    MaxCrashes = 1
    MaxDiskFailures = 2
SPECIFICATION Spec
SYMMETRY Symmetry
\* An agent whose devices file is torn does not start.
CHECK_DEADLOCK FALSE
INVARIANTS
    TypeOK
    SingleUse
    UnpairDurable
    AcceptedIsStored
    AtMostOneLate
    StoreInSync
PROPERTIES
    KeepsMembership
