\* A failed write leaves a device behind and the window open.
CONSTANTS
    Clients = {c1, c2}
    Keys = {k1}
    BadKey = BadKey
    Requests = {u1}
    WindowTTL = 1
    Torn = Torn
    Horizon = 1
    MaxWindows = 1
    MaxCrashes = 0
    MaxDiskFailures = 1
SPECIFICATION Spec
INVARIANTS
    OneDevicePerWindow
