\* Two desktops that the user switches between.
CONSTANTS
    mgr = mgr
    desk = desk
    other = other
    Sessions = {mgr, desk, other}
    Managers = {mgr}
    Graphical = {desk, other}
    Seated = {desk, other}
    NoSession = NoSession
    MaxSignals = 2
    MaxChanges = 1
    MaxErrors = 1
SPECIFICATION Spec
INVARIANTS
    TypeOK
    LockTarget
    WatchIsCurrent
