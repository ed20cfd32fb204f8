\* An open command among up to three starts, two agents at once, a disk that
\* fails once.  A second open command is one of the other starts (LogOn).
CONSTANTS
    Procs = {p1, p2}
    NoProc = NoProc
    Openers = {o1}
    Devices = {d1}
    Polls = 2
    Old = Old
    NoKey = NoKey
    Absent = Absent
    Torn = Torn
    MaxStarts = 3
    MaxFailures = 1
SPECIFICATION FairSpec
CHECK_DEADLOCK FALSE
INVARIANTS
    TypeOK
    IdKept
    OneIdentity
    DevicesKept
PROPERTIES
    OpenReturns
