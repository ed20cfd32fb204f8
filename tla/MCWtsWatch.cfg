\* Two calls of Watch, one after the other or at once; more events than the
\* channel holds.
CONSTANTS
    BufferSize = 2
    MaxCalls = 2
    MaxEvents = 4
    MaxErrors = 1
    Watched = 1
SPECIFICATION FairSpec
\* Everything has ended.
CHECK_DEADLOCK FALSE
INVARIANTS
    TypeOK
    TruthUnderWay
    NothingStays
PROPERTIES
    KeepsFeed
    CancelEndsLoop
