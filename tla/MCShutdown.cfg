\* With and without a tray, with and without a config UI, with a session
\* layer that answers and one that does not.
SPECIFICATION FairSpec
\* The process is gone.
CHECK_DEADLOCK FALSE
INVARIANT
    EndsWhenAsked
PROPERTY
    StopEnds
