\* Two envelopes over a faulty relay and network; enough faults for the
\* backoff to reach its cap and stay there.
CONSTANTS
    c1 = c1
    c2 = c2
    Clients = {c1, c2}
    NoSender = NoSender
    MaxWait = 3
    MaxEnvelopes = 2
    MaxFaults = 4
SPECIFICATION FairSpec
\* Run returns once it is cancelled.
CHECK_DEADLOCK FALSE
INVARIANTS
    ShownIsHonest
    ServedAfterWelcome
    RepliesMatch
    Backoff
PROPERTIES
    CancelEnds
    Reconnects
